------------------------- MODULE QueueDrain_proofs -------------------------
(***************************************************************************)
(* What the unattended scripts promise for every number of jobs, lanes,     *)
(* processes, restarts and clicks: one of them drives the queue, a row says *)
(* applied only of what arrived, and a saved confirmation page or an        *)
(* applied row stops every later run.                                       *)
(***************************************************************************)
EXTENDS QueueDrain, TLAPS

-----------------------------------------------------------------------------
(* The inductive invariant, on top of the types. *)

\* Who found the lock free is alone, and who went on is the one it names.
Lone ==
  ~raced => \A p \in Procs :
    /\ Active(p) => lock = p
    /\ At(p, "found free") => \A q \in Procs \ {p} : ~Live(q)

\* Only a script in its lanes has jobs at hand, each in the chunk or begun.
AtHand ==
  \A p \in Procs, j \in Jobs :
    /\ ~At(p, "lanes") => j \notin todo[p] /\ Stage(p, j) = "none"
    /\ j \in todo[p] => Stage(p, j) = "none"

\* What shows a receipt arrived; nothing is ever saved where the audit looks.
Receipts ==
  \A j \in Jobs :
    /\ saved[AuditDir(j)] = "none"
    /\ saved[SessionDir(j)] # "none" => arrived[j]
    /\ row[j] = "applied" => arrived[j]
    /\ \A p \in Procs : run[p][j].result = "submitted" => arrived[j]

\* A job that is about to run, or may still click, is not done.
Unsettled ==
  ~raced => \A p \in Procs, j \in Jobs :
    /\ j \in todo[p] \/ Stage(p, j) \in {"open", "timed out"} => row[j] # "applied"
    /\ Stage(p, j) \in {"open", "timed out"} => saved[SessionDir(j)] # "page"

IInv == TypeOK /\ Lone /\ AtHand /\ Receipts /\ Unsettled

-----------------------------------------------------------------------------
(* Every variable keeps its shape. *)

\* The checkpoint directories: the two names of a job's directory differ from
\* each other and from those of any other job.
LEMMA Directories ==
  /\ \A j \in Jobs : SessionDir(j) \in Dirs /\ AuditDir(j) \in Dirs
  /\ \A i, j \in Jobs : AuditDir(i) # SessionDir(j)
  /\ \A i, j \in Jobs : SessionDir(i) = SessionDir(j) => i = j
BY DEF SessionDir, AuditDir, Dirs

\* No jobs are a list of jobs, and an unreadable registry is a registry.
LEMMA Lists ==
  /\ {} \in SUBSET Jobs
  /\ Unreadable \in (SUBSET Jobs) \cup {Unreadable}
<1>1. {} \in SUBSET Jobs
  OBVIOUS
<1>2. Unreadable \in {Unreadable}
  OBVIOUS
<1> QED BY <1>1, <1>2

\* The types hold initially.
LEMMA InitTypes == Init => TypeOK
<1> SUFFICES ASSUME Init PROVE TypeOK
  OBVIOUS
<1>1. 0 \in 0..MaxStarts /\ 0 \in 0..MaxSends
  BY DrainAssumption
<1>2. /\ registry \in (SUBSET Jobs) \cup {Unreadable}
      /\ memory \in [Procs -> (SUBSET Jobs) \cup {Unreadable}]
      /\ todo \in [Procs -> SUBSET Jobs]
  BY Lists DEF Init
<1>3. run \in [Procs -> [Jobs -> [stage : Stages, clicked : BOOLEAN, result : Results,
                                 why : Reasons]]]
  BY DEF Init, NoRun, Stages, Results, Reasons
<1>4. /\ row \in [Jobs -> Statuses] /\ reason \in [Jobs -> Reasons]
      /\ saved \in [Dirs -> {"none", "text", "page"}]
      /\ script \in [Procs -> [kind : {"marathon", "drain"}, step : Steps]]
  BY DEF Init, Statuses, Reasons, Steps
<1>5. /\ retries \in [Jobs -> 0..3] /\ attempts \in [Jobs -> Nat]
      /\ sent \in [Jobs -> 0..MaxSends] /\ arrived \in [Jobs -> BOOLEAN]
  BY <1>1 DEF Init
<1> QED BY <1>1, <1>2, <1>3, <1>4, <1>5 DEF Init, TypeOK

\* Whatever a job's outcome is, the status it leads to is one of the column's.
LEMMA SettledType == \A p \in Procs, j \in Jobs : Settled(p, j) \in Statuses
BY DEF Settled, Statuses

\* What a script reads as the registry is a list of jobs, whatever it reads it from.
LEMMA LoadedType ==
  ASSUME TypeOK, NEW p \in Procs
  PROVE  Loaded(p) \in SUBSET Jobs
<1>1. /\ memory[p] \in (SUBSET Jobs) \cup {Unreadable}
      /\ registry \in (SUBSET Jobs) \cup {Unreadable}
      /\ history \in SUBSET Jobs
  BY DEF TypeOK
<1> QED BY <1>1 DEF Loaded

\* A run and its report, and the runs of all processes.
Runs == [stage : Stages, clicked : BOOLEAN, result : Results, why : Reasons]

\* A run that is replaced by another leaves every process with runs.
LEMMA RunType ==
  ASSUME run \in [Procs -> [Jobs -> Runs]], NEW p \in Procs, NEW j \in Jobs,
         NEW r \in Runs, run' = [run EXCEPT ![p][j] = r]
  PROVE  run' \in [Procs -> [Jobs -> Runs]]
OBVIOUS

\* A run that is over has a result and a reason.
LEMMA OverType ==
  ASSUME TypeOK, NEW p \in Procs, NEW j \in Jobs, NEW result \in Results,
         NEW why \in Reasons, Over(p, j, result, why)
  PROVE  run' \in [Procs -> [Jobs -> Runs]]
<1> DEFINE r == [run[p][j] EXCEPT !.stage = "over", !.result = result, !.why = why]
<1>1. run \in [Procs -> [Jobs -> Runs]]
  BY DEF TypeOK, Runs
<1>2. run[p][j] \in Runs
  BY <1>1
<1>3. r \in Runs
  BY <1>2 DEF Runs, Stages
<1>4. run' = [run EXCEPT ![p][j] = r]
  BY DEF Over
<1> HIDE DEF r
<1> QED BY <1>1, <1>3, <1>4, RunType

\* Every step of a job in its lane keeps the types.
LEMMA JobTypes ==
  ASSUME TypeOK, NEW p \in Procs, NEW j \in Jobs, JobStep(p, j)
  PROVE  TypeOK'
<1>0. /\ run \in [Procs -> [Jobs -> Runs]] /\ run[p][j] \in Runs /\ NoRun \in Runs
      /\ todo \in [Procs -> SUBSET Jobs]
      /\ memory \in [Procs -> (SUBSET Jobs) \cup {Unreadable}]
  <2>1. /\ run \in [Procs -> [Jobs -> Runs]] /\ todo \in [Procs -> SUBSET Jobs]
        /\ memory \in [Procs -> (SUBSET Jobs) \cup {Unreadable}]
    BY DEF TypeOK, Runs
  <2>2. NoRun \in Runs
    BY DEF Runs, NoRun, Stages, Results, Reasons
  <2> QED BY <2>1, <2>2
<1>1. CASE Begin(p, j)
  <2>1. row' \in [Jobs -> Statuses] /\ reason' \in [Jobs -> Reasons]
    BY <1>1 DEF Begin, TypeOK, Statuses, Reasons
  <2>2. journal' \subseteq Jobs /\ todo' \in [Procs -> SUBSET Jobs]
    BY <1>1 DEF Begin, TypeOK
  <2>3. run' \in [Procs -> [Jobs -> Runs]]
    <3> DEFINE r == IF Recorded(j)
                      THEN [NoRun EXCEPT !.stage = "over", !.result = "submitted"]
                      ELSE [NoRun EXCEPT !.stage = "open"]
    <3>1. r \in Runs
      BY DEF NoRun, Runs, Stages, Results, Reasons
    <3>2. run' = run \/ run' = [run EXCEPT ![p][j] = r]
      BY <1>1 DEF Begin
    <3> HIDE DEF r
    <3> QED BY <1>0, <3>1, <3>2, RunType
  <2>4. UNCHANGED <<retries, attempts, registry, history, saved, lock, script, memory,
                    starts, sent, arrived, raced>>
    BY <1>1 DEF Begin
  <2> QED BY <2>1, <2>2, <2>3, <2>4 DEF TypeOK, Runs
<1>2. CASE Click(p, j)
  <2>1. sent' \in [Jobs -> 0..MaxSends]
    <3>1. sent \in [Jobs -> 0..MaxSends] /\ MaxSends \in Nat
      BY DrainAssumption DEF TypeOK
    <3>2. sent[j] < MaxSends /\ sent' = [sent EXCEPT ![j] = @ + 1]
      BY <1>2 DEF Click
    <3>3. sent[j] + 1 \in 0..MaxSends
      BY <3>1, <3>2
    <3> QED BY <3>1, <3>2, <3>3
  <2>2. arrived' \in [Jobs -> BOOLEAN]
    BY <1>2 DEF Click, TypeOK
  <2>3. run' \in [Procs -> [Jobs -> Runs]]
    <3> DEFINE r == [run[p][j] EXCEPT !.clicked = TRUE]
    <3>1. r \in Runs
      BY <1>0 DEF Runs
    <3>2. run' = [run EXCEPT ![p][j] = r]
      BY <1>2 DEF Click
    <3> HIDE DEF r
    <3> QED BY <1>0, <3>1, <3>2, RunType
  <2> QED BY <1>2, <2>1, <2>2, <2>3 DEF Click, disk, TypeOK, Runs
<1>3. CASE Finish(p, j)
  <2>1. history' \subseteq Jobs /\ journal' \subseteq Jobs
    BY <1>3 DEF Finish, TypeOK
  <2>2. saved' \in [Dirs -> {"none", "text", "page"}]
    BY <1>3, Directories DEF Finish, TypeOK
  <2>3. \A o \in Outcomes(run[p][j].clicked) : o[1] \in Results /\ o[2] \in Reasons
    BY DEF Outcomes, Results, Reasons
  <2>4. \E result \in Results, why \in Reasons : Over(p, j, result, why)
    <3>1. CASE Over(p, j, "submitted", "none")
      BY <3>1 DEF Results, Reasons
    <3>2. CASE \E o \in Outcomes(run[p][j].clicked) : Over(p, j, o[1], o[2])
      BY <3>2, <2>3
    <3> QED BY <1>3, <3>1, <3>2 DEF Finish
  <2>5. run' \in [Procs -> [Jobs -> Runs]]
    BY <2>4, OverType
  <2> QED BY <1>3, <2>1, <2>2, <2>5 DEF Finish, TypeOK, Runs
<1>4. CASE TimeOut(p, j)
  <2>1. run' \in [Procs -> [Jobs -> Runs]]
    <3> DEFINE r == [run[p][j] EXCEPT !.stage = "timed out"]
    <3>1. r \in Runs
      BY <1>0 DEF Runs, Stages
    <3>2. run' = [run EXCEPT ![p][j] = r]
      BY <1>4 DEF TimeOut
    <3> HIDE DEF r
    <3> QED BY <1>0, <3>1, <3>2, RunType
  <2> QED BY <1>4, <2>1 DEF TimeOut, TypeOK, Runs
<1>5. CASE Close(p, j)
  <2>1. saved' \in [Dirs -> {"none", "text", "page"}]
    BY <1>5, Directories DEF Close, TypeOK
  <2>2. run' \in [Procs -> [Jobs -> Runs]]
    BY <1>5, OverType DEF Close, Results, Reasons
  <2> QED BY <1>5, <2>1, <2>2 DEF Close, TypeOK, Runs
<1>6. CASE Mark(p, j)
  <2>1. Settled(p, j) \in Statuses /\ run[p][j].why \in Reasons
    BY <1>0, SettledType DEF Runs
  <2>2. row' \in [Jobs -> Statuses] /\ reason' \in [Jobs -> Reasons]
    <3>1. \/ UNCHANGED <<row, reason>>
          \/ /\ row' = [row EXCEPT ![j] = Settled(p, j)]
             /\ \E why \in {reason[j], run[p][j].why} : reason' = [reason EXCEPT ![j] = why]
      BY <1>6 DEF Mark
    <3>2. row \in [Jobs -> Statuses] /\ reason \in [Jobs -> Reasons]
      BY DEF TypeOK
    <3> QED BY <2>1, <3>1, <3>2
  <2>3. run' \in [Procs -> [Jobs -> Runs]]
    <3> DEFINE r == IF script[p].kind = "drain" THEN NoRun
                    ELSE [run[p][j] EXCEPT !.stage = "marked"]
    <3>1. r \in Runs
      BY <1>0 DEF Runs, Stages
    <3>2. run' = [run EXCEPT ![p][j] = r]
      BY <1>6 DEF Mark
    <3> HIDE DEF r
    <3> QED BY <1>0, <3>1, <3>2, RunType
  <2> QED BY <1>6, <2>2, <2>3 DEF Mark, TypeOK, Runs
<1>7. CASE Note(p, j)
  <2>1. run' \in [Procs -> [Jobs -> Runs]]
    <3>1. run' = [run EXCEPT ![p][j] = NoRun]
      BY <1>7 DEF Note
    <3> QED BY <1>0, <3>1, RunType
  <2>2. attempts' \in [Jobs -> Nat]
    BY <1>7 DEF Note, TypeOK
  <2>3. Loaded(p) \ {j} \in SUBSET Jobs /\ Loaded(p) \cup {j} \in SUBSET Jobs
    BY LoadedType
  <2>4. \/ UNCHANGED <<registry, memory>>
        \/ \E listed \in SUBSET Jobs :
             registry' = listed /\ memory' = [memory EXCEPT ![p] = listed]
    BY <1>7, <2>3 DEF Note
  <2>5. /\ registry' \in (SUBSET Jobs) \cup {Unreadable}
        /\ memory' \in [Procs -> (SUBSET Jobs) \cup {Unreadable}]
    BY <1>0, <2>4 DEF TypeOK
  <2> QED BY <1>7, <2>1, <2>2, <2>5 DEF Note, TypeOK, Runs
<1> QED BY <1>1, <1>2, <1>3, <1>4, <1>5, <1>6, <1>7 DEF JobStep

\* A script's next step is one, whatever its kind.
LEMMA GoToType ==
  ASSUME TypeOK, NEW p \in Procs, NEW step \in Steps, GoTo(p, step)
  PROVE  script' \in [Procs -> [kind : {"marathon", "drain"}, step : Steps]]
BY DEF TypeOK, GoTo

\* A script that ends leaves the types alone.
LEMMA ReleaseType ==
  ASSUME TypeOK, NEW p \in Procs, Release(p)
  PROVE  /\ lock' \in Procs \cup {None}
         /\ script' \in [Procs -> [kind : {"marathon", "drain"}, step : Steps]]
         /\ memory' \in [Procs -> (SUBSET Jobs) \cup {Unreadable}]
         /\ todo' \in [Procs -> SUBSET Jobs]
<1>1. script' \in [Procs -> [kind : {"marathon", "drain"}, step : Steps]]
  BY GoToType DEF Release, Steps
<1>2. /\ lock' \in Procs \cup {None}
      /\ memory' \in [Procs -> (SUBSET Jobs) \cup {Unreadable}]
      /\ todo' \in [Procs -> SUBSET Jobs]
  BY Lists DEF TypeOK, Release
<1> QED BY <1>1, <1>2

\* Every step keeps the types.
LEMMA NextTypes == TypeOK /\ [Next]_vars => TypeOK'
<1> SUFFICES ASSUME TypeOK, [Next]_vars PROVE TypeOK'
  OBVIOUS
<1>1. CASE Reset
  <2>1. /\ row' \in [Jobs -> Statuses] /\ reason' \in [Jobs -> Reasons]
        /\ attempts' \in [Jobs -> Nat]
    BY <1>1 DEF TypeOK, Reset, Statuses, Reasons
  <2>2. registry' \in (SUBSET Jobs) \cup {Unreadable}
    BY <1>1, Lists DEF Reset
  <2> QED BY <1>1, <2>1, <2>2 DEF Reset, TypeOK
<1>2. ASSUME NEW p \in Procs, NEW kind \in {"marathon", "drain"}, Start(p, kind)
      PROVE  TypeOK'
  <2>1. starts' \in 0..MaxStarts
    <3>1. starts \in 0..MaxStarts /\ MaxStarts \in Nat
      BY DrainAssumption DEF TypeOK
    <3>2. starts < MaxStarts /\ starts' = starts + 1
      BY <1>2 DEF Start
    <3> QED BY <3>1, <3>2
  <2>2. raced' \in BOOLEAN
    BY <1>2 DEF Start, Racing
  <2>3. script' \in [Procs -> [kind : {"marathon", "drain"}, step : Steps]]
    BY <1>2 DEF Start, Steps, TypeOK
  <2> QED BY <1>2, <2>1, <2>2, <2>3 DEF Start, disk, TypeOK
<1>3. ASSUME NEW p \in Procs, Crash(p) PROVE TypeOK'
  <2>1. run' \in [Procs -> [Jobs -> Runs]]
    <3>1. NoRun \in Runs /\ run \in [Procs -> [Jobs -> Runs]]
      BY DEF TypeOK, Runs, NoRun, Stages, Results, Reasons
    <3> QED BY <1>3, <3>1 DEF Crash
  <2>2. script' \in [Procs -> [kind : {"marathon", "drain"}, step : Steps]]
    BY <1>3, GoToType DEF Crash, Steps
  <2>3. /\ memory' \in [Procs -> (SUBSET Jobs) \cup {Unreadable}]
        /\ todo' \in [Procs -> SUBSET Jobs]
    BY <1>3, Lists DEF Crash, TypeOK
  <2> QED BY <1>3, <2>1, <2>2, <2>3 DEF Crash, disk, TypeOK, Runs
<1>4. ASSUME NEW p \in Procs, TakeLock(p) PROVE TypeOK'
  <2>1. script' \in [Procs -> [kind : {"marathon", "drain"}, step : Steps]]
    BY <1>4, GoToType DEF TakeLock, Steps
  <2> QED BY <1>4, <2>1 DEF TakeLock, disk, TypeOK
<1>5. ASSUME NEW p \in Procs, Recover(p) PROVE TypeOK'
  <2>1. script' \in [Procs -> [kind : {"marathon", "drain"}, step : Steps]]
    BY <1>5, GoToType DEF Recover, Steps
  <2>2. row' \in [Jobs -> Statuses]
    BY <1>5 DEF Recover, TypeOK, Statuses
  <2> QED BY <1>5, <2>1, <2>2 DEF Recover, TypeOK
<1>6. ASSUME NEW p \in Procs, Requeue(p) PROVE TypeOK'
  <2>1. row' \in [Jobs -> Statuses] /\ reason' \in [Jobs -> Reasons]
    BY <1>6 DEF Requeue, Statuses, Reasons, TypeOK
  <2>2. retries' \in [Jobs -> 0..3]
    BY <1>6 DEF Requeue, Solvable, TypeOK
  <2>3. script' \in [Procs -> [kind : {"marathon", "drain"}, step : Steps]]
    BY <1>6, GoToType DEF Requeue, Steps
  <2> QED BY <1>6, <2>1, <2>2, <2>3 DEF Requeue, TypeOK
<1>7. ASSUME NEW p \in Procs, ChooseFresh(p) PROVE TypeOK'
  <2>1. row' \in [Jobs -> Statuses]
    BY <1>7 DEF ChooseFresh, Statuses, TypeOK
  <2>2. registry' \in (SUBSET Jobs) \cup {Unreadable}
    BY <1>7, LoadedType DEF ChooseFresh, TypeOK
  <2>3. /\ lock' \in Procs \cup {None}
        /\ script' \in [Procs -> [kind : {"marathon", "drain"}, step : Steps]]
        /\ memory' \in [Procs -> (SUBSET Jobs) \cup {Unreadable}]
        /\ todo' \in [Procs -> SUBSET Jobs]
    <3>1. CASE Release(p)
      BY <3>1, ReleaseType
    <3>2. CASE /\ memory' = [memory EXCEPT ![p] = Loaded(p)]
               /\ \E chunk \in SUBSET Jobs : todo' = [todo EXCEPT ![p] = chunk]
               /\ GoTo(p, "lanes")
               /\ UNCHANGED lock
      <4>1. script' \in [Procs -> [kind : {"marathon", "drain"}, step : Steps]]
        BY <3>2, GoToType DEF Steps
      <4>2. memory' \in [Procs -> (SUBSET Jobs) \cup {Unreadable}]
        BY <3>2, LoadedType DEF TypeOK
      <4> QED BY <3>2, <4>1, <4>2 DEF TypeOK
    <3>3. \A fresh \in SUBSET Jobs : Chunks(fresh) \ {{}} \subseteq SUBSET Jobs
      BY DEF Chunks
    <3>4. \A S : Queued \ S \in SUBSET Jobs
      BY DEF Queued
    <3>5. \A S : Chunks(Queued \ S) \ {{}} \subseteq SUBSET Jobs
      BY <3>3, <3>4
    <3> QED BY <1>7, <3>1, <3>2, <3>5 DEF ChooseFresh
  <2> QED BY <1>7, <2>1, <2>2, <2>3 DEF ChooseFresh, TypeOK
<1>8. ASSUME NEW p \in Procs, ChooseAll(p) PROVE TypeOK'
  <2>1. script' \in [Procs -> [kind : {"marathon", "drain"}, step : Steps]]
    BY <1>8, GoToType DEF ChooseAll, Steps
  <2>2. todo' \in [Procs -> SUBSET Jobs]
    BY <1>8 DEF ChooseAll, Queued, TypeOK
  <2> QED BY <1>8, <2>1, <2>2 DEF ChooseAll, disk, TypeOK
<1>9. ASSUME NEW p \in Procs, EndCycle(p) PROVE TypeOK'
  <2>1. CASE Release(p)
    BY <1>9, <2>1, ReleaseType DEF EndCycle, disk, TypeOK
  <2>2. CASE GoTo(p, "choosing") /\ UNCHANGED <<lock, memory, todo>>
    <3>1. script' \in [Procs -> [kind : {"marathon", "drain"}, step : Steps]]
      BY <2>2, GoToType DEF Steps
    <3> QED BY <1>9, <2>2, <3>1 DEF EndCycle, disk, TypeOK
  <2> QED BY <1>9, <2>1, <2>2 DEF EndCycle
<1>10. ASSUME NEW p \in Procs, NEW j \in Jobs, JobStep(p, j) PROVE TypeOK'
  BY <1>10, JobTypes
<1>11. CASE UNCHANGED vars
  BY <1>11 DEF vars, disk, TypeOK
<1> QED
  BY <1>1, <1>2, <1>3, <1>4, <1>5, <1>6, <1>7, <1>8, <1>9, <1>10, <1>11
  DEF Next, ScriptStep

\* The variables of the scripts keep their types (the scripts' files and memory).
THEOREM TypeCorrect == Spec => []TypeOK
BY InitTypes, NextTypes, PTL DEF Spec

-----------------------------------------------------------------------------
(* One script drives the queue. *)

\* A step of a job leaves the scripts and the lock alone and concerns one run; a
\* run begins from the chunk, and what it saves is the page of what arrived.
LEMMA JobEffect ==
  ASSUME TypeOK, NEW p \in Procs, NEW j \in Jobs, JobStep(p, j)
  PROVE  /\ UNCHANGED <<script, lock, raced>>
         /\ \A q \in Procs, i \in Jobs : q # p \/ i # j => run'[q][i] = run[q][i]
         /\ \A q \in Procs : todo'[q] \subseteq todo[q]
         /\ \/ At(p, "lanes") /\ j \in todo[p] /\ j \notin todo'[p]
            \/ Stage(p, j) # "none" /\ UNCHANGED todo
         /\ \A i \in Jobs : arrived[i] => arrived'[i]
         /\ \A i \in Jobs : saved'[AuditDir(i)] = saved[AuditDir(i)]
         /\ \A i \in Jobs \ {j} : saved'[SessionDir(i)] = saved[SessionDir(i)]
         /\ saved'[SessionDir(j)] # saved[SessionDir(j)] =>
              arrived'[j] /\ Stage(p, j) \in {"open", "timed out"}
         /\ \A i \in Jobs \ {j} : row'[i] = row[i]
<1>1. /\ run \in [Procs -> [Jobs -> Runs]] /\ todo \in [Procs -> SUBSET Jobs]
      /\ row \in [Jobs -> Statuses] /\ arrived \in [Jobs -> BOOLEAN]
      /\ saved \in [Dirs -> {"none", "text", "page"}]
  BY DEF TypeOK, Runs
<1>2. CASE Begin(p, j)
  BY <1>1, <1>2 DEF Begin, At
<1>3. CASE Click(p, j)
  BY <1>1, <1>3 DEF Click, disk
<1>4. CASE Finish(p, j)
  <2>1. /\ UNCHANGED <<row, script, lock, raced, todo, arrived>> /\ Stage(p, j) = "open"
        /\ \E r : run' = [run EXCEPT ![p][j] = r]
        /\ \/ UNCHANGED saved
           \/ arrived[j] /\ \E shown : saved' = [saved EXCEPT ![SessionDir(j)] = shown]
    BY <1>4 DEF Finish, Over
  <2> QED BY <1>1, <2>1, Directories
<1>5. CASE TimeOut(p, j)
  BY <1>1, <1>5 DEF TimeOut
<1>6. CASE Close(p, j)
  BY <1>1, <1>6, Directories DEF Close, Over
<1>7. CASE Mark(p, j)
  BY <1>1, <1>7 DEF Mark
<1>8. CASE Note(p, j)
  BY <1>1, <1>8 DEF Note
<1> QED BY <1>2, <1>3, <1>4, <1>5, <1>6, <1>7, <1>8 DEF JobStep

\* A live script has found the lock free or is active.
LEMMA LiveOrOff ==
  ASSUME TypeOK, NEW p \in Procs
  PROVE  Live(p) <=> At(p, "found free") \/ Active(p)
<1>1. script[p].step \in Steps
  BY DEF TypeOK
<1> QED BY <1>1 DEF Live, At, Active, Steps

\* A step of an active script to another active step, or to its end.
LEMMA LoneKept ==
  ASSUME TypeOK, Lone, NEW p \in Procs, Active(p), UNCHANGED raced,
         \/ /\ UNCHANGED lock
            /\ \E step \in {"recovering", "requeueing", "choosing", "lanes"} : GoTo(p, step)
         \/ Release(p)
  PROVE  Lone'
<1> SUFFICES ASSUME ~raced, NEW q \in Procs
             PROVE  /\ Active(q)' => lock' = q
                    /\ At(q, "found free")' => \A o \in Procs \ {q} : ~Live(o)'
  BY DEF Lone
<1>1. lock = p /\ \A o \in Procs \ {p} : ~Live(o)
  <2>1. lock = p
    BY DEF Lone
  <2>2. \A o \in Procs \ {p} : ~At(o, "found free") /\ ~Active(o)
    <3>1. Live(p)
      BY LiveOrOff
    <3> QED BY <2>1, <3>1 DEF Lone
  <2> QED BY <2>1, <2>2, LiveOrOff
<1>2. script \in [Procs -> [kind : {"marathon", "drain"}, step : Steps]]
  BY DEF TypeOK
<1>3. CASE UNCHANGED lock /\ \E step \in {"recovering", "requeueing", "choosing", "lanes"} :
                               GoTo(p, step)
  BY <1>1, <1>2, <1>3 DEF GoTo, Active, At, Live
<1>4. CASE Release(p)
  <2>1. script' = [script EXCEPT ![p].step = "off"]
    BY <1>4 DEF Release, GoTo
  <2>2. script'[p].step = "off" /\ \A o \in Procs \ {p} : script'[o].step = "off"
    BY <1>1, <1>2, <2>1 DEF Live
  <2> QED BY <2>2 DEF Active, At
<1> QED BY <1>3, <1>4

\* Every step keeps a lone script lone, unless it is the one that races.
LEMMA NextLone == TypeOK /\ Lone /\ [Next]_vars => Lone'
<1> SUFFICES ASSUME TypeOK, Lone, [Next]_vars PROVE Lone'
  OBVIOUS
<1>0. script \in [Procs -> [kind : {"marathon", "drain"}, step : Steps]]
  BY DEF TypeOK
<1>1. CASE UNCHANGED <<script, lock, raced>>
  BY <1>1 DEF Lone, Active, At, Live
<1>2. ASSUME NEW p \in Procs, NEW kind \in {"marathon", "drain"}, Start(p, kind)
      PROVE  Lone'
  <2> SUFFICES ASSUME ~raced' PROVE Lone'
    BY DEF Lone
  <2>1. ~raced /\ \A q \in Procs \ {p} : ~At(q, "found free")
    BY <1>2 DEF Start, Racing, LockFree
  <2>2. \A q \in Procs \ {p} : ~Live(q)
    <3>1. \A q \in Procs \ {p} : Live(q) => Active(q) /\ lock = q
      BY <2>1, LiveOrOff DEF Lone
    <3>2. LockFree(p)
      BY <1>2 DEF Start, LockFree
    <3> QED BY <3>1, <3>2 DEF LockFree
  <2>3. script' = [script EXCEPT ![p] = [kind |-> kind, step |-> "found free"]]
    BY <1>2 DEF Start
  <2> QED BY <1>0, <2>2, <2>3 DEF Lone, Active, At, Live
<1>3. ASSUME NEW p \in Procs, Crash(p) PROVE Lone'
  BY <1>0, <1>3 DEF Crash, GoTo, disk, Lone, Active, At, Live
<1>4. ASSUME NEW p \in Procs, TakeLock(p) PROVE Lone'
  BY <1>0, <1>4 DEF TakeLock, GoTo, disk, Lone, Active, At, Live
<1>5. ASSUME NEW p \in Procs, Recover(p) PROVE Lone'
  BY <1>5, LoneKept DEF Recover, Active, At
<1>6. ASSUME NEW p \in Procs, Requeue(p) PROVE Lone'
  BY <1>6, LoneKept DEF Requeue, Active, At
<1>7. ASSUME NEW p \in Procs, ChooseFresh(p) PROVE Lone'
  BY <1>7, LoneKept DEF ChooseFresh, Active, At
<1>8. ASSUME NEW p \in Procs, ChooseAll(p) PROVE Lone'
  BY <1>8, LoneKept DEF ChooseAll, Active, At, disk
<1>9. ASSUME NEW p \in Procs, EndCycle(p) PROVE Lone'
  BY <1>9, LoneKept DEF EndCycle, Active, At, disk
<1>10. ASSUME NEW p \in Procs, NEW j \in Jobs, JobStep(p, j) PROVE Lone'
  BY <1>1, <1>10, JobEffect
<1>11. CASE Reset \/ UNCHANGED vars
  BY <1>1, <1>11 DEF Reset, vars
<1> QED
  BY <1>2, <1>3, <1>4, <1>5, <1>6, <1>7, <1>8, <1>9, <1>10, <1>11 DEF Next, ScriptStep

-----------------------------------------------------------------------------
(* Only a script in its lanes has jobs at hand. *)

\* A script that ends has nothing at hand.
LEMMA ReleaseAtHand ==
  ASSUME TypeOK, AtHand, NEW p \in Procs, Release(p), Idle(p), UNCHANGED run
  PROVE  AtHand'
<1>1. /\ script \in [Procs -> [kind : {"marathon", "drain"}, step : Steps]]
      /\ todo \in [Procs -> SUBSET Jobs]
  BY DEF TypeOK
<1>2. script' = [script EXCEPT ![p].step = "off"] /\ todo' = [todo EXCEPT ![p] = {}]
  BY DEF Release, GoTo
<1> QED BY <1>1, <1>2 DEF AtHand, At, Stage, Idle

\* Every step keeps the chunk and the runs where they belong.
LEMMA NextAtHand == TypeOK /\ AtHand /\ [Next]_vars => AtHand'
<1> SUFFICES ASSUME TypeOK, AtHand, [Next]_vars PROVE AtHand'
  OBVIOUS
<1>0. /\ script \in [Procs -> [kind : {"marathon", "drain"}, step : Steps]]
      /\ todo \in [Procs -> SUBSET Jobs]
      /\ run \in [Procs -> [Jobs -> Runs]]
  BY DEF TypeOK, Runs
<1>1. CASE UNCHANGED <<script, todo, run>>
  BY <1>1 DEF AtHand, At, Stage
<1>3. ASSUME NEW p \in Procs, NEW kind \in {"marathon", "drain"}, Start(p, kind)
      PROVE  AtHand'
  BY <1>0, <1>3 DEF Start, AtHand, At, Stage
<1>4. ASSUME NEW p \in Procs, Crash(p) PROVE AtHand'
  BY <1>0, <1>4 DEF Crash, GoTo, AtHand, At, Stage, NoRun
<1>5. ASSUME NEW p \in Procs, TakeLock(p) PROVE AtHand'
  BY <1>0, <1>5 DEF TakeLock, GoTo, AtHand, At, Stage
<1>6. ASSUME NEW p \in Procs, Recover(p) PROVE AtHand'
  BY <1>0, <1>6 DEF Recover, GoTo, AtHand, At, Stage
<1>7. ASSUME NEW p \in Procs, Requeue(p) PROVE AtHand'
  BY <1>0, <1>7 DEF Requeue, GoTo, AtHand, At, Stage
<1>8. ASSUME NEW p \in Procs, ChooseFresh(p) PROVE AtHand'
  <2>1. Idle(p) /\ ~At(p, "lanes") /\ UNCHANGED run
    BY <1>8 DEF ChooseFresh, AtHand, At, Idle
  <2>2. \/ Release(p)
        \/ GoTo(p, "lanes") /\ \E chunk : todo' = [todo EXCEPT ![p] = chunk]
    BY <1>8 DEF ChooseFresh
  <2>3. CASE GoTo(p, "lanes") /\ \E chunk : todo' = [todo EXCEPT ![p] = chunk]
    BY <1>0, <2>1, <2>3 DEF GoTo, AtHand, At, Stage, Idle
  <2> QED BY <2>1, <2>2, <2>3, ReleaseAtHand
<1>9. ASSUME NEW p \in Procs, ChooseAll(p) PROVE AtHand'
  BY <1>0, <1>9 DEF ChooseAll, GoTo, AtHand, At, Stage
<1>10. ASSUME NEW p \in Procs, EndCycle(p) PROVE AtHand'
  <2>1. CASE Release(p)
    BY <1>10, <2>1, ReleaseAtHand DEF EndCycle
  <2>2. CASE GoTo(p, "choosing") /\ UNCHANGED todo
    BY <1>0, <1>10, <2>2 DEF EndCycle, Idle, GoTo, AtHand, At, Stage
  <2> QED BY <1>10, <2>1, <2>2 DEF EndCycle
<1>11. ASSUME NEW p \in Procs, NEW j \in Jobs, JobStep(p, j) PROVE AtHand'
  <2>1. At(p, "lanes") /\ UNCHANGED script
    BY <1>11, JobEffect DEF AtHand
  <2>2. j \notin todo'[p]
    BY <1>11, JobEffect DEF AtHand
  <2>3. /\ \A q \in Procs, i \in Jobs : q # p \/ i # j => run'[q][i] = run[q][i]
        /\ \A q \in Procs : todo'[q] \subseteq todo[q]
    BY <1>11, JobEffect
  <2> QED BY <2>1, <2>2, <2>3 DEF AtHand, At, Stage
<1>12. CASE Reset \/ UNCHANGED vars
  BY <1>1, <1>12 DEF Reset, vars
<1> QED
  BY <1>3, <1>4, <1>5, <1>6, <1>7, <1>8, <1>9, <1>10, <1>11, <1>12 DEF Next, ScriptStep

-----------------------------------------------------------------------------
(* A row says applied only of what arrived. *)

\* A step of a job shows a receipt only of an application that arrived.
LEMMA JobReceipts ==
  ASSUME TypeOK, Receipts, NEW p \in Procs, NEW j \in Jobs, JobStep(p, j)
  PROVE  Receipts'
<1>0. /\ run \in [Procs -> [Jobs -> Runs]] /\ row \in [Jobs -> Statuses]
  BY DEF TypeOK, Runs
<1>1. /\ \A q \in Procs, i \in Jobs : q # p \/ i # j => run'[q][i] = run[q][i]
      /\ \A i \in Jobs : arrived[i] => arrived'[i]
      /\ \A i \in Jobs : saved'[AuditDir(i)] = saved[AuditDir(i)]
      /\ \A i \in Jobs \ {j} : saved'[SessionDir(i)] = saved[SessionDir(i)]
      /\ saved'[SessionDir(j)] # saved[SessionDir(j)] => arrived'[j]
      /\ \A i \in Jobs \ {j} : row'[i] = row[i]
  BY JobEffect
<1>2. row'[j] = "applied" => arrived'[j]
  <2>1. CASE Mark(p, j)
    <3>1. Outcome(p, j) = run[p][j].result
      BY DEF Outcome, Audited, Receipts
    <3>2. Settled(p, j) = "applied" => run[p][j].result = "submitted"
      BY <3>1 DEF Settled
    <3>3. row'[j] \in {row[j], Settled(p, j)}
      BY <1>0, <2>1 DEF Mark
    <3> QED BY <1>1, <3>2, <3>3 DEF Receipts
  <2>2. CASE Begin(p, j)
    BY <1>0, <1>1, <2>2 DEF Begin, Receipts
  <2>3. CASE UNCHANGED row
    BY <1>1, <2>3 DEF Receipts
  <2> QED BY <2>1, <2>2, <2>3 DEF JobStep, Click, Finish, TimeOut, Close, Note, disk
<1>3. run'[p][j].result = "submitted" => arrived'[j]
  <2>1. CASE Begin(p, j)
    BY <1>0, <1>1, <2>1 DEF Begin, Recorded, Receipts, NoRun
  <2>2. CASE Finish(p, j)
    <3>1. CASE arrived[j]
      BY <1>1, <3>1
    <3>2. CASE \E o \in Outcomes(run[p][j].clicked) : Over(p, j, o[1], o[2])
      <4>1. \A o \in Outcomes(run[p][j].clicked) : o[1] # "submitted"
        BY DEF Outcomes
      <4> QED BY <1>0, <3>2, <4>1 DEF Over
    <3> QED BY <2>2, <3>1, <3>2 DEF Finish
  <2>3. CASE Click(p, j) \/ TimeOut(p, j)
    <3>1. run'[p][j].result = run[p][j].result
      <4>1. run[p][j] \in Runs
        BY <1>0
      <4>2. \/ run'[p][j] = [run[p][j] EXCEPT !.clicked = TRUE]
            \/ run'[p][j] = [run[p][j] EXCEPT !.stage = "timed out"]
        BY <1>0, <2>3 DEF Click, TimeOut
      <4>3. CASE run'[p][j] = [run[p][j] EXCEPT !.clicked = TRUE]
        BY <4>1, <4>3 DEF Runs
      <4>4. CASE run'[p][j] = [run[p][j] EXCEPT !.stage = "timed out"]
        BY <4>1, <4>4 DEF Runs
      <4> QED BY <4>2, <4>3, <4>4
    <3>2. arrived[j] => arrived'[j]
      BY <1>1
    <3>3. run[p][j].result = "submitted" => arrived[j]
      BY DEF Receipts
    <3> QED BY <3>1, <3>2, <3>3
  <2>4. CASE Close(p, j)
    <3>1. run[p][j] \in Runs
      BY <1>0
    <3>2. run'[p][j] = [run[p][j] EXCEPT !.stage = "over", !.result = "failed", !.why = "crash"]
      BY <1>0, <2>4 DEF Close, Over
    <3> QED BY <3>1, <3>2 DEF Runs
  <2>5. CASE Mark(p, j)
    <3>1. run'[p][j].result \in {run[p][j].result, "none"}
      BY <1>0, <2>5 DEF Mark, NoRun, Runs
    <3> QED BY <1>1, <3>1 DEF Receipts
  <2>6. CASE Note(p, j)
    BY <1>0, <2>6 DEF Note, NoRun
  <2> QED BY <2>1, <2>2, <2>3, <2>4, <2>5, <2>6 DEF JobStep
<1> QED BY <1>1, <1>2, <1>3 DEF Receipts

\* What is no step of a job turns no row into an applied one: the recovery
\* audits a directory in which nothing is saved.
LEMMA RowsElsewhere ==
  ASSUME TypeOK, Receipts, [Next]_vars,
         ~ \E p \in Procs, j \in Jobs : JobStep(p, j)
  PROVE  /\ \A j \in Jobs : row'[j] = "applied" <=> row[j] = "applied"
         /\ UNCHANGED <<saved, sent, arrived>>
<1>0. row \in [Jobs -> Statuses]
  BY DEF TypeOK
<1>1. ASSUME NEW p \in Procs, Recover(p)
      PROVE  \A j \in Jobs : row'[j] = "applied" <=> row[j] = "applied"
  <2>1. \A j \in Jobs : ~Audited(j)
    BY DEF Audited, Receipts
  <2> QED BY <1>0, <1>1, <2>1 DEF Recover
<1>2. ASSUME NEW p \in Procs, Requeue(p)
      PROVE  \A j \in Jobs : row'[j] = "applied" <=> row[j] = "applied"
  BY <1>0, <1>2 DEF Requeue, Ended, Crashed, Solvable
<1>3. ASSUME NEW p \in Procs, ChooseFresh(p)
      PROVE  \A j \in Jobs : row'[j] = "applied" <=> row[j] = "applied"
  <2>1. row' = [j \in Jobs |-> IF j \in {i \in Queued : Attempted(p, i)} THEN "failed" ELSE row[j]]
    BY <1>3 DEF ChooseFresh
  <2> HIDE DEF Attempted
  <2> QED BY <1>0, <2>1 DEF Queued
<1>4. Reset => \A j \in Jobs : row'[j] = "applied" <=> row[j] = "applied"
  BY <1>0 DEF Reset
<1>5. \/ Reset
      \/ \E p \in Procs : Recover(p) \/ Requeue(p) \/ ChooseFresh(p)
      \/ UNCHANGED row
  BY DEF Next, ScriptStep, Start, Crash, TakeLock, ChooseAll, EndCycle, disk, vars
<1>6. UNCHANGED <<saved, sent, arrived>>
  BY DEF Next, ScriptStep, Reset, Start, Crash, TakeLock, Recover, Requeue, ChooseFresh,
         ChooseAll, EndCycle, disk, vars
<1> QED BY <1>1, <1>2, <1>3, <1>4, <1>5, <1>6

\* Outside a job's step a run stays as it is or is lost with its process.
LEMMA RunsElsewhere ==
  ASSUME TypeOK, [Next]_vars, ~ \E p \in Procs, j \in Jobs : JobStep(p, j),
         NEW p \in Procs, NEW j \in Jobs
  PROVE  run'[p][j] \in {run[p][j], NoRun}
<1>0. run \in [Procs -> [Jobs -> Runs]]
  BY DEF TypeOK, Runs
<1>1. ASSUME NEW q \in Procs, Crash(q) PROVE run'[p][j] \in {run[p][j], NoRun}
  BY <1>0, <1>1 DEF Crash
<1>2. UNCHANGED run \/ \E q \in Procs : Crash(q)
  BY DEF Next, ScriptStep, Reset, Start, TakeLock, Recover, Requeue, ChooseFresh,
         ChooseAll, EndCycle, disk, vars
<1> QED BY <1>1, <1>2

\* Every step shows receipts only of what arrived.
LEMMA NextReceipts == TypeOK /\ Receipts /\ [Next]_vars => Receipts'
<1> SUFFICES ASSUME TypeOK, Receipts, [Next]_vars PROVE Receipts'
  OBVIOUS
<1>1. ASSUME NEW p \in Procs, NEW j \in Jobs, JobStep(p, j) PROVE Receipts'
  BY <1>1, JobReceipts
<1>2. CASE ~ \E p \in Procs, j \in Jobs : JobStep(p, j)
  <2>1. \A p \in Procs, j \in Jobs : run'[p][j] \in {run[p][j], NoRun}
    BY <1>2, RunsElsewhere
  <2> QED BY <1>2, <2>1, RowsElsewhere DEF Receipts, NoRun
<1> QED BY <1>1, <1>2

-----------------------------------------------------------------------------
(* What is about to run, or may still click, is not done. *)

\* A step of a job keeps Unsettled: without a race it is the only script that has
\* jobs at hand, and it begins only what has no saved page.
LEMMA JobUnsettled ==
  ASSUME TypeOK, Lone, AtHand, Unsettled, NEW p \in Procs, NEW j \in Jobs, JobStep(p, j)
  PROVE  Unsettled'
<1> SUFFICES ASSUME ~raced, NEW q \in Procs, NEW i \in Jobs
             PROVE  /\ i \in todo'[q] \/ run'[q][i].stage \in {"open", "timed out"} =>
                         row'[i] # "applied"
                    /\ run'[q][i].stage \in {"open", "timed out"} =>
                         saved'[SessionDir(i)] # "page"
  BY JobEffect DEF Unsettled, Stage
<1>0. /\ run \in [Procs -> [Jobs -> Runs]] /\ row \in [Jobs -> Statuses]
      /\ todo \in [Procs -> SUBSET Jobs]
  BY DEF TypeOK, Runs
<1>1. /\ \A o \in Procs, k \in Jobs : o # p \/ k # j => run'[o][k] = run[o][k]
      /\ \A o \in Procs : todo'[o] \subseteq todo[o]
      /\ \A k \in Jobs \ {j} : saved'[SessionDir(k)] = saved[SessionDir(k)]
      /\ saved'[SessionDir(j)] # saved[SessionDir(j)] => Stage(p, j) \in {"open", "timed out"}
      /\ \A k \in Jobs \ {j} : row'[k] = row[k]
      /\ At(p, "lanes")
      /\ j \notin todo'[p]
  <2>1. /\ \A o \in Procs, k \in Jobs : o # p \/ k # j => run'[o][k] = run[o][k]
        /\ \A o \in Procs : todo'[o] \subseteq todo[o]
        /\ \A k \in Jobs \ {j} : saved'[SessionDir(k)] = saved[SessionDir(k)]
        /\ saved'[SessionDir(j)] # saved[SessionDir(j)] =>
             Stage(p, j) \in {"open", "timed out"}
        /\ \A k \in Jobs \ {j} : row'[k] = row[k]
    BY JobEffect
  <2>2. \/ At(p, "lanes") /\ j \in todo[p] /\ j \notin todo'[p]
        \/ Stage(p, j) # "none" /\ UNCHANGED todo
    BY JobEffect
  <2>3. At(p, "lanes") /\ j \notin todo'[p]
    BY <2>2 DEF AtHand
  <2> QED BY <2>1, <2>3
<1>2. CASE i # j
  BY <1>1, <1>2 DEF Unsettled, Stage
<1>3. CASE i = j /\ q # p
  <2>1. ~At(q, "lanes")
    BY <1>1, <1>3 DEF Lone, Active, At
  <2>2. i \notin todo[q] /\ run[q][i].stage = "none"
    BY <2>1 DEF AtHand, Stage
  <2> QED BY <1>1, <1>3, <2>2
<1>4. CASE i = j /\ q = p
  <2>1. CASE Begin(p, j)
    <3>1. row[j] # "applied" /\ run[p][j].stage = "none"
      BY <2>1 DEF Begin, Unsettled, AtHand, Stage
    <3>2. UNCHANGED saved
      BY <2>1 DEF Begin
    <3>3. run'[p][j].stage \in {"open", "timed out"} =>
            UNCHANGED row /\ saved[SessionDir(j)] # "page"
      <4>1. CASE UNCHANGED run
        BY <3>1, <4>1
      <4>2. CASE /\ UNCHANGED row
                 /\ run' = [run EXCEPT ![p][j] =
                      IF Recorded(j)
                        THEN [NoRun EXCEPT !.stage = "over", !.result = "submitted"]
                        ELSE [NoRun EXCEPT !.stage = "open"]]
        BY <1>0, <4>2 DEF Recorded, NoRun
      <4> QED BY <2>1, <4>1, <4>2 DEF Begin
    <3> QED BY <1>1, <1>4, <3>1, <3>2, <3>3
  <2>2. CASE Click(p, j) \/ TimeOut(p, j)
    <3>1. UNCHANGED <<row, saved>> /\ run[p][j].stage \in {"open", "timed out"}
      BY <2>2 DEF Click, TimeOut, Stage, disk
    <3> QED BY <1>1, <1>4, <3>1 DEF Unsettled, Stage
  <2>3. CASE Finish(p, j) \/ Close(p, j) \/ Mark(p, j) \/ Note(p, j)
    <3>1. run'[p][j].stage \in {"over", "marked", "none"}
      <4>1. CASE Finish(p, j) \/ Close(p, j)
        <5>1. \E result, why : Over(p, j, result, why)
          BY <4>1 DEF Finish, Close
        <5> QED BY <1>0, <5>1 DEF Over, Runs
      <4>2. CASE Mark(p, j) \/ Note(p, j)
        BY <1>0, <4>2 DEF Mark, Note, NoRun, Runs
      <4> QED BY <2>3, <4>1, <4>2
    <3> QED BY <1>1, <1>4, <3>1
  <2> QED BY <2>1, <2>2, <2>3 DEF JobStep
<1> QED BY <1>2, <1>3, <1>4

\* Outside a job's step a chunk changes by being chosen from the queued rows, or
\* is dropped.
LEMMA ChunkElsewhere ==
  ASSUME TypeOK, [Next]_vars, ~ \E p \in Procs, j \in Jobs : JobStep(p, j),
         NEW p \in Procs, NEW j \in Jobs, j \in todo'[p]
  PROVE  j \in todo[p] \/ row'[j] = "queued"
<1>0. todo \in [Procs -> SUBSET Jobs] /\ row \in [Jobs -> Statuses]
  BY DEF TypeOK
<1>1. ASSUME NEW q \in Procs, Crash(q) PROVE j \in todo[p]
  BY <1>0, <1>1 DEF Crash
<1>2. ASSUME NEW q \in Procs, Release(q) PROVE j \in todo[p]
  BY <1>0, <1>2 DEF Release
<1>3. ASSUME NEW q \in Procs, ChooseFresh(q), ~Release(q)
      PROVE  j \in todo[p] \/ row'[j] = "queued"
  <2> DEFINE attempted == {i \in Queued : Attempted(q, i)}
  <2>1. /\ row' = [i \in Jobs |-> IF i \in attempted THEN "failed" ELSE row[i]]
        /\ \E chunk \in Chunks(Queued \ attempted) : todo' = [todo EXCEPT ![q] = chunk]
    BY <1>3 DEF ChooseFresh
  <2>2. \A chunk \in Chunks(Queued \ attempted) : chunk \subseteq Queued \ attempted
    BY DEF Chunks
  <2>3. j \in todo[p] \/ j \in Queued \ attempted
    BY <1>0, <2>1, <2>2
  <2> HIDE DEF attempted
  <2> QED BY <1>0, <2>1, <2>3 DEF Queued
<1>4. ASSUME NEW q \in Procs, ChooseAll(q) PROVE j \in todo[p] \/ row'[j] = "queued"
  BY <1>0, <1>4 DEF ChooseAll, Queued, disk
<1>5. \/ UNCHANGED todo
      \/ \E q \in Procs : Crash(q) \/ Release(q) \/ ChooseFresh(q) \/ ChooseAll(q)
  BY DEF Next, ScriptStep, Reset, Start, TakeLock, Recover, Requeue, EndCycle, disk, vars
<1> QED BY <1>1, <1>2, <1>3, <1>4, <1>5

\* Every step keeps what is about to run apart from what is done.
LEMMA NextUnsettled == IInv /\ [Next]_vars => Unsettled'
<1> SUFFICES ASSUME IInv, [Next]_vars PROVE Unsettled'
  OBVIOUS
<1>1. ASSUME NEW p \in Procs, NEW j \in Jobs, JobStep(p, j) PROVE Unsettled'
  BY <1>1, JobUnsettled DEF IInv
<1>2. CASE ~ \E p \in Procs, j \in Jobs : JobStep(p, j)
  <2>1. \A p \in Procs, j \in Jobs : run'[p][j] \in {run[p][j], NoRun}
    BY <1>2, RunsElsewhere DEF IInv
  <2>2. /\ \A j \in Jobs : row'[j] = "applied" => row[j] = "applied"
        /\ UNCHANGED saved
    BY <1>2, RowsElsewhere DEF IInv
  <2>3. \A p \in Procs, j \in Jobs : j \in todo'[p] => j \in todo[p] \/ row'[j] = "queued"
    BY <1>2, ChunkElsewhere DEF IInv
  <2>4. raced => raced'
    BY <1>2 DEF Next, ScriptStep, Reset, Start, Crash, TakeLock, Recover, Requeue,
                ChooseFresh, ChooseAll, EndCycle, disk, vars
  <2> SUFFICES ASSUME ~raced, NEW p \in Procs, NEW j \in Jobs
               PROVE  /\ j \in todo'[p] \/ run'[p][j].stage \in {"open", "timed out"} =>
                           row'[j] # "applied"
                      /\ run'[p][j].stage \in {"open", "timed out"} =>
                           saved'[SessionDir(j)] # "page"
    BY <2>4 DEF Unsettled, Stage
  <2>5. run'[p][j].stage \in {run[p][j].stage, "none"}
    BY <2>1 DEF NoRun
  <2>6. /\ j \in todo[p] \/ run[p][j].stage \in {"open", "timed out"} => row[j] # "applied"
        /\ run[p][j].stage \in {"open", "timed out"} => saved[SessionDir(j)] # "page"
    BY DEF IInv, Unsettled, Stage
  <2> QED BY <2>2, <2>3, <2>5, <2>6
<1> QED BY <1>1, <1>2

-----------------------------------------------------------------------------
(* The theorems. *)

\* The invariant holds initially.
LEMMA InitInv == Init => IInv
<1> SUFFICES ASSUME Init PROVE IInv
  OBVIOUS
<1>1. TypeOK
  BY InitTypes
<1>2. Lone /\ AtHand
  BY DEF Init, Lone, AtHand, Active, At, Stage, NoRun
<1>3. Receipts /\ Unsettled
  BY Directories DEF Init, Receipts, Unsettled, Stage, NoRun
<1> QED BY <1>1, <1>2, <1>3 DEF IInv

\* The invariant is inductive.
LEMMA NextInv == IInv /\ [Next]_vars => IInv'
BY NextTypes, NextLone, NextAtHand, NextReceipts, NextUnsettled DEF IInv

\* The invariant holds in every state the scripts reach.
THEOREM Invariance == Spec => []IInv
BY InitInv, NextInv, PTL DEF Spec

\* At most one script is past the lock unless two read worker.lock before either
\* wrote it: a dead holder is recognised, and a release never frees the lock of
\* another (acquireLock, releaseLock).
THEOREM OneSupervisor == Spec => []SoleSupervisor
<1>1. IInv => SoleSupervisor
  BY DEF IInv, Lone, SoleSupervisor
<1> QED BY <1>1, Invariance, PTL

\* A row says applied only of an application that arrived, whatever crashes, times
\* out, races or is recovered (markApplied, recoverPowerOffAndNetOffJobs).
THEOREM AppliedArrived == Spec => []AppliedHasArrived
<1>1. IInv => AppliedHasArrived
  BY DEF IInv, Receipts, AppliedHasArrived
<1> QED BY <1>1, Invariance, PTL

\* The audit of the marathon and its recovery never find a checkpoint: the runner
\* saves under the hash of the requisition, they look under the queue id.
THEOREM AuditFindsNothing == Spec => [](\A j \in Jobs : ~Audited(j))
<1>1. IInv => \A j \in Jobs : ~Audited(j)
  BY DEF IInv, Receipts, Audited
<1> QED BY <1>1, Invariance, PTL

\* No submit click goes to a job whose row is applied or whose confirmation page was
\* saved, across any number of crashes, restarts, resets and requeues.
THEOREM NoResendAfterReceipt == Spec => ReceiptStopsResends
<1> DEFINE A == ~raced => \A j \in Jobs :
              sent'[j] # sent[j] => row[j] # "applied" /\ saved[SessionDir(j)] # "page"
<1>1. IInv /\ [Next]_vars => [A]_vars
  <2> SUFFICES ASSUME IInv, [Next]_vars, ~raced, NEW j \in Jobs, sent'[j] # sent[j]
               PROVE  row[j] # "applied" /\ saved[SessionDir(j)] # "page"
    OBVIOUS
  <2>1. PICK p \in Procs, i \in Jobs : JobStep(p, i)
    BY RowsElsewhere DEF IInv
  <2>2. Click(p, i)
    BY <2>1 DEF JobStep, Begin, Finish, TimeOut, Close, Mark, Note
  <2>3. i = j
    <3>1. sent \in [Jobs -> 0..MaxSends]
      BY DEF IInv, TypeOK
    <3> QED BY <2>2, <3>1 DEF Click
  <2> QED BY <2>2, <2>3 DEF Click, IInv, Unsettled
<1> QED BY <1>1, Invariance, PTL DEF Spec, ReceiptStopsResends

\* No step of any script takes an applied row back: not the repair script, not the
\* recovery, not a run that ends late.
THEOREM AppliedStays ==
  Spec => [][\A j \in Jobs : row[j] = "applied" => row'[j] = "applied"]_vars
<1> DEFINE A == \A j \in Jobs : row[j] = "applied" => row'[j] = "applied"
<1>1. IInv /\ [Next]_vars => [A]_vars
  <2> SUFFICES ASSUME IInv, [Next]_vars, NEW j \in Jobs, row[j] = "applied"
               PROVE  row'[j] = "applied"
    OBVIOUS
  <2>0. row \in [Jobs -> Statuses]
    BY DEF IInv, TypeOK
  <2>1. CASE \E p \in Procs, i \in Jobs : JobStep(p, i)
    <3>1. PICK p \in Procs, i \in Jobs : JobStep(p, i)
      BY <2>1
    <3>2. CASE Begin(p, i)
      BY <2>0, <3>2 DEF Begin
    <3>3. CASE Mark(p, i)
      BY <2>0, <3>3 DEF Mark
    <3>4. CASE UNCHANGED row
      BY <3>4
    <3> QED BY <3>1, <3>2, <3>3, <3>4 DEF JobStep, Click, Finish, TimeOut, Close, Note, disk
  <2>2. CASE ~ \E p \in Procs, i \in Jobs : JobStep(p, i)
    BY <2>2, RowsElsewhere DEF IInv
  <2> QED BY <2>1, <2>2
<1> QED BY <1>1, Invariance, PTL DEF Spec
=============================================================================
