------------------------ MODULE BoardRotation_proofs ------------------------
(***************************************************************************)
(* What the rotation of the boards promises for every roster, every slot    *)
(* count and every retention: nothing is given up without evidence, what a  *)
(* run did not poll survives it, and while polls succeed every cold board   *)
(* has its turn.                                                            *)
(***************************************************************************)
EXTENDS BoardRotation, FiniteSetTheorems, TLAPS

-----------------------------------------------------------------------------
(* The inductive invariant. *)

\* A failure streak began after the last answer.
Ordered(s) == s.failing # Never => s.polled < s.failing

UpTo(s, time) == s.polled <= time /\ s.failing <= time
Before(s, time) == s.polled < time /\ s.failing < time

\* The run under way has not saved its cache yet.
Unsaved == job.step \in {"restored", "hunted"}

\* What is on file is of the past: of an earlier run while one is under way.
Dated ==
  \A b \in Boards :
    /\ Ordered(cache[b]) /\ UpTo(cache[b], now) /\ answered[b] <= now
    /\ cache[b].failing # Never => answered[b] < cache[b].failing
    /\ Ordered(job.state[b]) /\ UpTo(job.state[b], now)
    /\ Unsaved => Before(cache[b], now) /\ answered[b] < now /\ now \in Times

\* The run's copies, before and after its polls.
Copies ==
  /\ job.step = "idle" => job = Idle
  /\ job.base \subseteq listed
  /\ job.failed \subseteq job.polled /\ job.dropped \subseteq job.failed
  /\ job.base \ job.rows \subseteq job.dropped
  /\ job.step = "restored" =>
       /\ job.state \in {cache, NoState} /\ job.rows = job.base
       /\ job.hot \subseteq job.base /\ job.polled = {}
  /\ job.step = "hunted" => \A b \in Boards :
       /\ b \notin job.polled => job.state[b] \in {cache[b], Fresh}
       /\ job.state[b].failing # Never =>
            b \notin job.polled \ job.failed /\ answered[b] < job.state[b].failing

\* What a run gives up has failed for long.
Evidence ==
  \A b \in job.dropped :
    /\ answered[b] # Never => now - answered[b] > DropAfter
    /\ answered[b] # Never /\ b \in job.walled => now - answered[b] > BlockHold

\* Not more runs are counted than there were.
Counted ==
  /\ quiet <= now /\ \A b \in Boards : waited[b] <= now
  /\ Unsaved => quiet < now /\ \A b \in Boards : waited[b] < now

Least(m, n) == IF m < n THEN m ELSE n

\* The cold boards polled after b.
Later(cold, state, b) == {c \in cold : state[c].polled > state[b].polled}

\* Each run that left b out in the quiet time polled as many boards as there are
\* slots, and none of them twice before b.
Sweeping ==
  \A b \in ColdListed :
    Least(waited[b], quiet) * ColdSlots <= Cardinality(Later(ColdListed, cache, b))

\* What state a run without failures selects its boards from: the cache, or none,
\* when counting has begun anew.
Selected(state) ==
  /\ state \in {cache, NoState} /\ (state = cache \/ quiet = 0)
  /\ job.polled \in Selection(listed, hot, state)
  /\ job.state = [b \in Boards |-> IF b \in job.polled THEN Answered(state[b]) ELSE state[b]]

\* A run whose roster has changed under it is not counted, and counting has begun
\* anew.
Rotating ==
  /\ Unsaved /\ job.base # listed => quiet = 0
  /\ job.base = listed =>
       /\ job.step = "restored" => job.hot = hot /\ (job.state = cache \/ quiet = 0)
       /\ job.step = "hunted" /\ job.polled = {} => job.state = cache \/ quiet = 0
       /\ job.step = "hunted" /\ job.polled # {} /\ job.failed = {} =>
            \E state \in {cache, NoState} : Selected(state)

IInv ==
  /\ TypeOK /\ Dated /\ Copies /\ Evidence /\ NoPlatformWiped
  /\ Counted /\ Sweeping /\ Rotating

-----------------------------------------------------------------------------
(* One poll. *)

\* A board that is reported to have met a wall is held as one that has.
LEMMA WallHolds ==
  ASSUME NEW ats, NEW v \in Verdicts(ats), v.wall
  PROVE  v.held
<1>1. PICK e \in Errors(ats) : v = [wall |-> BlockKind(e), held |-> Blocked(e)]
  BY DEF Verdicts
<1>2. v.wall = BlockKind(e) /\ v.held = Blocked(e)
  BY <1>1
<1>3. BlockKind(e)
  BY <1>2
<1> QED BY <1>2, <1>3 DEF Blocked

\* A failed poll keeps the last answer and begins or continues the streak.
LEMMA FailedStatus ==
  ASSUME now \in Times, NEW s \in Statuses, Ordered(s), Before(s, now)
  PROVE  /\ Failed(s) \in Statuses /\ Ordered(Failed(s)) /\ UpTo(Failed(s), now)
         /\ Failed(s).failing = IF s.failing = Never THEN now ELSE s.failing
         /\ FailingFor(s) = now - (IF s.failing = Never THEN now ELSE s.failing)
<1>1. s = [polled |-> s.polled, failing |-> s.failing] /\ s.polled \in Stamps /\ s.failing \in Stamps
  BY DEF Statuses
<1>2. Failed(s) = [polled |-> s.polled, failing |-> IF s.failing = Never THEN now ELSE s.failing]
  BY <1>1 DEF Failed
<1>3. now \in Nat /\ now # Never
  BY DEF Times, Never
<1>4. s.polled \in Nat /\ s.failing \in Nat
  BY <1>1, BoundsAssumption DEF Stamps, Times, Never
<1> QED BY <1>1, <1>2, <1>3, <1>4
        DEF Statuses, Stamps, Ordered, UpTo, Before, FailingFor

\* An answer ends the streak.
LEMMA AnsweredStatus ==
  ASSUME now \in Times, NEW s
  PROVE  /\ Answered(s) = [polled |-> now, failing |-> Never] /\ Answered(s) \in Statuses
         /\ Ordered(Answered(s)) /\ UpTo(Answered(s), now)
<1>1. now \in Nat /\ now >= 1
  BY DEF Times
<1> QED BY <1>1 DEF Answered, Statuses, Stamps, Ordered, UpTo, Never

\* No state is on file: never polled, not failing.
LEMMA FreshStatus ==
  ASSUME now \in Stamps
  PROVE  /\ Fresh \in Statuses /\ NoState \in [Boards -> Statuses]
         /\ Fresh.failing = Never /\ Fresh.polled = Never
         /\ Ordered(Fresh) /\ UpTo(Fresh, now) /\ (now \in Times => Before(Fresh, now))
<1>1. now \in Nat
  BY BoundsAssumption DEF Stamps, Times, Never
<1> QED BY <1>1 DEF Fresh, NoState, Statuses, Stamps, Ordered, UpTo, Before, Never, Times

-----------------------------------------------------------------------------
(* The polls of a run. *)

\* The selection is of the rows, and every hot board is in it.
LEMMA SelectionType ==
  ASSUME NEW rows, NEW hots \in SUBSET rows, NEW state, NEW polled \in Selection(rows, hots, state)
  PROVE  hots \subseteq polled /\ polled \subseteq rows
BY DEF Selection

\* The outcome of the polls, as Hunt has it.
Outcome(polled, failed, said, india, green) ==
  LET outage == Outage(polled, failed)
      dropped == {b \in failed : Evicted(b, job.state[b], outage, said[b].held)}
      overdue == {b \in failed : FailingFor(job.state[b]) >= DropAfter}
  IN /\ \A b \in failed : said[b] \in Verdicts(AtsOf[b])
     /\ job' = [job EXCEPT
          !.step = "hunted",
          !.rows = Rows(@, polled, dropped),
          !.hot = @ \cup india,
          !.state = [b \in Boards |->
             CASE b \in dropped -> Fresh
               [] b \in failed \ dropped -> Failed(job.state[b])
               [] b \in polled \ failed -> Answered(job.state[b])
               [] OTHER -> job.state[b]],
          !.polled = polled, !.failed = failed, !.dropped = dropped,
          !.walled = {b \in overdue : said[b].wall}, !.green = green]

\* What Hunt does to the job, field by field.
LEMMA HuntEffect ==
  ASSUME TypeOK, Hunt
  PROVE  /\ job.step = "restored" /\ job'.step = "hunted"
         /\ job'.base = job.base /\ job'.rows = job.rows \ job'.dropped
         /\ job'.polled \in Selection(job.rows, job.hot, job.state)
         /\ job'.failed \subseteq job'.polled /\ job'.dropped \subseteq job'.failed
         /\ job'.hot \subseteq job.hot \cup job'.polled
         /\ job'.walled \subseteq job'.failed /\ job'.green \in BOOLEAN
         /\ job'.state = [b \in Boards |->
              IF b \in job'.dropped THEN Fresh
              ELSE IF b \in job'.failed THEN Failed(job.state[b])
              ELSE IF b \in job'.polled THEN Answered(job.state[b]) ELSE job.state[b]]
         /\ \A b \in job'.dropped :
              /\ FailingFor(job.state[b]) >= DropAfter
              /\ AtsOf[b] \notin Outage(job'.polled, job'.failed)
              /\ b \in job'.walled => ~(FailingFor(job.state[b]) < BlockHold)
         /\ DOMAIN job' = DOMAIN job
         /\ job' \in [step : {"hunted"}, base : {job'.base}, rows : {job'.rows},
                      hot : {job'.hot}, state : {job'.state}, polled : {job'.polled},
                      failed : {job'.failed}, walled : {job'.walled},
                      dropped : {job'.dropped}, green : {job'.green}]
         /\ UNCHANGED <<now, listed, hot, cache, answered, waited, quiet>>
<1>1. PICK polled \in Selection(job.rows, job.hot, job.state) :
        \E failed \in SUBSET polled :
        \E said \in [failed -> [wall : BOOLEAN, held : BOOLEAN]] :
        \E india \in SUBSET (polled \ failed), green \in BOOLEAN :
          Outcome(polled, failed, said, india, green)
  BY DEF Hunt, Outcome
<1>2. PICK failed \in SUBSET polled :
        \E said \in [failed -> [wall : BOOLEAN, held : BOOLEAN]] :
        \E india \in SUBSET (polled \ failed), green \in BOOLEAN :
          Outcome(polled, failed, said, india, green)
  BY <1>1
<1>3. PICK said \in [failed -> [wall : BOOLEAN, held : BOOLEAN]] :
        \E india \in SUBSET (polled \ failed), green \in BOOLEAN :
          Outcome(polled, failed, said, india, green)
  BY <1>2
<1>4. PICK india \in SUBSET (polled \ failed), green \in BOOLEAN :
        Outcome(polled, failed, said, india, green)
  BY <1>3
<1> DEFINE outage == Outage(polled, failed)
           dropped == {b \in failed : Evicted(b, job.state[b], outage, said[b].held)}
           overdue == {b \in failed : FailingFor(job.state[b]) >= DropAfter}
           walled == {b \in overdue : said[b].wall}
           state == [b \in Boards |->
                   CASE b \in dropped -> Fresh
                     [] b \in failed \ dropped -> Failed(job.state[b])
                     [] b \in polled \ failed -> Answered(job.state[b])
                     [] OTHER -> job.state[b]]
<1>5. \A b \in dropped :
        /\ FailingFor(job.state[b]) >= DropAfter
        /\ AtsOf[b] \notin outage
        /\ b \in walled => ~(FailingFor(job.state[b]) < BlockHold)
  <2> SUFFICES ASSUME NEW b \in dropped
               PROVE  /\ FailingFor(job.state[b]) >= DropAfter
                      /\ AtsOf[b] \notin outage
                      /\ b \in walled => ~(FailingFor(job.state[b]) < BlockHold)
    OBVIOUS
  <2>1. Evicted(b, job.state[b], outage, said[b].held)
    OBVIOUS
  <2>2. ASSUME b \in walled PROVE said[b].held
    <3>1. said[b] \in Verdicts(AtsOf[b]) /\ said[b].wall
      BY <1>4, <2>2 DEF Outcome
    <3> QED BY <3>1, WallHolds
  <2> QED BY <2>1, <2>2 DEF Evicted
<1>6. state = [b \in Boards |->
        IF b \in dropped THEN Fresh
        ELSE IF b \in failed THEN Failed(job.state[b])
        ELSE IF b \in polled THEN Answered(job.state[b]) ELSE job.state[b]]
  <2>1. dropped \subseteq failed /\ failed \subseteq polled
    OBVIOUS
  <2> HIDE DEF dropped
  <2> QED BY <2>1
<1>7. dropped \subseteq failed /\ walled \subseteq failed
  OBVIOUS
<1>8. job' = [job EXCEPT
         !.step = "hunted", !.rows = @ \ dropped, !.hot = @ \cup india, !.state = state,
         !.polled = polled, !.failed = failed, !.dropped = dropped,
         !.walled = walled, !.green = green]
  BY <1>4 DEF Outcome, Rows
<1>9. job.step = "restored" /\ UNCHANGED <<now, listed, hot, cache, answered, waited, quiet>>
  BY DEF Hunt
<1> HIDE DEF state, dropped, walled, outage
<1>10. /\ job'.step = "hunted" /\ job'.base = job.base /\ job'.rows = job.rows \ dropped
      /\ job'.hot = job.hot \cup india /\ job'.state = state /\ job'.polled = polled
      /\ job'.failed = failed /\ job'.dropped = dropped /\ job'.walled = walled
      /\ job'.green = green /\ DOMAIN job' = DOMAIN job
  BY <1>8 DEF TypeOK
<1>11. job' \in [step : {"hunted"}, base : {job'.base}, rows : {job'.rows},
                hot : {job'.hot}, state : {job'.state}, polled : {job'.polled},
                failed : {job'.failed}, walled : {job'.walled},
                dropped : {job'.dropped}, green : {job'.green}]
  BY <1>8, <1>10 DEF TypeOK
<1> QED BY <1>1, <1>5, <1>6, <1>7, <1>9, <1>10, <1>11 DEF outage

\* The numbers among the variables.
LEMMA Instants ==
  ASSUME TypeOK
  PROVE  /\ now \in Nat /\ now <= MaxTime /\ MaxTime \in Nat /\ Never = 0
         /\ quiet \in Nat /\ DropAfter \in Nat /\ BlockHold \in Nat /\ DropAfter >= 1
         /\ \A t \in Stamps : t \in Nat /\ t <= MaxTime
         /\ \A b \in Boards :
              /\ cache[b].polled \in Nat /\ cache[b].failing \in Nat
              /\ job.state[b].polled \in Nat /\ job.state[b].failing \in Nat
              /\ answered[b] \in Nat /\ waited[b] \in Nat
<1>1. \A t \in Stamps : t \in Nat /\ t <= MaxTime
  BY BoundsAssumption DEF Stamps, Times, Never
<1>2. \A b \in Boards : cache[b] \in Statuses /\ job.state[b] \in Statuses /\ answered[b] \in Stamps
  BY DEF TypeOK
<1>3. \A b \in Boards : waited[b] \in 0 .. MaxTime
  BY DEF TypeOK
<1>4. quiet \in 0 .. MaxTime /\ now \in Stamps
  BY DEF TypeOK
<1> QED BY <1>1, <1>2, <1>3, <1>4, BoundsAssumption DEF Statuses, Never

\* What a run has restored is older than the run.
LEMMA RestoredState ==
  ASSUME TypeOK, Dated, Copies, job.step = "restored", NEW b \in Boards
  PROVE  /\ now \in Times /\ job.state[b] \in Statuses
         /\ Ordered(job.state[b]) /\ Before(job.state[b], now)
         /\ job.state[b].failing # Never => answered[b] < job.state[b].failing
         /\ answered[b] < now
<1>1. now \in Times /\ Before(cache[b], now) /\ answered[b] < now
  BY DEF Dated, Unsaved
<1>2. job.state[b] \in {cache[b], Fresh}
  BY DEF Copies, NoState
<1>3. now \in Stamps /\ job.state[b] \in Statuses
  BY DEF TypeOK
<1> QED BY <1>1, <1>2, <1>3, FreshStatus DEF Dated

\* What a run makes of it is of this run at the latest, and a streak it leaves began
\* after the last answer on file.
LEMMA HuntState ==
  ASSUME TypeOK, Dated, Copies, Hunt, NEW b \in Boards
  PROVE  /\ job'.state[b] \in Statuses /\ Ordered(job'.state[b]) /\ UpTo(job'.state[b], now)
         /\ b \notin job'.polled => job'.state[b] \in {cache[b], Fresh}
         /\ job'.state[b].failing # Never =>
              b \notin job'.polled \ job'.failed /\ answered[b] < job'.state[b].failing
<1> DEFINE s == job.state[b]
<1>1. /\ job'.state[b] = IF b \in job'.dropped THEN Fresh
                         ELSE IF b \in job'.failed THEN Failed(s)
                         ELSE IF b \in job'.polled THEN Answered(s) ELSE s
      /\ job'.failed \subseteq job'.polled /\ job'.dropped \subseteq job'.failed
      /\ job.step = "restored"
  BY HuntEffect
<1>2. /\ now \in Times /\ s \in Statuses /\ Ordered(s) /\ Before(s, now)
      /\ s.failing # Never => answered[b] < s.failing
      /\ answered[b] < now
  BY <1>1, RestoredState
<1>3. now \in Stamps /\ s \in {cache[b], Fresh}
  BY <1>1 DEF TypeOK, Copies, NoState
<1>4. UpTo(s, now)
  BY <1>2, Instants DEF Before, UpTo, Statuses
<1> HIDE DEF s
<1>5. CASE b \in job'.dropped
  BY <1>1, <1>3, <1>5, FreshStatus
<1>6. CASE b \in job'.failed \ job'.dropped
  BY <1>1, <1>2, <1>6, FailedStatus
<1>7. CASE b \in job'.polled \ job'.failed
  <2>1. job'.state[b] = Answered(s)
    BY <1>1, <1>7
  <2> QED BY <1>2, <1>7, <2>1, AnsweredStatus
<1>8. CASE b \notin job'.polled
  BY <1>1, <1>2, <1>3, <1>4, <1>8
<1> QED BY <1>1, <1>5, <1>6, <1>7, <1>8

-----------------------------------------------------------------------------
(* Every variable keeps its shape. *)

Jobs == [step : {"idle", "restored", "hunted", "saved"}, base : SUBSET Boards,
         rows : SUBSET Boards, hot : SUBSET Boards, state : [Boards -> Statuses],
         polled : SUBSET Boards, failed : SUBSET Boards, walled : SUBSET Boards,
         dropped : SUBSET Boards, green : BOOLEAN]

\* No run is one.
LEMMA IdleType == Idle \in Jobs
<1>1. NoState \in [Boards -> Statuses]
  BY DEF NoState, Fresh, Statuses, Stamps
<1> HIDE DEF NoState
<1> QED BY <1>1 DEF Idle, Jobs

\* Counting anew.
LEMMA CountType ==
  ASSUME StartCounting
  PROVE  waited' \in [Boards -> 0 .. MaxTime] /\ quiet' \in 0 .. MaxTime
BY BoundsAssumption DEF StartCounting

\* Every step keeps the types.
LEMMA NextTypes == TypeOK /\ Dated /\ Copies /\ Counted /\ [Next]_vars => TypeOK'
<1> SUFFICES ASSUME TypeOK, Dated, Copies, Counted, [Next]_vars PROVE TypeOK'
  OBVIOUS
<1>0. job \in Jobs
  BY DEF TypeOK, Jobs
<1>1. ASSUME NEW b \in Boards, Import(b) PROVE TypeOK'
  BY <1>1, CountType DEF Import, TypeOK
<1>2. CASE Checkout
  <2>1. now' \in Stamps
    BY <1>2 DEF Checkout, Stamps
  <2>2. PICK state \in {cache, NoState} :
          /\ job' = [Idle EXCEPT !.step = "restored", !.base = listed, !.rows = listed,
                                 !.hot = hot, !.state = state]
          /\ IF state = cache THEN UNCHANGED <<waited, quiet>> ELSE StartCounting
    BY <1>2 DEF Checkout
  <2>3. state \in [Boards -> Statuses]
    BY FreshStatus DEF TypeOK
  <2>4. job' \in Jobs
    BY <2>2, <2>3, IdleType DEF Jobs, TypeOK
  <2>5. waited' \in [Boards -> 0 .. MaxTime] /\ quiet' \in 0 .. MaxTime
    BY <2>2, CountType DEF TypeOK
  <2> QED BY <1>2, <2>1, <2>4, <2>5 DEF Checkout, TypeOK, Jobs
<1>3. CASE Hunt
  <2>1. job.hot \subseteq job.rows /\ job.rows \subseteq Boards
    BY <1>0, <1>3, HuntEffect DEF Copies, Jobs
  <2>2. job'.polled \subseteq Boards
    BY <1>3, <2>1, HuntEffect, SelectionType
  <2>3. job'.state \in [Boards -> Statuses]
    BY <1>3, HuntEffect, HuntState
  <2>4. job' \in Jobs
    BY <1>0, <1>3, <2>2, <2>3, HuntEffect DEF Jobs
  <2> QED BY <1>3, <2>4, HuntEffect DEF TypeOK, Jobs
<1>4. CASE HuntFails
  <2>1. job' \in Jobs
    BY <1>0, <1>4 DEF HuntFails, Jobs
  <2> QED BY <1>4, <2>1 DEF HuntFails, TypeOK, Jobs
<1>5. CASE SaveCache
  <2>1. job' \in Jobs
    BY <1>0, <1>5, FreshStatus DEF SaveCache, Jobs, TypeOK
  <2>2. cache' \in [Boards -> Statuses]
    BY <1>5 DEF SaveCache, TypeOK
  <2>3. \A b \in Boards : cache'[b].failing # Never => cache'[b].polled < cache'[b].failing
    BY <1>5 DEF SaveCache, Dated, Ordered
  <2>4. answered' \in [Boards -> Stamps]
    BY <1>5 DEF SaveCache, TypeOK
  <2>5. waited' \in [Boards -> 0 .. MaxTime] /\ quiet' \in 0 .. MaxTime
    <3>1. quiet + 1 \in 0 .. MaxTime /\ \A b \in Boards : waited[b] + 1 \in 0 .. MaxTime
      BY <1>5, Instants DEF SaveCache, Counted, Unsaved
    <3>2. 0 \in 0 .. MaxTime
      BY BoundsAssumption
    <3> QED BY <1>5, <3>1, <3>2 DEF SaveCache, TypeOK
  <2> QED BY <1>5, <2>1, <2>2, <2>3, <2>4, <2>5 DEF SaveCache, TypeOK, Jobs
<1>6. CASE Commit
  <2>1. waited' \in [Boards -> 0 .. MaxTime] /\ quiet' \in 0 .. MaxTime
    BY <1>6, CountType DEF Commit, TypeOK
  <2>2. listed' \subseteq Boards /\ hot' \subseteq listed'
    BY <1>6 DEF Commit, TypeOK
  <2> QED BY <1>6, <2>1, <2>2, IdleType DEF Commit, TypeOK, Jobs
<1>7. CASE GiveUp \/ RunnerLost
  BY <1>7, IdleType DEF GiveUp, RunnerLost, TypeOK, Jobs
<1>8. CASE UNCHANGED vars
  BY <1>8 DEF vars, TypeOK
<1> QED BY <1>1, <1>2, <1>3, <1>4, <1>5, <1>6, <1>7, <1>8 DEF Next

-----------------------------------------------------------------------------
(* What is on file is of the past. *)

\* A later instant is no less late.
LEMMA LaterInstant ==
  ASSUME NEW s, s.polled \in Nat, s.failing \in Nat, NEW t \in Nat, NEW u \in Nat, t < u,
         UpTo(s, t)
  PROVE  UpTo(s, u) /\ Before(s, u)
BY DEF UpTo, Before

\* Every step keeps what is on file in the past.
LEMMA NextDated == TypeOK /\ Dated /\ Copies /\ [Next]_vars => Dated'
<1> SUFFICES ASSUME TypeOK, Dated, Copies, [Next]_vars PROVE Dated'
  OBVIOUS
<1>0. job \in Jobs /\ now \in Stamps
  BY DEF TypeOK, Jobs
<1>1. CASE UNCHANGED <<now, cache, answered>> /\ job' = Idle
  <2>1. /\ ~Unsaved'
        /\ \A b \in Boards : job'.state[b] = Fresh
    BY <1>1 DEF Unsaved, Idle, NoState
  <2> QED BY <1>0, <1>1, <2>1, FreshStatus DEF Dated
<1>2. CASE UNCHANGED <<now, cache, answered, job>>
  BY <1>2 DEF Dated, Unsaved
<1>3. CASE Checkout
  <2>1. now' \in Times /\ now' \in Nat /\ now < now' /\ UNCHANGED <<cache, answered>>
    BY <1>3, Instants DEF Checkout, Times
  <2>2. job'.state \in {cache, NoState}
    BY <1>3 DEF Checkout, Idle
  <2> SUFFICES ASSUME NEW b \in Boards
               PROVE  /\ Ordered(cache[b]) /\ UpTo(cache[b], now') /\ answered[b] <= now'
                      /\ cache[b].failing # Never => answered[b] < cache[b].failing
                      /\ Ordered(job'.state[b]) /\ UpTo(job'.state[b], now')
                      /\ Before(cache[b], now') /\ answered[b] < now'
    BY <2>1 DEF Dated
  <2>3. /\ Ordered(cache[b]) /\ UpTo(cache[b], now) /\ answered[b] <= now
        /\ cache[b].failing # Never => answered[b] < cache[b].failing
    BY DEF Dated
  <2>4. UpTo(cache[b], now') /\ Before(cache[b], now') /\ answered[b] < now'
    BY <2>1, <2>3, Instants, LaterInstant
  <2>5. Ordered(Fresh) /\ UpTo(Fresh, now')
    BY <2>1 DEF Fresh, Ordered, UpTo, Never
  <2>6. job'.state[b] \in {cache[b], Fresh}
    BY <2>2 DEF NoState
  <2> QED BY <2>1, <2>3, <2>4, <2>5, <2>6, Instants
<1>4. CASE Hunt
  <2>1. UNCHANGED <<now, cache, answered>> /\ Unsaved
    BY <1>4, HuntEffect DEF Unsaved
  <2>2. \A b \in Boards : Ordered(job'.state[b]) /\ UpTo(job'.state[b], now)
    BY <1>4, HuntState
  <2> QED BY <2>1, <2>2 DEF Dated
<1>5. CASE HuntFails
  <2>1. UNCHANGED <<now, cache, answered>> /\ Unsaved /\ job'.state = job.state
    BY <1>0, <1>5 DEF HuntFails, Unsaved, Jobs
  <2> QED BY <2>1 DEF Dated
<1>6. CASE SaveCache
  <2>1. /\ UNCHANGED now /\ cache' = job.state /\ ~Unsaved' /\ job'.state = NoState
        /\ job.step = "hunted"
    BY <1>0, <1>6 DEF SaveCache, Unsaved, Jobs
  <2> SUFFICES ASSUME NEW b \in Boards
               PROVE  /\ Ordered(cache'[b]) /\ UpTo(cache'[b], now) /\ answered'[b] <= now
                      /\ cache'[b].failing # Never => answered'[b] < cache'[b].failing
                      /\ Ordered(job'.state[b]) /\ UpTo(job'.state[b], now)
    BY <2>1 DEF Dated
  <2>2. Ordered(job.state[b]) /\ UpTo(job.state[b], now) /\ answered[b] <= now
    BY DEF Dated
  <2>3. job'.state[b] = Fresh
    BY <2>1 DEF NoState
  <2>4. job.state[b].failing # Never =>
          b \notin job.polled \ job.failed /\ answered[b] < job.state[b].failing
    BY <2>1 DEF Copies
  <2>5. answered'[b] = IF b \in job.polled \ job.failed THEN now ELSE answered[b]
    BY <1>6 DEF SaveCache
  <2> QED BY <1>0, <2>1, <2>2, <2>3, <2>4, <2>5, Instants, FreshStatus
<1>7. ASSUME NEW b \in Boards, Import(b) PROVE Dated'
  BY <1>2, <1>7 DEF Import
<1>8. CASE Commit \/ GiveUp \/ RunnerLost
  BY <1>1, <1>8 DEF Commit, GiveUp, RunnerLost
<1>9. CASE UNCHANGED vars
  BY <1>2, <1>9 DEF vars
<1> QED BY <1>3, <1>4, <1>5, <1>6, <1>7, <1>8, <1>9 DEF Next

-----------------------------------------------------------------------------
(* The run's copies. *)

\* No run has no copies.
LEMMA IdleCopies ==
  ASSUME job' = Idle
  PROVE  Copies' /\ Evidence' /\ NoPlatformWiped'
BY DEF Copies, Evidence, NoPlatformWiped, Idle

\* Every step keeps the copies what they are.
LEMMA NextCopies == TypeOK /\ Dated /\ Copies /\ [Next]_vars => Copies'
<1> SUFFICES ASSUME TypeOK, Dated, Copies, [Next]_vars PROVE Copies'
  OBVIOUS
<1>0. job \in Jobs
  BY DEF TypeOK, Jobs
<1>1. ASSUME NEW b \in Boards, Import(b) PROVE Copies'
  BY <1>1 DEF Import, Copies
<1>2. CASE Checkout
  <2>1. PICK state \in {cache, NoState} :
          job' = [Idle EXCEPT !.step = "restored", !.base = listed, !.rows = listed,
                              !.hot = hot, !.state = state]
    BY <1>2 DEF Checkout
  <2>2. /\ job'.step = "restored" /\ job'.base = listed /\ job'.rows = listed
        /\ job'.hot = hot /\ job'.state = state /\ job'.polled = {} /\ job'.failed = {}
        /\ job'.dropped = {}
    BY <2>1 DEF Idle
  <2> QED BY <1>2, <2>2 DEF Checkout, Copies, TypeOK
<1>3. CASE Hunt
  <2>1. /\ job'.step = "hunted" /\ job'.base = job.base /\ job'.rows = job.rows \ job'.dropped
        /\ job'.failed \subseteq job'.polled /\ job'.dropped \subseteq job'.failed
        /\ job.step = "restored" /\ UNCHANGED <<listed, cache, answered>>
    BY <1>3, HuntEffect
  <2>2. job.rows = job.base /\ job.base \subseteq listed
    BY <2>1 DEF Copies
  <2>3. \A b \in Boards :
          /\ b \notin job'.polled => job'.state[b] \in {cache[b], Fresh}
          /\ job'.state[b].failing # Never =>
               b \notin job'.polled \ job'.failed /\ answered[b] < job'.state[b].failing
    BY <1>3, HuntState
  <2> QED BY <2>1, <2>2, <2>3 DEF Copies
<1>4. CASE HuntFails
  <2>1. /\ job'.step = "hunted" /\ job'.base = job.base /\ job'.rows = job.rows
        /\ job'.polled = job.polled /\ job'.failed = job.failed /\ job'.dropped = job.dropped
        /\ job'.state = job.state /\ job.step = "restored"
        /\ UNCHANGED <<listed, cache, answered>>
    BY <1>0, <1>4 DEF HuntFails, Jobs
  <2>2. \A b \in Boards :
          /\ job.state[b] \in {cache[b], Fresh}
          /\ job.state[b].failing # Never => answered[b] < job.state[b].failing
    BY <2>1, RestoredState DEF Copies, NoState
  <2>3. job.polled = {}
    BY <2>1 DEF Copies
  <2> QED BY <2>1, <2>2, <2>3 DEF Copies
<1>5. CASE SaveCache
  <2>1. /\ job'.step = "saved" /\ job'.base = job.base /\ job'.rows = job.rows
        /\ job'.failed = job.failed /\ job'.polled = job.polled /\ job'.dropped = job.dropped
        /\ UNCHANGED listed
    BY <1>0, <1>5 DEF SaveCache, Jobs
  <2> QED BY <2>1 DEF Copies
<1>6. CASE Commit \/ GiveUp \/ RunnerLost
  BY <1>6, IdleCopies DEF Commit, GiveUp, RunnerLost
<1>7. CASE UNCHANGED vars
  BY <1>7 DEF vars, Copies
<1> QED BY <1>1, <1>2, <1>3, <1>4, <1>5, <1>6, <1>7 DEF Next

-----------------------------------------------------------------------------
(* What a run gives up. *)

\* A streak that is long enough began, and the last answer was before it.
LEMMA HuntEvidence == TypeOK /\ Dated /\ Copies /\ Hunt => Evidence'
<1> SUFFICES ASSUME TypeOK, Dated, Copies, Hunt, NEW b \in job'.dropped
             PROVE  /\ answered'[b] # Never => now' - answered'[b] > DropAfter
                    /\ answered'[b] # Never /\ b \in job'.walled =>
                         now' - answered'[b] > BlockHold
  BY DEF Evidence
<1> DEFINE s == job.state[b]
<1>1. UNCHANGED <<now, answered>> /\ job.step = "restored"
  BY HuntEffect
<1>2. /\ FailingFor(s) >= DropAfter
      /\ b \in job'.walled => ~(FailingFor(s) < BlockHold)
  BY HuntEffect
<1>3. b \in Boards
  <2>1. job.hot \subseteq job.rows /\ job.rows \subseteq Boards
    BY <1>1 DEF TypeOK, Copies
  <2> QED BY <2>1, HuntEffect, SelectionType
<1>4. /\ now \in Times /\ s \in Statuses /\ Ordered(s) /\ Before(s, now)
      /\ s.failing # Never => answered[b] < s.failing
  BY <1>1, <1>3, RestoredState
<1>5. s.failing \in Nat /\ answered[b] \in Nat /\ now \in Nat /\ DropAfter \in Nat
      /\ DropAfter >= 1 /\ BlockHold \in Nat /\ Never = 0
  BY <1>3, Instants
<1>6. FailingFor(s) = now - (IF s.failing = Never THEN now ELSE s.failing)
  BY <1>4, FailedStatus
<1> HIDE DEF s
<1>7. s.failing # Never /\ FailingFor(s) = now - s.failing
  BY <1>2, <1>5, <1>6
<1> QED BY <1>1, <1>2, <1>4, <1>5, <1>7

\* Every step keeps the evidence.
LEMMA NextEvidence == TypeOK /\ Dated /\ Copies /\ Evidence /\ [Next]_vars => Evidence'
<1> SUFFICES ASSUME TypeOK, Dated, Copies, Evidence, [Next]_vars PROVE Evidence'
  OBVIOUS
<1>0. job \in Jobs
  BY DEF TypeOK, Jobs
<1>1. CASE Checkout
  <2>1. job'.dropped = {}
    BY <1>1 DEF Checkout, Idle
  <2> QED BY <2>1 DEF Evidence
<1>2. CASE HuntFails
  <2>1. /\ job'.dropped = job.dropped /\ job'.walled = job.walled
        /\ UNCHANGED <<now, answered>>
    BY <1>0, <1>2 DEF HuntFails, Jobs
  <2> QED BY <2>1 DEF Evidence
<1>3. CASE SaveCache
  <2>1. job'.dropped = job.dropped /\ job'.walled = job.walled /\ UNCHANGED now
    BY <1>0, <1>3 DEF SaveCache, Jobs
  <2>2. \A b \in job.dropped : answered'[b] = answered[b]
    BY <1>0, <1>3 DEF SaveCache, Copies, Jobs
  <2> QED BY <2>1, <2>2 DEF Evidence
<1>4. ASSUME NEW b \in Boards, Import(b) PROVE Evidence'
  BY <1>4 DEF Import, Evidence
<1>5. CASE Commit \/ GiveUp \/ RunnerLost
  BY <1>5, IdleCopies DEF Commit, GiveUp, RunnerLost
<1>6. CASE UNCHANGED vars
  BY <1>6 DEF vars, Evidence
<1> QED BY <1>1, <1>2, <1>3, <1>4, <1>5, <1>6, HuntEvidence DEF Next

\* A suspected platform loses nothing, and half or more of the failures make it
\* suspected.
LEMMA HuntPlatforms == TypeOK /\ Copies /\ Hunt => NoPlatformWiped'
<1> SUFFICES ASSUME TypeOK, Copies, Hunt, NEW b \in job'.dropped,
                    Cardinality(On(AtsOf[b], job'.polled)) >= MinSample
             PROVE  2 * Cardinality(On(AtsOf[b], job'.dropped))
                      < Cardinality(On(AtsOf[b], job'.polled))
  BY DEF NoPlatformWiped
<1> DEFINE P == On(AtsOf[b], job'.polled)
           F == On(AtsOf[b], job'.failed)
           D == On(AtsOf[b], job'.dropped)
<1>1. /\ job'.failed \subseteq job'.polled /\ job'.dropped \subseteq job'.failed
      /\ AtsOf[b] \notin Outage(job'.polled, job'.failed)
  BY HuntEffect
<1>2. job'.polled \subseteq Boards
  <2>1. job.hot \subseteq job.rows /\ job.rows \subseteq Boards
    BY HuntEffect DEF TypeOK, Copies
  <2> QED BY <2>1, HuntEffect, SelectionType
<1>3. D \subseteq F /\ F \subseteq P /\ P \subseteq Boards
  BY <1>1, <1>2 DEF On
<1>4. ~(2 * Cardinality(F) >= Cardinality(P))
  <2>1. b \in job'.polled
    BY <1>1
  <2> QED BY <1>1, <2>1 DEF Outage
<1>5. IsFiniteSet(P) /\ IsFiniteSet(F)
  BY <1>3, RosterAssumption, FS_Subset
<1>6. Cardinality(D) <= Cardinality(F) /\ Cardinality(D) \in Nat
      /\ Cardinality(F) \in Nat /\ Cardinality(P) \in Nat
  BY <1>3, <1>5, FS_Subset, FS_CardinalityType
<1> HIDE DEF P, F, D
<1>7. 2 * Cardinality(D) < Cardinality(P)
  BY <1>4, <1>6
<1> QED BY <1>7 DEF P, D

\* Every step keeps the platforms.
LEMMA NextPlatforms == TypeOK /\ Copies /\ NoPlatformWiped /\ [Next]_vars => NoPlatformWiped'
<1> SUFFICES ASSUME TypeOK, Copies, NoPlatformWiped, [Next]_vars PROVE NoPlatformWiped'
  OBVIOUS
<1>0. job \in Jobs
  BY DEF TypeOK, Jobs
<1>1. CASE Checkout
  <2>1. job'.dropped = {}
    BY <1>1 DEF Checkout, Idle
  <2> QED BY <2>1 DEF NoPlatformWiped
<1>2. CASE HuntFails \/ SaveCache \/ UNCHANGED vars \/ \E b \in Boards : Import(b)
  <2>1. job'.dropped = job.dropped /\ job'.polled = job.polled
    BY <1>0, <1>2 DEF HuntFails, SaveCache, Import, vars, Jobs
  <2> QED BY <2>1 DEF NoPlatformWiped
<1>3. CASE Commit \/ GiveUp \/ RunnerLost
  BY <1>3, IdleCopies DEF Commit, GiveUp, RunnerLost
<1> QED BY <1>1, <1>2, <1>3, HuntPlatforms DEF Next

-----------------------------------------------------------------------------
(* How many runs are counted. *)

\* Every step keeps the counts below the clock.
LEMMA NextCounted == TypeOK /\ Dated /\ Counted /\ [Next]_vars => Counted'
<1> SUFFICES ASSUME TypeOK, Dated, Counted, [Next]_vars PROVE Counted'
  OBVIOUS
<1>0. job \in Jobs
  BY DEF TypeOK, Jobs
<1>1. now \in Nat /\ quiet \in Nat /\ \A b \in Boards : waited[b] \in Nat
  BY Instants
<1>2. ASSUME StartCounting, UNCHANGED <<now, job>> PROVE Counted'
  <2>1. Unsaved => 0 < now
    BY <1>1 DEF Counted
  <2> QED BY <1>1, <1>2, <2>1 DEF Counted, StartCounting, Unsaved
<1>3. ASSUME NEW b \in Boards, Import(b) PROVE Counted'
  BY <1>2, <1>3 DEF Import
<1>4. CASE Checkout
  <2>1. now' \in Nat /\ now < now'
    BY <1>1, <1>4 DEF Checkout
  <2>2. UNCHANGED <<waited, quiet>> \/ StartCounting
    BY <1>4 DEF Checkout
  <2> QED BY <1>1, <2>1, <2>2 DEF Counted, StartCounting
<1>5. CASE Hunt
  BY <1>5, HuntEffect DEF Counted, Unsaved
<1>6. CASE HuntFails
  BY <1>6 DEF HuntFails, Counted, Unsaved
<1>7. CASE SaveCache
  <2>1. ~Unsaved' /\ Unsaved /\ UNCHANGED now
    BY <1>0, <1>7 DEF SaveCache, Unsaved, Jobs
  <2>2. /\ quiet' \in {0, quiet, quiet + 1}
        /\ \A b \in Boards : waited'[b] \in {0, waited[b], waited[b] + 1}
    BY <1>7 DEF SaveCache
  <2> QED BY <1>1, <2>1, <2>2 DEF Counted
<1>8. CASE Commit
  <2>1. ~Unsaved' /\ UNCHANGED now
    BY <1>8 DEF Commit, Unsaved, Idle
  <2>2. UNCHANGED <<waited, quiet>> \/ StartCounting
    BY <1>8 DEF Commit
  <2> QED BY <1>1, <2>1, <2>2 DEF Counted, StartCounting
<1>9. CASE GiveUp \/ RunnerLost
  BY <1>9 DEF GiveUp, RunnerLost, Counted, Unsaved, Idle
<1>10. CASE UNCHANGED vars
  BY <1>10 DEF vars, Counted, Unsaved
<1> QED BY <1>3, <1>4, <1>5, <1>6, <1>7, <1>8, <1>9, <1>10 DEF Next

-----------------------------------------------------------------------------
(* Every cold board has its turn. *)

\* The slots the hot boards leave.
SlotsFor(hots) == IF Slots > Cardinality(hots) THEN Slots - Cardinality(hots) ELSE 0

\* A cold board that is left out leaves as many others polled as there are slots,
\* none of them polled later than it before.
LEMMA LeftOut ==
  ASSUME TypeOK, NEW state, NEW b \in ColdListed,
         job.polled \in Selection(listed, hot, state), b \notin job.polled,
         \A c \in Boards : state[c].polled \in Nat
  PROVE  LET L == Later(ColdListed, state, b)
             T == job.polled \ hot
         IN /\ T \subseteq listed \ hot /\ IsFiniteSet(L) /\ IsFiniteSet(T)
            /\ Cardinality(L \cup T) = Cardinality(L) + SlotsFor(hot)
<1> DEFINE cold == listed \ hot
           L == Later(cold, state, b)
<1>0. listed \in SUBSET Boards /\ hot \in SUBSET listed /\ ColdListed = cold
  BY DEF TypeOK, ColdListed
<1>1. PICK T \in SUBSET cold :
        /\ job.polled = hot \cup T
        /\ Cardinality(T) = IF SlotsFor(hot) < Cardinality(cold) THEN SlotsFor(hot)
                            ELSE Cardinality(cold)
        /\ \A x \in T, c \in cold \ T : state[x].polled <= state[c].polled
  BY DEF Selection, SlotsFor, ColdListed
<1>2. job.polled \ hot = T /\ b \in cold \ T
  BY <1>0, <1>1
<1>3. IsFiniteSet(cold) /\ IsFiniteSet(T) /\ IsFiniteSet(L)
  BY <1>0, <1>1, RosterAssumption, FS_Subset DEF Later
<1>4. Cardinality(T) = SlotsFor(hot)
  <2>1. Cardinality(T) # Cardinality(cold)
    BY <1>2, <1>3, FS_Subset
  <2>2. Cardinality(T) \in Nat /\ Cardinality(cold) \in Nat
    BY <1>3, FS_CardinalityType
  <2> QED BY <1>1, <2>1, <2>2
<1>5. L \cap T = {}
  <2>1. ASSUME NEW x \in L, x \in T PROVE FALSE
    <3>1. state[x].polled <= state[b].polled
      BY <1>1, <1>2, <2>1
    <3>2. state[x].polled > state[b].polled /\ x \in Boards /\ b \in Boards
      BY <1>0, <2>1 DEF Later
    <3> QED BY <3>1, <3>2
  <2> QED BY <2>1
<1>6. Cardinality(L \cup T) = Cardinality(L) + Cardinality(T)
  <2>1. /\ Cardinality(L \cup T) = Cardinality(L) + Cardinality(T) - Cardinality(L \cap T)
        /\ Cardinality(L) \in Nat /\ Cardinality(T) \in Nat
    BY <1>3, FS_Union, FS_CardinalityType
  <2>2. Cardinality(L \cap T) = 0
    BY <1>5, FS_EmptySet
  <2> QED BY <2>1, <2>2
<1> QED BY <1>0, <1>2, <1>3, <1>4, <1>6

\* The slots and the counts are natural numbers.
LEMMA SlotsType ==
  ASSUME NEW hots \in SUBSET Boards
  PROVE  SlotsFor(hots) \in Nat
<1>1. IsFiniteSet(hots) /\ Cardinality(hots) \in Nat
  BY RosterAssumption, FS_Subset, FS_CardinalityType
<1> QED BY <1>1, BoundsAssumption DEF SlotsFor

\* Any set of listed boards has a cardinality.
LEMMA LaterType ==
  ASSUME TypeOK, NEW state, NEW b
  PROVE  /\ IsFiniteSet(ColdListed) /\ IsFiniteSet(Later(ColdListed, state, b))
         /\ Cardinality(Later(ColdListed, state, b)) \in Nat
         /\ Cardinality(ColdListed) \in Nat
<1>1. Later(ColdListed, state, b) \subseteq Boards /\ ColdListed \subseteq Boards
  BY DEF Later, ColdListed, TypeOK
<1> QED BY <1>1, RosterAssumption, FS_Subset, FS_CardinalityType

NoneCounted == quiet = 0

\* When counting begins anew nothing is counted.
LEMMA QuietSweeps == TypeOK /\ NoneCounted => Sweeping
<1> SUFFICES ASSUME TypeOK, quiet = 0, NEW b \in ColdListed
             PROVE  Least(waited[b], quiet) * ColdSlots <= Cardinality(Later(ColdListed, cache, b))
  BY DEF Sweeping, NoneCounted
<1>1. b \in Boards /\ hot \in SUBSET Boards
  BY DEF ColdListed, TypeOK
<1>2. Least(waited[b], quiet) = 0
  BY <1>1, Instants DEF Least
<1>3. ColdSlots \in Nat
  BY <1>1, SlotsType DEF SlotsFor, ColdSlots
<1>4. 0 * ColdSlots = 0
  BY <1>3
<1> QED BY <1>2, <1>4, LaterType

\* One more run of as many boards.
LEMMA OneMoreRun ==
  ASSUME NEW m \in Nat, NEW s \in Nat, NEW n \in Nat, m * s <= n
  PROVE  (m + 1) * s <= n + s
OBVIOUS

\* A run without failures that is counted polls, for each board it leaves out, as
\* many others as there are slots, which makes them later than it.
LEMMA SaveSweeps ==
  ASSUME TypeOK, TypeOK', Dated, Sweeping, Rotating, SaveCache,
         job.polled # {}, job.base = listed, job.failed = {}
  PROVE  Sweeping'
<1>1. PICK state \in {cache, NoState} : Selected(state)
  BY DEF Rotating, SaveCache
<1>2. /\ UNCHANGED <<listed, hot, now>> /\ cache' = job.state
      /\ waited' = [b \in Boards |-> IF b \in listed \ job.polled THEN waited[b] + 1 ELSE 0]
      /\ quiet' = quiet + 1
  BY DEF SaveCache
<1>3. now \in Nat /\ \A b \in Boards : state[b].polled \in Nat /\ state[b].polled < now
  <2>1. now \in Times
    <3>1. PICK b \in job.polled : TRUE
      OBVIOUS
    <3>2. b \in Boards
      BY DEF TypeOK
    <3> QED BY <3>2 DEF Dated, Unsaved, SaveCache
  <2>2. \A b \in Boards : cache[b].polled < now
    BY DEF Dated, Unsaved, SaveCache, Before
  <2>3. \A b \in Boards : state[b] \in {cache[b], Fresh}
    BY DEF NoState
  <2>4. Fresh.polled = 0 /\ now > 0 /\ now \in Nat
    BY <2>1 DEF Fresh, Never, Times
  <2> QED BY <2>2, <2>3, <2>4, Instants
<1> SUFFICES ASSUME NEW b \in ColdListed
             PROVE  Least(waited'[b], quiet') * ColdSlots <= Cardinality(Later(ColdListed, cache', b))
  BY <1>2 DEF Sweeping, ColdListed, ColdSlots, Later
<1>4. b \in Boards /\ b \in listed \ hot /\ hot \in SUBSET listed /\ listed \in SUBSET Boards
      /\ hot \in SUBSET Boards
  BY DEF ColdListed, TypeOK
<1>5. ColdSlots = SlotsFor(hot) /\ ColdSlots \in Nat
  BY <1>4, SlotsType DEF SlotsFor, ColdSlots
<1>6. CASE b \in job.polled
  <2>1. Least(waited'[b], quiet') = 0
    BY <1>2, <1>4, <1>6, Instants DEF Least
  <2>2. 0 * ColdSlots = 0
    BY <1>5
  <2>3. Cardinality(Later(ColdListed, cache', b)) \in Nat
    BY LaterType
  <2> QED BY <2>1, <2>2, <2>3
<1>7. CASE b \notin job.polled
  <2> DEFINE L == Later(ColdListed, state, b)
             T == job.polled \ hot
             m == Least(waited[b], quiet)
  <2>1. /\ T \subseteq listed \ hot /\ IsFiniteSet(L) /\ IsFiniteSet(T)
        /\ Cardinality(L \cup T) = Cardinality(L) + ColdSlots
    <3>1. job.polled \in Selection(listed, hot, state)
      BY <1>1 DEF Selected
    <3>2. \A c \in Boards : state[c].polled \in Nat
      BY <1>3
    <3> QED BY <1>5, <1>7, <3>1, <3>2, LeftOut
  <2>2. L \cup T \subseteq Later(ColdListed, cache', b)
    <3>1. \A c \in Boards : cache'[c].polled =
                              IF c \in job.polled THEN now ELSE state[c].polled
      BY <1>1, <1>2 DEF Selected, Answered
    <3>2. ASSUME NEW c \in L \cup T PROVE c \in Later(ColdListed, cache', b)
      <4>1. c \in Boards /\ c \in ColdListed
        BY <2>1, <3>2, <1>4 DEF ColdListed, Later
      <4>2. cache'[b].polled = state[b].polled
        BY <1>4, <1>7, <3>1
      <4>3. cache'[c].polled > state[b].polled
        BY <1>3, <1>4, <3>1, <3>2, <4>1 DEF Later
      <4> QED BY <4>1, <4>2, <4>3 DEF Later
    <3> QED BY <3>2
  <2>3. Cardinality(L \cup T) <= Cardinality(Later(ColdListed, cache', b))
    BY <2>2, LaterType, FS_Subset
  <2>4. m * ColdSlots <= Cardinality(L) /\ m \in Nat /\ Cardinality(L) \in Nat
    <3>1. m \in Nat
      BY <1>4, Instants DEF Least
    <3>2. Cardinality(L) \in Nat
      BY <2>1, FS_CardinalityType
    <3>3. CASE state = cache
      <4>1. L = Later(ColdListed, cache, b)
        BY <3>3
      <4> HIDE DEF L
      <4> QED BY <3>1, <3>2, <4>1 DEF Sweeping
    <3>4. CASE quiet = 0
      <4>1. m = 0
        BY <1>4, <3>4, Instants DEF Least
      <4>2. 0 * ColdSlots = 0
        BY <1>5
      <4> HIDE DEF L, m
      <4> QED BY <3>1, <3>2, <4>1, <4>2
    <3> QED BY <1>1, <3>3, <3>4 DEF Selected
  <2>5. Least(waited'[b], quiet') = m + 1
    <3>1. waited'[b] = waited[b] + 1
      BY <1>2, <1>4, <1>7
    <3> QED BY <1>2, <1>4, <3>1, Instants DEF Least
  <2>6. Cardinality(Later(ColdListed, cache', b)) \in Nat
    BY LaterType
  <2> HIDE DEF L, T, m
  <2>7. (m + 1) * ColdSlots <= Cardinality(L) + ColdSlots
    BY <1>5, <2>4, OneMoreRun
  <2>8. (m + 1) * ColdSlots \in Nat
    BY <1>5, <2>4
  <2> QED BY <1>5, <2>1, <2>3, <2>4, <2>5, <2>6, <2>7, <2>8
<1> QED BY <1>6, <1>7

\* Every step keeps the turns.
LEMMA NextSweeping ==
  TypeOK /\ TypeOK' /\ Dated /\ Copies /\ Sweeping /\ Rotating /\ [Next]_vars => Sweeping'
<1> SUFFICES ASSUME TypeOK, TypeOK', Dated, Copies, Sweeping, Rotating, [Next]_vars
             PROVE  Sweeping'
  OBVIOUS
<1>1. ASSUME quiet' = 0 PROVE Sweeping'
  <2>1. NoneCounted'
    BY <1>1 DEF NoneCounted
  <2> QED BY <2>1, QuietSweeps, PTL
<1>2. ASSUME UNCHANGED <<listed, hot, cache, waited, quiet>> PROVE Sweeping'
  BY <1>2 DEF Sweeping, ColdListed, ColdSlots, Later
<1>3. ASSUME NEW b \in Boards, Import(b) PROVE Sweeping'
  BY <1>1, <1>3 DEF Import, StartCounting
<1>4. CASE Checkout
  BY <1>1, <1>2, <1>4 DEF Checkout, StartCounting
<1>5. CASE Hunt
  BY <1>2, <1>5, HuntEffect
<1>6. CASE HuntFails \/ GiveUp \/ RunnerLost
  BY <1>2, <1>6 DEF HuntFails, GiveUp, RunnerLost
<1>7. CASE SaveCache
  <2>1. CASE job.polled = {} \/ job.base # listed
    <3>1. UNCHANGED <<listed, hot, waited, quiet>> /\ cache' = job.state
      BY <1>7, <2>1 DEF SaveCache
    <3>2. job.state = cache \/ quiet = 0
      BY <1>7, <2>1 DEF SaveCache, Rotating, Unsaved
    <3> QED BY <1>1, <1>2, <3>1, <3>2
  <2>2. CASE job.polled # {} /\ job.base = listed /\ job.failed # {}
    BY <1>1, <1>7, <2>2 DEF SaveCache
  <2>3. CASE job.polled # {} /\ job.base = listed /\ job.failed = {}
    BY <1>7, <2>3, SaveSweeps
  <2> QED BY <2>1, <2>2, <2>3
<1>8. CASE Commit
  <2>1. quiet' = 0 \/ UNCHANGED <<listed, hot, cache, waited, quiet>>
    BY <1>8 DEF Commit, StartCounting
  <2> QED BY <1>1, <1>2, <2>1
<1>9. CASE UNCHANGED vars
  BY <1>2, <1>9 DEF vars
<1> QED BY <1>3, <1>4, <1>5, <1>6, <1>7, <1>8, <1>9 DEF Next

\* A run without failures has answered every board it polled.
LEMMA HuntRotates ==
  ASSUME TypeOK, Copies, Rotating, Hunt, job.base = listed
  PROVE  /\ job'.polled = {} => job'.state = cache \/ quiet = 0
         /\ job'.failed = {} => \E state \in {cache, NoState} : Selected(state)'
<1>1. /\ job.step = "restored" /\ job.rows = listed /\ job.hot = hot
      /\ job.state \in {cache, NoState} /\ (job.state = cache \/ quiet = 0)
  BY HuntEffect DEF Copies, Rotating
<1>2. /\ job'.polled \in Selection(listed, hot, job.state)
      /\ job'.failed \subseteq job'.polled /\ job'.dropped \subseteq job'.failed
      /\ job'.state = [b \in Boards |->
              IF b \in job'.dropped THEN Fresh
              ELSE IF b \in job'.failed THEN Failed(job.state[b])
              ELSE IF b \in job'.polled THEN Answered(job.state[b]) ELSE job.state[b]]
      /\ UNCHANGED <<now, listed, hot, cache, quiet>>
  BY <1>1, HuntEffect
<1>3. job.state \in [Boards -> Statuses]
  BY DEF TypeOK
<1>4. ASSUME job'.failed = {}
      PROVE  job'.state = [b \in Boards |->
               IF b \in job'.polled THEN Answered(job.state[b]) ELSE job.state[b]]
  BY <1>2, <1>4
<1>5. ASSUME job'.polled = {} PROVE job'.state = job.state
  <2>1. job'.state = [b \in Boards |-> job.state[b]]
    BY <1>2, <1>4, <1>5
  <2> QED BY <1>3, <2>1
<1>6. ASSUME job'.failed = {} PROVE \E state \in {cache, NoState} : Selected(state)'
  <2> SUFFICES \E state \in {cache, NoState} :
                 /\ state \in {cache', NoState} /\ (state = cache' \/ quiet' = 0)
                 /\ job'.polled \in Selection(listed', hot', state)
                 /\ job'.state = [b \in Boards |->
                      IF b \in job'.polled THEN [polled |-> now', failing |-> Never]
                      ELSE state[b]]
    BY DEF Selected, Answered
  <2>1. job'.state = [b \in Boards |->
          IF b \in job'.polled THEN [polled |-> now', failing |-> Never] ELSE job.state[b]]
    BY <1>2, <1>4, <1>6 DEF Answered
  <2> QED BY <1>1, <1>2, <2>1
<1> QED BY <1>1, <1>5, <1>6

\* Every step keeps what a run selects its boards from.
LEMMA NextRotating == TypeOK /\ Copies /\ Rotating /\ [Next]_vars => Rotating'
<1> SUFFICES ASSUME TypeOK, Copies, Rotating, [Next]_vars PROVE Rotating'
  OBVIOUS
<1>0. job \in Jobs
  BY DEF TypeOK, Jobs
<1>1. ASSUME job'.step \in {"idle", "saved"} PROVE Rotating'
  BY <1>1 DEF Rotating, Unsaved
<1>2. ASSUME NEW b \in Boards, Import(b) PROVE Rotating'
  <2>1. job'.base # listed' /\ quiet' = 0
    BY <1>2 DEF Import, StartCounting, Copies
  <2> QED BY <2>1 DEF Rotating
<1>3. CASE Checkout
  <2>1. PICK state \in {cache, NoState} :
          /\ job' = [Idle EXCEPT !.step = "restored", !.base = listed, !.rows = listed,
                                 !.hot = hot, !.state = state]
          /\ IF state = cache THEN UNCHANGED <<waited, quiet>> ELSE StartCounting
    BY <1>3 DEF Checkout
  <2>2. /\ job'.step = "restored" /\ job'.base = listed /\ job'.hot = hot
        /\ job'.state = state
    BY <2>1 DEF Idle
  <2>3. state = cache \/ quiet' = 0
    BY <2>1 DEF StartCounting
  <2>4. UNCHANGED <<listed, hot, cache>>
    BY <1>3 DEF Checkout
  <2> QED BY <2>2, <2>3, <2>4 DEF Rotating, Unsaved
<1>4. CASE Hunt
  <2>1. /\ job'.step = "hunted" /\ job'.base = job.base /\ job.step = "restored"
        /\ UNCHANGED <<listed, quiet, cache>>
    BY <1>4, HuntEffect
  <2>2. job.base = listed \/ quiet = 0
    BY <2>1 DEF Rotating, Unsaved
  <2>3. job.base = listed => (job'.polled = {} => job'.state = cache \/ quiet = 0)
    BY <1>4, HuntRotates
  <2>4. job.base = listed /\ job'.failed = {} => \E state \in {cache, NoState} : Selected(state)'
    BY <1>4, HuntRotates
  <2> QED BY <2>1, <2>2, <2>3, <2>4 DEF Rotating
<1>5. CASE HuntFails
  <2>1. /\ job'.step = "hunted" /\ job'.base = job.base /\ job'.polled = job.polled
        /\ job'.state = job.state /\ job.step = "restored"
        /\ UNCHANGED <<listed, hot, cache, quiet>>
    BY <1>0, <1>5 DEF HuntFails, Jobs
  <2>2. job.polled = {}
    BY <2>1 DEF Copies
  <2> QED BY <2>1, <2>2 DEF Rotating, Unsaved
<1>6. CASE SaveCache
  <2>1. job'.step = "saved"
    BY <1>0, <1>6 DEF SaveCache, Jobs
  <2> QED BY <1>1, <2>1
<1>7. CASE Commit \/ GiveUp \/ RunnerLost
  <2>1. job'.step = "idle"
    BY <1>7 DEF Commit, GiveUp, RunnerLost, Idle
  <2> QED BY <1>1, <2>1
<1>8. CASE UNCHANGED vars
  BY <1>8 DEF vars, Rotating, Unsaved, Selected, Answered
<1> QED BY <1>2, <1>3, <1>4, <1>5, <1>6, <1>7, <1>8 DEF Next

-----------------------------------------------------------------------------
(* The theorems. *)

\* The invariant holds initially.
LEMMA InitInv == Init => IInv
<1> SUFFICES ASSUME Init PROVE IInv
  OBVIOUS
<1>1. /\ now = 0 /\ job = Idle /\ hot = {} /\ cache = NoState /\ quiet = 0
      /\ answered = [b \in Boards |-> 0] /\ waited = [b \in Boards |-> 0]
      /\ listed \subseteq Boards
  BY DEF Init, Never
<1>2. now \in Stamps /\ 0 \in 0 .. MaxTime /\ 0 \in Stamps
  BY <1>1, BoundsAssumption DEF Stamps, Never
<1>3. TypeOK
  <2>1. cache \in [Boards -> Statuses] /\ \A b \in Boards : cache[b].failing = Never
    BY <1>1, <1>2, FreshStatus DEF NoState
  <2>2. job \in Jobs
    BY <1>1, IdleType
  <2>3. answered \in [Boards -> Stamps] /\ waited \in [Boards -> 0 .. MaxTime]
    BY <1>1, <1>2
  <2> QED BY <1>1, <1>2, <2>1, <2>2, <2>3 DEF TypeOK, Jobs
<1>4. Dated
  BY <1>1 DEF Dated, Idle, NoState, Fresh, Never, Ordered, UpTo, Unsaved
<1>5. Copies /\ Evidence /\ NoPlatformWiped
  BY <1>1 DEF Copies, Evidence, NoPlatformWiped, Idle
<1>6. Counted /\ Rotating
  BY <1>1 DEF Counted, Rotating, Unsaved, Idle
<1> QED BY <1>1, <1>3, <1>4, <1>5, <1>6, QuietSweeps DEF IInv, NoneCounted

\* The invariant is inductive.
LEMMA NextInv == IInv /\ [Next]_vars => IInv'
<1> SUFFICES ASSUME IInv, [Next]_vars PROVE IInv'
  OBVIOUS
<1>1. TypeOK'
  BY NextTypes DEF IInv
<1> QED BY <1>1, NextDated, NextCopies, NextEvidence, NextPlatforms, NextCounted,
          NextSweeping, NextRotating DEF IInv

\* The invariant holds in every state the runs reach.
THEOREM Invariance == Spec => []IInv
BY InitInv, NextInv, PTL DEF Spec

\* The roster, the cache, a run's copies and the counts keep their types, and a
\* failure streak began after the last answer (recordFailure, recordSuccess).
THEOREM TypeCorrect == Spec => []TypeOK
BY Invariance, PTL DEF IInv

\* No run gives up half or more of what it polled of a platform (detectOutage,
\* shouldEvictBoard), whatever fails.
THEOREM PlatformsKept == Spec => []NoPlatformWiped
BY Invariance, PTL DEF IInv

\* A board taken off the roster failed in that very run, and its last answer on file
\* is older than the retention, at a bot wall than the longer one: lost caches,
\* rejected commits and lost machines included.
THEOREM EvictedFairly == Spec => EvictedOnEvidence
<1> DEFINE A == \A b \in Boards : Leaves(b) =>
              /\ b \in job.failed
              /\ answered[b] # Never => now - answered[b] > DropAfter
              /\ answered[b] # Never /\ b \in job.walled => now - answered[b] > BlockHold
<1>1. IInv /\ [Next]_vars => [A]_vars
  <2> SUFFICES ASSUME IInv, [Next]_vars, NEW b \in Boards, Leaves(b)
               PROVE  b \in job.dropped /\ b \in job.failed
    BY DEF IInv, Evidence
  <2>1. Commit
    BY DEF Leaves, Next, Import, Checkout, Hunt, HuntFails, SaveCache, GiveUp, RunnerLost, vars
  <2> QED BY <2>1 DEF Commit, Leaves, IInv, Copies
<1> QED BY <1>1, Invariance, PTL DEF Spec, EvictedOnEvidence

\* A board that a run did not poll keeps its row, its last answer and its streak,
\* unless the cache itself is lost (selectBoards, saveBoardState).
THEOREM UnpolledKept == Spec => UnpolledSurvive
<1> DEFINE A == \A b \in Boards :
              /\ Leaves(b) => b \in job.polled
              /\ job.step = "hunted" /\ job'.step = "saved" /\ b \notin job.polled =>
                   cache'[b] \in {cache[b], Fresh}
<1>1. IInv /\ [Next]_vars => [A]_vars
  <2> SUFFICES ASSUME IInv, [Next]_vars, NEW b \in Boards
               PROVE  /\ Leaves(b) => b \in job.polled
                      /\ job.step = "hunted" /\ job'.step = "saved" /\ b \notin job.polled =>
                           cache'[b] \in {cache[b], Fresh}
    OBVIOUS
  <2>1. ASSUME Leaves(b) PROVE b \in job.polled
    <3>1. Commit
      BY <2>1 DEF Leaves, Next, Import, Checkout, Hunt, HuntFails, SaveCache, GiveUp,
                  RunnerLost, vars
    <3> QED BY <2>1, <3>1 DEF Commit, Leaves, IInv, Copies
  <2>2. ASSUME job.step = "hunted", job'.step = "saved", b \notin job.polled
        PROVE  cache'[b] \in {cache[b], Fresh}
    <3>1. SaveCache
      BY <2>2 DEF Next, Import, Checkout, Hunt, HuntFails, Commit, GiveUp, RunnerLost, vars,
                  Idle
    <3> QED BY <2>2, <3>1 DEF SaveCache, IInv, Copies
  <2> QED BY <2>1, <2>2
<1> QED BY <1>1, Invariance, PTL DEF Spec, UnpolledSurvive

\* While no poll fails, no cold board waits longer than it takes to poll all the
\* others: the sort of selectBoards() is a fair rotation for every roster and every
\* number of slots, ties and boards added in between included.
THEOREM ColdBoardsSwept == Spec => []SweptWhileHealthy
<1>1. IInv => SweptWhileHealthy
  <2> SUFFICES ASSUME IInv, quiet * ColdSlots >= Cardinality(ColdListed),
                      NEW b \in ColdListed
               PROVE  waited[b] * ColdSlots < Cardinality(ColdListed)
    BY DEF SweptWhileHealthy, Swept
  <2>1. TypeOK /\ b \in Boards /\ hot \in SUBSET Boards
    BY DEF IInv, TypeOK, ColdListed
  <2>2. /\ waited[b] \in Nat /\ quiet \in Nat /\ ColdSlots \in Nat
        /\ cache[b].polled \in Nat
    BY <2>1, Instants, SlotsType DEF SlotsFor, ColdSlots
  <2>3. /\ Cardinality(Later(ColdListed, cache, b)) \in Nat
        /\ Cardinality(ColdListed) \in Nat /\ IsFiniteSet(ColdListed)
    BY <2>1, LaterType
  <2>4. Cardinality(Later(ColdListed, cache, b)) < Cardinality(ColdListed)
    <3>1. Later(ColdListed, cache, b) \subseteq ColdListed /\ b \notin Later(ColdListed, cache, b)
      BY <2>2 DEF Later
    <3>2. /\ Cardinality(Later(ColdListed, cache, b)) <= Cardinality(ColdListed)
          /\ Cardinality(Later(ColdListed, cache, b)) # Cardinality(ColdListed)
      BY <2>3, <3>1, FS_Subset
    <3> QED BY <2>3, <3>2
  <2>5. Least(waited[b], quiet) * ColdSlots < Cardinality(ColdListed)
    <3>1. Least(waited[b], quiet) * ColdSlots <= Cardinality(Later(ColdListed, cache, b))
      BY DEF IInv, Sweeping
    <3>2. Least(waited[b], quiet) * ColdSlots \in Nat
      BY <2>2 DEF Least
    <3> QED BY <2>3, <2>4, <3>1, <3>2
  <2>6. quiet * ColdSlots \in Nat /\ waited[b] * ColdSlots \in Nat
    BY <2>2
  <2>7. Least(waited[b], quiet) \in {waited[b], quiet}
    BY DEF Least
  <2>8. CASE Least(waited[b], quiet) = quiet
    BY <2>3, <2>5, <2>6, <2>8
  <2>9. CASE Least(waited[b], quiet) = waited[b]
    BY <2>5, <2>9
  <2> QED BY <2>7, <2>8, <2>9
<1> QED BY <1>1, Invariance, PTL
=============================================================================
