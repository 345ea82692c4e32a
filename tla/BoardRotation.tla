---------------------------- MODULE BoardRotation ----------------------------
(***************************************************************************)
(* Which boards the hourly hunt polls, and which it gives up                *)
(* (src/select-boards.ts, src/outage.ts, src/state.ts, src/index.ts), run   *)
(* by run of .github/workflows/hunt.yml; and how a poll that failed is      *)
(* judged (src/fetchers/routing.ts, src/fetchers/util.ts).                  *)
(*                                                                          *)
(* A run is a job on a fresh machine.  It checks out companies.json from    *)
(* main and restores state/board-state.json from the cache, hunts, saves    *)
(* the cache, and commits companies.json.  The two files do not travel      *)
(* together: the cache is saved although the hunt threw, the commit may be  *)
(* rejected, the cache may be evicted, the machine may be lost; and rows    *)
(* are added on main while a run is under way.  Runs never overlap.         *)
(***************************************************************************)
EXTENDS Naturals, FiniteSets, Sequences

CONSTANTS
  Boards,     \* rows companies.json may have
  AtsOf,      \* the platform of a board
  Routed,     \* the platforms whose fetcher tries a second engine
  Slots,      \* BOARDS_PER_RUN
  DropAfter,  \* DROP_AFTER_FAILING_DAYS
  BlockHold,  \* BLOCK_HOLD_DAYS
  MinSample,  \* OUTAGE_MIN_SAMPLE
  MaxTime     \* bound: the last instant

Never == 0
Times == 1 .. MaxTime
Stamps == {Never} \cup Times

ASSUME BoundsAssumption ==
  /\ Slots \in Nat /\ DropAfter \in Nat \ {0} /\ BlockHold \in Nat
  /\ MinSample \in Nat \ {0} /\ MaxTime \in Nat

ASSUME RosterAssumption == IsFiniteSet(Boards)

VARIABLES
  now,     \* the time of the current or last run
  listed,  \* companies.json on main
  hot,     \* its rows with lastIndiaAt
  cache,   \* the saved board-state.json: when each board answered last, and since
           \* when it has been failing
  job,     \* the run under way: its own copies of the three, and what it found
  answered,\* history: the last answer of each board in a run that saved its cache
  waited,  \* history: for how many runs in a row a board was left out, while the
           \* roster, the hot rows and the cache stayed
  quiet    \* history: for how many of those runs no poll has failed

vars == <<now, listed, hot, cache, job, answered, waited, quiet>>

Fresh == [polled |-> Never, failing |-> Never]
NoState == [b \in Boards |-> Fresh]

Idle == [step |-> "idle", base |-> {}, rows |-> {}, hot |-> {}, state |-> NoState,
         polled |-> {}, failed |-> {}, walled |-> {}, dropped |-> {}, green |-> FALSE]

\* The platforms of a set of boards.
On(ats, S) == {b \in S : AtsOf[b] = ats}

-----------------------------------------------------------------------------
Init ==
  /\ now = Never
  /\ listed \in SUBSET Boards
  /\ hot = {}
  /\ cache = NoState
  /\ job = Idle
  /\ answered = [b \in Boards |-> Never]
  /\ waited = [b \in Boards |-> 0]
  /\ quiet = 0

StartCounting == quiet' = 0 /\ waited' = [b \in Boards |-> 0]

\* Somebody adds a row to companies.json; what the cache says of it stays.
Import(b) ==
  /\ b \notin listed
  /\ listed' = listed \cup {b}
  /\ StartCounting
  /\ UNCHANGED <<now, hot, cache, job, answered>>

\* Checkout and restore; a cache that was evicted restores nothing.
Checkout ==
  /\ job = Idle
  /\ now' \in {now + 1, now + 2} \cap Times
  /\ \E state \in {cache, NoState} :
       /\ job' = [Idle EXCEPT !.step = "restored", !.base = listed, !.rows = listed,
                              !.hot = hot, !.state = state]
       /\ IF state = cache THEN UNCHANGED <<waited, quiet>> ELSE StartCounting
  /\ UNCHANGED <<listed, hot, cache, answered>>

-----------------------------------------------------------------------------
(* The hunt. *)

\* Mutant of Selection: the boards polled last go first.
SelectionNewest(rows, hots, state) ==
  LET cold == rows \ hots
      slots == IF Slots > Cardinality(hots) THEN Slots - Cardinality(hots) ELSE 0
      size == IF slots < Cardinality(cold) THEN slots ELSE Cardinality(cold)
  IN {hots \cup S : S \in {T \in SUBSET cold :
        /\ Cardinality(T) = size
        /\ \A b \in T, c \in cold \ T : state[b].polled >= state[c].polled}}

\* selectBoards(): every hot board; the cold ones, oldest poll first, in the
\* slots that are left.  Boards polled in one run are equally old.
Selection(rows, hots, state) ==
  LET cold == rows \ hots
      slots == IF Slots > Cardinality(hots) THEN Slots - Cardinality(hots) ELSE 0
      size == IF slots < Cardinality(cold) THEN slots ELSE Cardinality(cold)
  IN {hots \cup S : S \in {T \in SUBSET cold :
        /\ Cardinality(T) = size
        /\ \A b \in T, c \in cold \ T : state[b].polled <= state[c].polled}}

\* Mutant of Outage: a platform is only suspected when nothing of it answers.
OutageTotal(polled, failed) ==
  {AtsOf[b] : b \in {c \in polled :
     /\ Cardinality(On(AtsOf[c], polled)) >= MinSample
     /\ On(AtsOf[c], failed) = On(AtsOf[c], polled)}}

\* detectOutage(): half or more of a platform failed in this run.
Outage(polled, failed) ==
  {AtsOf[b] : b \in {c \in polled :
     /\ Cardinality(On(AtsOf[c], polled)) >= MinSample
     /\ 2 * Cardinality(On(AtsOf[c], failed)) >= Cardinality(On(AtsOf[c], polled))}}

\* recordFailure() and recordSuccess().
Failed(s) == [s EXCEPT !.failing = IF @ = Never THEN now ELSE @]

\* Mutant of Answered: an answer does not end the failure streak.
AnsweredKeep(s) == [s EXCEPT !.polled = now]

Answered(s) == [polled |-> now, failing |-> Never]

\* The errors a failed poll ends with.  A request is refused (400, 401, 404, 410), hits a
\* wall, is told to slow down, or fails in any other way.  A second engine is tried after
\* a wall or another failure only, and has no classifier of its own.
Errors(ats) ==
  IF ats \in Routed THEN {<<"rate">>, <<"refusal">>} \cup {"wall", "plain"} \X {"refusal", "plain"}
  ELSE {<<"rate">>, <<"refusal">>, <<"wall">>, <<"plain">>}

\* extractBlockKind(): a wall or a rate limit, unless either engine was refused.
BlockKind(error) ==
  /\ \E i \in DOMAIN error : error[i] \in {"wall", "rate"}
  /\ \A i \in DOMAIN error : error[i] # "refusal"

\* Mutant of Blocked: only a wall counts, being told to slow down does not.
BlockedByWall(error) == \E i \in DOMAIN error : error[i] = "wall"

\* What pollBoard() reports as blockKind: that, or the failureClass of route(), which
\* is 'error' whenever two engines failed without one.
Blocked(error) == BlockKind(error) \/ Len(error) = 2

\* What a failed poll can say of its board: whether it met a wall, and whether it is
\* reported to have.
Verdicts(ats) == {[wall |-> BlockKind(e), held |-> Blocked(e)] : e \in Errors(ats)}

FailingFor(s) == now - Failed(s).failing

\* shouldEvictBoard(): not while its platform is suspected, later at a bot wall.
Evicted(b, s, outage, held) ==
  /\ FailingFor(s) >= DropAfter
  /\ AtsOf[b] \notin outage
  /\ ~(held /\ FailingFor(s) < BlockHold)

\* Mutant of Rows: only the rows this run polled are written back.
RowsPolled(rows, polled, dropped) == polled \ dropped

\* The rows that are written back: the boards of other runs survive untouched.
Rows(rows, polled, dropped) == rows \ dropped

\* The polls and what follows from them; the files are written at the end, and a
\* hunt that throws after saveBoardState() is not green.  "lastIndiaAt" is sticky.
Hunt ==
  /\ job.step = "restored"
  /\ \E polled \in Selection(job.rows, job.hot, job.state) :
     \E failed \in SUBSET polled :
     \E said \in [failed -> [wall : BOOLEAN, held : BOOLEAN]] :
     \E india \in SUBSET (polled \ failed), green \in BOOLEAN :
       LET outage == Outage(polled, failed)
           dropped == {b \in failed : Evicted(b, job.state[b], outage, said[b].held)}
           overdue == {b \in failed : FailingFor(job.state[b]) >= DropAfter}
       IN /\ \A b \in failed : said[b] \in Verdicts(AtsOf[b])
          /\ job' = [job EXCEPT
               !.step = "hunted",
               !.rows = Rows(@, polled, dropped),
               !.hot = @ \cup india,
               !.state = [b \in Boards |->
                  CASE b \in dropped -> Fresh
                    [] b \in failed \ dropped -> Failed(job.state[b])
                    [] b \in polled \ failed -> Answered(job.state[b])
                    [] OTHER -> job.state[b]],
               !.polled = polled, !.failed = failed, !.dropped = dropped,
               !.walled = {b \in overdue : said[b].wall}, !.green = green]
  /\ UNCHANGED <<now, listed, hot, cache, answered, waited, quiet>>

\* The hunt throws before it has written either file: the restored state is saved
\* again and nothing is committed.
HuntFails ==
  /\ job.step = "restored"
  /\ job' = [job EXCEPT !.step = "hunted"]
  /\ UNCHANGED <<now, listed, hot, cache, answered, waited, quiet>>

\* "Save board state" runs if: always().
SaveCache ==
  /\ job.step = "hunted"
  /\ job' = [job EXCEPT !.step = "saved", !.state = NoState]
  /\ cache' = job.state
  /\ answered' = [b \in Boards |->
                    IF b \in job.polled \ job.failed THEN now ELSE answered[b]]
  /\ IF job.polled = {} \/ job.base # listed THEN UNCHANGED <<waited, quiet>>
     ELSE /\ waited' = [b \in Boards |->
                          IF b \in listed \ job.polled THEN waited[b] + 1 ELSE 0]
          /\ quiet' = IF job.failed = {} THEN quiet + 1 ELSE 0
  /\ UNCHANGED <<now, listed, hot>>

\* The file is merged with what changed on main meanwhile.  A conflict of the two is
\* committed with its markers, and every hunt throws at it (HuntFails) until somebody
\* has kept one side (GiveUp) or both.
Commit ==
  /\ job.step = "saved" /\ job.green
  /\ LET rows == listed \ (job.base \ job.rows)
     IN /\ listed' = rows
        /\ hot' = (hot \cup job.hot) \cap rows
        /\ IF rows = listed /\ hot' = hot THEN UNCHANGED <<waited, quiet>>
           ELSE StartCounting
  /\ job' = Idle
  /\ UNCHANGED <<now, cache, answered>>

\* No commit: the hunt failed, or the push was rejected.
GiveUp ==
  /\ job.step = "saved"
  /\ job' = Idle
  /\ UNCHANGED <<now, listed, hot, cache, answered, waited, quiet>>

\* The machine goes away with everything it has not saved.
RunnerLost ==
  /\ job.step \in {"restored", "hunted"}
  /\ job' = Idle
  /\ UNCHANGED <<now, listed, hot, cache, answered, waited, quiet>>
-----------------------------------------------------------------------------
Next ==
  \/ \E b \in Boards : Import(b)
  \/ Checkout \/ Hunt \/ HuntFails
  \/ SaveCache \/ Commit \/ GiveUp \/ RunnerLost

Spec == Init /\ [][Next]_vars

-----------------------------------------------------------------------------
(* Properties. *)

Statuses == [polled : Stamps, failing : Stamps]

\* Every variable keeps its shape, and a failure streak began after the last answer.
TypeOK ==
  /\ now \in Stamps
  /\ listed \subseteq Boards /\ hot \subseteq listed
  /\ cache \in [Boards -> Statuses]
  /\ \A b \in Boards : cache[b].failing # Never => cache[b].polled < cache[b].failing
  /\ job \in [step : {"idle", "restored", "hunted", "saved"}, base : SUBSET Boards,
              rows : SUBSET Boards, hot : SUBSET Boards, state : [Boards -> Statuses],
              polled : SUBSET Boards, failed : SUBSET Boards, walled : SUBSET Boards,
              dropped : SUBSET Boards, green : BOOLEAN]
  /\ answered \in [Boards -> Stamps]
  /\ waited \in [Boards -> 0 .. MaxTime]
  /\ quiet \in 0 .. MaxTime

Leaves(b) == job # Idle /\ job' = Idle /\ b \in listed /\ b \notin listed'

\* "A bad afternoon doesn't evict a good company": whatever caches, commits and
\* machines were lost on the way, a board that a run takes off the roster failed in
\* that run and last answered longer ago than DropAfter, at a bot wall than BlockHold.
EvictedOnEvidence ==
  [][\A b \in Boards : Leaves(b) =>
       /\ b \in job.failed
       /\ answered[b] # Never => now - answered[b] > DropAfter
       /\ answered[b] # Never /\ b \in job.walled => now - answered[b] > BlockHold]_vars

\* "Boards not polled this run must survive untouched": what a run does not poll
\* keeps its row, its poll time and its failure streak, also a row that was added
\* while it ran; unless the cache itself is lost.
UnpolledSurvive ==
  [][\A b \in Boards :
       /\ Leaves(b) => b \in job.polled
       /\ job.step = "hunted" /\ job'.step = "saved" /\ b \notin job.polled =>
            cache'[b] \in {cache[b], Fresh}]_vars

\* "Not eight coincidental deaths": no run gives up half of what it polled of a
\* platform.
NoPlatformWiped ==
  \A b \in job.dropped :
    Cardinality(On(AtsOf[b], job.polled)) >= MinSample =>
      2 * Cardinality(On(AtsOf[b], job.dropped)) < Cardinality(On(AtsOf[b], job.polled))

\* "Set when the error was a classified bot wall, not an ordinary failure"
\* (index.ts:70): past DropAfter only a wall or an outage keeps a board listed.
OnlyWallsHold ==
  job.step = "hunted" => \A b \in job.failed \ job.dropped :
    job.state[b].failing # Never /\ now - job.state[b].failing >= DropAfter =>
      b \in job.walled \/ AtsOf[b] \in Outage(job.polled, job.failed)

ColdListed == listed \ hot
ColdSlots == IF Slots > Cardinality(hot) THEN Slots - Cardinality(hot) ELSE 0

\* Each cold board was polled in one of the last ceil(cold / slots) runs.
Swept == \A b \in ColdListed : waited[b] * ColdSlots < Cardinality(ColdListed)

\* While no poll fails, the oldest-first rotation reaches every board in time.
SweptWhileHealthy == quiet * ColdSlots >= Cardinality(ColdListed) => Swept
=============================================================================
