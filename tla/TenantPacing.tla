---------------------------- MODULE TenantPacing ----------------------------
(***************************************************************************)
(* How the worker paces itself at the employers (src/autoapply/worker.ts,   *)
(* tables submission_attempts, tenant_attempts and tenant_cooldowns of      *)
(* store.ts).  A final submit first reserves a slot of the day and of the   *)
(* employer's rolling hour; a challenge cools its employer for an hour.     *)
(*                                                                          *)
(* The tables outlive the process.  The worker does its loop over and over: *)
(* it looks at the cooldowns once, takes up the parked applications, then   *)
(* claims one job.  A run lasts minutes, so the clock moves on between any  *)
(* two of its steps; it jumps when the computer has slept.                  *)
(***************************************************************************)
EXTENDS Naturals, FiniteSets

CONSTANTS
  Tenants,      \* employers
  Ids,          \* the random UUIDs of the attempts
  MaxTime,      \* bound: the last instant
  DayLength,    \* a day in the time zone of the labels
  Hour,         \* the rolling hour, and the cooldown
  DailyLimit,
  TenantLimit,
  None

Times == 0 .. MaxTime
Days == 0 .. MaxTime \div DayLength

ASSUME TimeAssumption ==
  MaxTime \in Nat /\ DayLength \in Nat \ {0} /\ Hour \in Nat \ {0}
ASSUME LimitAssumption == DailyLimit \in Nat /\ TenantLimit \in Nat
ASSUME NoneAssumption == None \notin Tenants \cup Ids

VARIABLES
  clock,     \* Date.now()
  attempts,  \* the reservations, one row in either table
  clicks,    \* history: the presses of Submit, by reservation and day
  until,     \* table tenant_cooldowns
  pass,      \* the iteration of the loop: how far it is, the cooldowns it saw and
             \* (history) those it set
  run        \* the application in the browser

vars == <<clock, attempts, clicks, until, pass, run>>

DayOf(t) == t \div DayLength

Attempts == [id : Ids, day : Days, tenant : Tenants, at : Times]
Clicks == [id : Ids, day : Days]
Idle == [tenant |-> None, step |-> "idle", resumed |-> FALSE, day |-> 0, now |-> 0,
         id |-> None]

Top == [step |-> "top", cooling |-> {}, cooled |-> {}]

OnDay(d) == {a \in attempts : a.day = d}

\* a.at > now - Hour, without negative numbers.
InLastHour(t, now) == {a \in attempts : a.tenant = t /\ a.at + Hour > now}

-----------------------------------------------------------------------------
Init ==
  /\ clock = 0
  /\ attempts = {}
  /\ clicks = {}
  /\ until = [t \in Tenants |-> 0]
  /\ pass = Top
  /\ run = Idle

Tick ==
  /\ \E t \in Times : t > clock /\ clock' = t
  /\ UNCHANGED <<attempts, clicks, until, pass, run>>

\* coolingTenants() at the top of the loop: a cooldown that has not ended.
CoolingAt(now) == {t \in Tenants : until[t] > now}

\* Mutant of Look: the cooldowns are read when the worker starts.
LookOnce ==
  /\ pass.step = "top" /\ run = Idle
  /\ pass' = [pass EXCEPT !.step = "parked"]
  /\ UNCHANGED <<clock, attempts, clicks, until, run>>

Look ==
  /\ pass.step = "top" /\ run = Idle
  /\ pass' = [step |-> "parked", cooling |-> CoolingAt(clock), cooled |-> {}]
  /\ UNCHANGED <<clock, attempts, clicks, until, run>>

Open(t, person) ==
  run' = [Idle EXCEPT !.tenant = t, !.step = "form", !.resumed = person]

\* A parked application that is ready; Resume opens it whatever the cooldown.
TakeUp(t) ==
  /\ pass.step = "parked" /\ run = Idle
  /\ \/ t \notin pass.cooling /\ Open(t, FALSE)
     \/ Open(t, TRUE)
  /\ UNCHANGED <<clock, attempts, clicks, until, pass>>

ParkedDone ==
  /\ pass.step = "parked" /\ run = Idle
  /\ pass' = [pass EXCEPT !.step = "claim"]
  /\ UNCHANGED <<clock, attempts, clicks, until, run>>

\* processNext() for an employer that is not blocked; nothing is claimed once
\* the day is full.
Claim(t) ==
  /\ pass.step = "claim" /\ run = Idle
  /\ Cardinality(OnDay(DayOf(clock))) < DailyLimit
  /\ t \notin pass.cooling
  /\ Cardinality(InLastHour(t, clock)) < TenantLimit
  /\ Open(t, FALSE)
  /\ pass' = Top
  /\ UNCHANGED <<clock, attempts, clicks, until>>

NothingToClaim ==
  /\ pass.step = "claim" /\ run = Idle
  /\ pass' = Top
  /\ UNCHANGED <<clock, attempts, clicks, until, run>>

-----------------------------------------------------------------------------
(* A run. *)

\* reserveTenantSubmission(day(), ..., Date.now(), 5): the arguments are read
\* one after the other, before the transaction has the file.
AskDay ==
  /\ run.step = "form"
  /\ run' = [run EXCEPT !.step = "day", !.resumed = FALSE, !.day = DayOf(clock)]
  /\ UNCHANGED <<clock, attempts, clicks, until, pass>>

AskNow ==
  /\ run.step = "day"
  /\ run' = [run EXCEPT !.step = "now", !.now = clock]
  /\ UNCHANGED <<clock, attempts, clicks, until, pass>>

\* Mutant of Reserve: the employer's attempts are counted by clock hour.
ReserveByClockHour ==
  /\ run.step = "now"
  /\ IF \/ Cardinality(OnDay(run.day)) >= DailyLimit
        \/ Cardinality({a \in attempts : a.tenant = run.tenant
                                         /\ a.at \div Hour = run.now \div Hour}) >= TenantLimit
     THEN run' = Idle /\ UNCHANGED attempts
     ELSE \E id \in Ids \ {a.id : a \in attempts} :
            /\ attempts' = attempts \cup
                 {[id |-> id, day |-> run.day, tenant |-> run.tenant, at |-> run.now]}
            /\ run' = [Idle EXCEPT !.tenant = run.tenant, !.step = "reserved", !.id = id]
  /\ UNCHANGED <<clock, clicks, until, pass>>

\* Mutant of Reserve: every employer has a limit of its own for the day.
ReserveByTenant ==
  /\ run.step = "now"
  /\ IF \/ Cardinality({a \in OnDay(run.day) : a.tenant = run.tenant}) >= DailyLimit
        \/ Cardinality(InLastHour(run.tenant, run.now)) >= TenantLimit
     THEN run' = Idle /\ UNCHANGED attempts
     ELSE \E id \in Ids \ {a.id : a \in attempts} :
            /\ attempts' = attempts \cup
                 {[id |-> id, day |-> run.day, tenant |-> run.tenant, at |-> run.now]}
            /\ run' = [Idle EXCEPT !.tenant = run.tenant, !.step = "reserved", !.id = id]
  /\ UNCHANGED <<clock, clicks, until, pass>>

\* Counted and inserted in one transaction; a full day or hour parks the run.
Reserve ==
  /\ run.step = "now"
  /\ IF \/ Cardinality(OnDay(run.day)) >= DailyLimit
        \/ Cardinality(InLastHour(run.tenant, run.now)) >= TenantLimit
     THEN run' = Idle /\ UNCHANGED attempts
     ELSE \E id \in Ids \ {a.id : a \in attempts} :
            /\ attempts' = attempts \cup
                 {[id |-> id, day |-> run.day, tenant |-> run.tenant, at |-> run.now]}
            /\ run' = [Idle EXCEPT !.tenant = run.tenant, !.step = "reserved", !.id = id]
  /\ UNCHANGED <<clock, clicks, until, pass>>

\* The submit follows the pacing wait; its slot is spent either way.  The run may press
\* Submit again on the same slot: after a captcha that it solved, after it has mended
\* the fields of a frame, and after it has mended a validation error.
Click ==
  /\ run.step \in {"reserved", "sent"}
  /\ clicks' = clicks \cup {[id |-> run.id, day |-> DayOf(clock)]}
  /\ run' = [run EXCEPT !.step = "sent"]
  /\ UNCHANGED <<clock, attempts, until, pass>>

\* A run ends before or after its submit, parked or not.
Leave ==
  /\ run # Idle
  /\ run' = Idle
  /\ UNCHANGED <<clock, attempts, clicks, until, pass>>

\* park() of a run that met a challenge: coolTenant() never shortens a cooldown.
Challenge ==
  /\ run.step \in {"form", "sent"}
  /\ until' = [until EXCEPT ![run.tenant] = IF @ > clock + Hour THEN @ ELSE clock + Hour]
  /\ run' = Idle
  /\ pass' = [pass EXCEPT !.cooled = @ \cup {run.tenant}]
  /\ UNCHANGED <<clock, attempts, clicks>>

\* The process dies and is started again.
Restart ==
  /\ pass' = Top
  /\ run' = Idle
  /\ UNCHANGED <<clock, attempts, clicks, until>>

-----------------------------------------------------------------------------
Running == AskDay \/ AskNow \/ Reserve \/ Click \/ Leave \/ Challenge

Next ==
  \/ Tick \/ Look \/ ParkedDone \/ NothingToClaim \/ Running \/ Restart
  \/ \E t \in Tenants : TakeUp(t) \/ Claim(t)

Spec == Init /\ [][Next]_vars

-----------------------------------------------------------------------------
(* Properties. *)

\* Every variable keeps its shape, and no two attempts share their id.
TypeOK ==
  /\ clock \in Times
  /\ attempts \subseteq Attempts
  /\ \A a, b \in attempts : a.id = b.id => a = b
  /\ clicks \subseteq Clicks
  /\ until \in [Tenants -> 0 .. MaxTime + Hour]
  /\ pass \in [step : {"top", "parked", "claim"}, cooling : SUBSET Tenants,
               cooled : SUBSET Tenants]
  /\ run \in [tenant : Tenants \cup {None}, resumed : BOOLEAN, day : Days, now : Times,
              step : {"idle", "form", "day", "now", "reserved", "sent"},
              id : Ids \cup {None}]
  /\ run.step # "idle" => run.tenant \in Tenants
  /\ run.step \in {"reserved", "sent"} => run.id \in Ids

\* reserveTenantSubmission(): no day has more than its limit of attempts.
DailyCap == \A d \in Days : Cardinality(OnDay(d)) <= DailyLimit

\* "Five attempts per rolling hour": whichever hour one looks at, and however
\* long an attempt took to get from its clock to the table.
HourlyCap ==
  \A t \in Tenants, start \in Times :
    Cardinality({a \in attempts : a.tenant = t /\ start <= a.at /\ a.at < start + Hour})
      <= TenantLimit

\* The limits are on reservations.  The presses come later, past midnight or out of the
\* hour, and a run may press more than once: on no day do the employers see submits of
\* more applications than the limit and one, the one that was under way at midnight.
ClicksPerDay ==
  \A d \in Days : Cardinality({c.id : c \in {e \in clicks : e.day = d}}) <= DailyLimit + 1

\* The worker opens an employer by itself while it is cooling.
OpensCooling(t) ==
  run = Idle /\ run'.tenant = t /\ ~run'.resumed /\ t \in CoolingAt(clock)

\* From the next iteration on, also after a restart, a challenge keeps the worker
\* away: it only opens a cooling employer that it met the challenge of since it
\* last looked.
LaterPassesRest == [][\A t \in Tenants : OpensCooling(t) => t \in pass.cooled]_vars

=============================================================================
