------------------------ MODULE TenantPacing_proofs ------------------------
(***************************************************************************)
(* What TenantPacing promises for every number of employers, every limit    *)
(* and every clock: the caps on reservations.                               *)
(***************************************************************************)
EXTENDS TenantPacing, FiniteSetTheorems, TLAPS

Window(t, start) == {a \in attempts : a.tenant = t /\ start <= a.at /\ a.at < start + Hour}

\* The days of the labels: a later instant is not on an earlier day.
LEMMA LaterDay ==
  ASSUME NEW t \in Times
  PROVE  DayOf(t) \in Days
<1> DEFINE m == DayLength
           q == t \div m
           p == MaxTime \div m
<1>1. t \in Nat /\ m \in Nat \ {0} /\ MaxTime \in Nat /\ t <= MaxTime
  BY TimeAssumption DEF Times
<1>2. q \in Nat /\ p \in Nat /\ q * m <= t /\ MaxTime < (p + 1) * m
  BY <1>1, SMTT(30)
<1>3. q <= p
  <2>1. SUFFICES ASSUME q > p PROVE FALSE
    BY <1>2
  <2>2. q >= p + 1
    BY <2>1, <1>2
  <2>3. q * m >= (p + 1) * m
    BY <2>2, <1>1, <1>2, SMTT(30)
  <2> QED BY <2>3, <1>1, <1>2, SMTT(30)
<1> QED BY <1>2, <1>3 DEF DayOf, Days

\* One more element is at most one more.
LEMMA OneMore ==
  ASSUME NEW S, NEW x, IsFiniteSet(S)
  PROVE  /\ IsFiniteSet(S \cup {x})
         /\ Cardinality(S \cup {x}) \in Nat
         /\ Cardinality(S \cup {x}) <= Cardinality(S) + 1
<1>1. IsFiniteSet(S \cup {x}) /\ Cardinality(S) \in Nat
  BY FS_AddElement, FS_CardinalityType
<1>2. Cardinality(S \cup {x}) \in {Cardinality(S), Cardinality(S) + 1}
  <2>1. CASE x \in S
    <3>1. S \cup {x} = S
      BY <2>1
    <3> QED BY <3>1
  <2>2. CASE x \notin S
    BY <2>2, FS_AddElement
  <2> QED BY <2>1, <2>2
<1> QED BY <1>1, <1>2

-----------------------------------------------------------------------------
(* Every variable keeps its shape. *)

\* The types hold initially.
LEMMA InitTypes == Init => TypeOK
<1> SUFFICES ASSUME Init PROVE TypeOK
  OBVIOUS
<1>1. 0 \in Times /\ MaxTime + Hour \in Nat
  BY TimeAssumption DEF Times
<1>2. 0 \in Days
  BY <1>1, LaterDay, TimeAssumption DEF DayOf, Days, Times
<1> QED BY <1>1, <1>2 DEF Init, TypeOK, Idle, Top

\* Every step keeps the types.
LEMMA NextTypes == TypeOK /\ [Next]_vars => TypeOK'
<1> SUFFICES ASSUME TypeOK, [Next]_vars PROVE TypeOK'
  OBVIOUS
<1> USE DEF TypeOK
<1>0. 0 \in Times /\ 0 \in Days
  <2>1. 0 \in Times
    BY TimeAssumption DEF Times
  <2>2. MaxTime \div DayLength \in Nat
    BY TimeAssumption, SMTT(30)
  <2> QED BY <2>1, <2>2 DEF Days
<1>1. CASE Tick
  BY <1>1 DEF Tick
<1>2. CASE Look
  BY <1>2 DEF Look, CoolingAt
<1>3. CASE ParkedDone
  BY <1>3 DEF ParkedDone
<1>4. CASE NothingToClaim
  BY <1>4 DEF NothingToClaim, Top
<1>5. CASE AskDay
  <2>1. DayOf(clock) \in Days
    BY LaterDay
  <2> QED BY <1>5, <2>1 DEF AskDay
<1>6. CASE AskNow
  BY <1>6 DEF AskNow
<1>7. CASE Reserve
  <2>1. CASE run' = Idle /\ UNCHANGED attempts
    BY <1>7, <2>1, <1>0 DEF Reserve, Idle
  <2>2. ASSUME NEW id \in Ids \ {a.id : a \in attempts},
               attempts' = attempts \cup
                 {[id |-> id, day |-> run.day, tenant |-> run.tenant, at |-> run.now]},
               run' = [Idle EXCEPT !.tenant = run.tenant, !.step = "reserved", !.id = id]
        PROVE  TypeOK'
    <3> DEFINE new == [id |-> id, day |-> run.day, tenant |-> run.tenant, at |-> run.now]
    <3>1. run.tenant \in Tenants
      BY <1>7 DEF Reserve
    <3>2. new \in Attempts
      BY <3>1 DEF Attempts
    <3>3. attempts' \subseteq Attempts
      BY <2>2, <3>2
    <3>4. \A a, b \in attempts' : a.id = b.id => a = b
      <4>1. \A a \in attempts : a.id # id
        BY <2>2
      <4>2. new.id = id
        OBVIOUS
      <4> HIDE DEF new
      <4> QED BY <2>2, <4>1, <4>2 DEF new
    <3>5. /\ run' \in [tenant : Tenants \cup {None}, resumed : BOOLEAN, day : Days,
                       now : Times, id : Ids \cup {None},
                       step : {"idle", "form", "day", "now", "reserved", "sent"}]
          /\ run'.step = "reserved" /\ run'.tenant \in Tenants /\ run'.id \in Ids
      BY <2>2, <3>1, <1>0 DEF Idle
    <3>6. UNCHANGED <<clock, clicks, until, pass>>
      BY <1>7 DEF Reserve
    <3> QED BY <3>3, <3>4, <3>5, <3>6
  <2> QED BY <1>7, <2>1, <2>2 DEF Reserve
<1>8. CASE Click
  <2> DEFINE c == [id |-> run.id, day |-> DayOf(clock)]
  <2>1. run.tenant \in Tenants /\ run.id \in Ids /\ DayOf(clock) \in Days
    BY <1>8, LaterDay DEF Click
  <2>2. c \in Clicks
    BY <2>1 DEF Clicks
  <2>3. clicks' \subseteq Clicks
    BY <1>8, <2>2 DEF Click
  <2>4. /\ run' \in [tenant : Tenants \cup {None}, resumed : BOOLEAN, day : Days,
                     now : Times, id : Ids \cup {None},
                     step : {"idle", "form", "day", "now", "reserved", "sent"}]
        /\ run'.step = "sent" /\ run'.tenant = run.tenant /\ run'.id = run.id
    BY <1>8 DEF Click
  <2>5. UNCHANGED <<clock, attempts, until, pass>>
    BY <1>8 DEF Click
  <2> QED BY <2>1, <2>3, <2>4, <2>5
<1>9. CASE Leave
  BY <1>9, <1>0 DEF Leave, Idle
<1>10. CASE Challenge
  <2>1. clock + Hour \in 0 .. MaxTime + Hour
    BY TimeAssumption DEF Times
  <2>2. until' \in [Tenants -> 0 .. MaxTime + Hour]
    BY <1>10, <2>1 DEF Challenge
  <2> QED BY <1>10, <1>0, <2>2 DEF Challenge, Idle
<1>11. CASE Restart
  BY <1>11, <1>0 DEF Restart, Idle, Top
<1>12. ASSUME NEW t \in Tenants, TakeUp(t) PROVE TypeOK'
  BY <1>12, <1>0 DEF TakeUp, Open, Idle
<1>13. ASSUME NEW t \in Tenants, Claim(t) PROVE TypeOK'
  BY <1>13, <1>0 DEF Claim, Open, Idle, Top
<1>14. CASE UNCHANGED vars
  BY <1>14 DEF vars
<1> QED
  BY <1>1, <1>2, <1>3, <1>4, <1>5, <1>6, <1>7, <1>8, <1>9, <1>10, <1>11, <1>12, <1>13,
     <1>14 DEF Next, Running

\* The variables keep their shape in every state of every run.
THEOREM TypeCorrect == Spec => []TypeOK
BY InitTypes, NextTypes, PTL DEF Spec

-----------------------------------------------------------------------------
(* The caps on reservations. *)

\* The caps are inductive beside the types and the finiteness of the table.
Caps == IsFiniteSet(attempts) /\ DailyCap /\ HourlyCap

\* An empty table is within every cap.
LEMMA InitCaps == Init => Caps
<1> SUFFICES ASSUME Init PROVE Caps
  OBVIOUS
<1>1. attempts = {} /\ IsFiniteSet({}) /\ Cardinality({}) = 0
  BY FS_EmptySet DEF Init
<1>2. DailyCap
  <2> SUFFICES ASSUME NEW d \in Days PROVE Cardinality(OnDay(d)) <= DailyLimit
    BY DEF DailyCap
  <2>1. OnDay(d) = {}
    BY <1>1 DEF OnDay
  <2> QED BY <2>1, <1>1, LimitAssumption
<1>3. HourlyCap
  <2> SUFFICES ASSUME NEW t \in Tenants, NEW start \in Times
               PROVE  Cardinality(Window(t, start)) <= TenantLimit
    BY DEF HourlyCap, Window
  <2>1. Window(t, start) = {}
    BY <1>1 DEF Window
  <2> QED BY <2>1, <1>1, LimitAssumption
<1> QED BY <1>1, <1>2, <1>3 DEF Caps

\* The heart of it: the attempts of a window an attempt falls into are all among
\* those counted before it was inserted, also those of a later instant.
LEMMA WindowCounted ==
  ASSUME TypeOK, NEW t \in Tenants, NEW start \in Times, NEW now \in Times,
         start <= now, now < start + Hour
  PROVE  Window(t, start) \subseteq InLastHour(t, now)
<1> SUFFICES ASSUME NEW a \in Window(t, start) PROVE a \in InLastHour(t, now)
  OBVIOUS
<1>1. a \in attempts /\ a.tenant = t /\ start <= a.at /\ a.at \in Times
  BY DEF Window, TypeOK, Attempts
<1>2. a.at + Hour > now
  BY <1>1, TimeAssumption DEF Times
<1> QED BY <1>1, <1>2 DEF InLastHour

\* A reservation keeps the caps.
LEMMA ReserveCaps ==
  ASSUME TypeOK, Caps, NEW id \in Ids, run.tenant \in Tenants,
         Cardinality(OnDay(run.day)) < DailyLimit,
         Cardinality(InLastHour(run.tenant, run.now)) < TenantLimit,
         attempts' = attempts \cup
           {[id |-> id, day |-> run.day, tenant |-> run.tenant, at |-> run.now]}
  PROVE  Caps'
<1> DEFINE new == [id |-> id, day |-> run.day, tenant |-> run.tenant, at |-> run.now]
<1>1. /\ new.day = run.day /\ new.tenant = run.tenant /\ new.at = run.now
      /\ run.day \in Days /\ run.now \in Times
  BY DEF TypeOK
<1>2. attempts' = attempts \cup {new} /\ IsFiniteSet(attempts)
  BY DEF Caps
<1> HIDE DEF new
<1>3. IsFiniteSet(attempts')
  BY <1>2, FS_AddElement
<1>4. DailyCap'
  <2> SUFFICES ASSUME NEW d \in Days PROVE Cardinality(OnDay(d)') <= DailyLimit
    BY DEF DailyCap
  <2>1. IsFiniteSet(OnDay(d)) /\ Cardinality(OnDay(d)) \in Nat
    BY <1>2, FS_Subset, FS_CardinalityType DEF OnDay
  <2>2. CASE d = run.day
    <3>1. OnDay(d)' = OnDay(d) \cup {new}
      BY <1>1, <1>2, <2>2 DEF OnDay
    <3>2. Cardinality(OnDay(d)') \in Nat /\ Cardinality(OnDay(d)') <= Cardinality(OnDay(d)) + 1
      BY <3>1, <2>1, OneMore
    <3> QED BY <3>2, <2>1, <2>2, LimitAssumption
  <2>3. CASE d # run.day
    <3>1. OnDay(d)' = OnDay(d)
      BY <1>1, <1>2, <2>3 DEF OnDay
    <3> QED BY <3>1 DEF Caps, DailyCap
  <2> QED BY <2>2, <2>3
<1>5. HourlyCap'
  <2> SUFFICES ASSUME NEW t \in Tenants, NEW start \in Times
               PROVE  Cardinality(Window(t, start)') <= TenantLimit
    BY DEF HourlyCap, Window
  <2>1. IsFiniteSet(Window(t, start)) /\ Cardinality(Window(t, start)) \in Nat
    BY <1>2, FS_Subset, FS_CardinalityType DEF Window
  <2>2. CASE t = run.tenant /\ start <= run.now /\ run.now < start + Hour
    <3>1. Window(t, start)' = Window(t, start) \cup {new}
      BY <1>1, <1>2, <2>2 DEF Window
    <3>2. Window(t, start) \subseteq InLastHour(run.tenant, run.now)
      BY <2>2, <1>1, WindowCounted
    <3>3. IsFiniteSet(InLastHour(run.tenant, run.now))
      BY <1>2, FS_Subset DEF InLastHour
    <3>4. /\ Cardinality(InLastHour(run.tenant, run.now)) \in Nat
          /\ Cardinality(Window(t, start)) <= Cardinality(InLastHour(run.tenant, run.now))
      BY <3>2, <3>3, FS_Subset, FS_CardinalityType
    <3>5. /\ Cardinality(Window(t, start)') \in Nat
          /\ Cardinality(Window(t, start)') <= Cardinality(Window(t, start)) + 1
      BY <3>1, <2>1, OneMore
    <3> QED BY <3>4, <3>5, <2>1, LimitAssumption
  <2>3. CASE ~(t = run.tenant /\ start <= run.now /\ run.now < start + Hour)
    <3>1. Window(t, start)' = Window(t, start)
      BY <1>1, <1>2, <2>3 DEF Window
    <3> QED BY <3>1 DEF Caps, HourlyCap, Window
  <2> QED BY <2>2, <2>3
<1> QED BY <1>3, <1>4, <1>5 DEF Caps

\* Every step keeps the caps; only a reservation touches the table.
LEMMA NextCaps == TypeOK /\ Caps /\ [Next]_vars => Caps'
<1> SUFFICES ASSUME TypeOK, Caps, [Next]_vars PROVE Caps'
  OBVIOUS
<1>1. CASE UNCHANGED attempts
  BY <1>1 DEF Caps, DailyCap, HourlyCap, OnDay
<1>2. CASE Reserve
  <2>1. CASE run' = Idle /\ UNCHANGED attempts
    BY <1>1, <2>1
  <2>2. CASE ~(\/ Cardinality(OnDay(run.day)) >= DailyLimit
               \/ Cardinality(InLastHour(run.tenant, run.now)) >= TenantLimit)
    <3>1. run.tenant \in Tenants
      BY <1>2 DEF Reserve, TypeOK
    <3>2. IsFiniteSet(OnDay(run.day)) /\ IsFiniteSet(InLastHour(run.tenant, run.now))
      BY FS_Subset DEF Caps, OnDay, InLastHour
    <3>3. /\ Cardinality(OnDay(run.day)) \in Nat
          /\ Cardinality(InLastHour(run.tenant, run.now)) \in Nat
      BY <3>2, FS_CardinalityType
    <3>4. /\ Cardinality(OnDay(run.day)) < DailyLimit
          /\ Cardinality(InLastHour(run.tenant, run.now)) < TenantLimit
      BY <2>2, <3>3, LimitAssumption
    <3>5. PICK id \in Ids :
            attempts' = attempts \cup
              {[id |-> id, day |-> run.day, tenant |-> run.tenant, at |-> run.now]}
      BY <1>2, <2>2 DEF Reserve
    <3> QED BY <3>1, <3>4, <3>5, ReserveCaps
  <2> QED BY <1>2, <2>1, <2>2 DEF Reserve
<1>3. ~Reserve => UNCHANGED attempts
  BY DEF Next, Running, vars, Tick, Look, ParkedDone, NothingToClaim, AskDay, AskNow, Click,
         Leave, Challenge, Restart, TakeUp, Claim
<1> QED BY <1>1, <1>2, <1>3

\* reserveTenantSubmission(): no day has more attempts than its limit, whatever
\* day() said when the transaction got the file.
THEOREM Daily == Spec => []DailyCap
<1>1. Init => TypeOK /\ Caps
  BY InitTypes, InitCaps
<1>2. (TypeOK /\ Caps) /\ [Next]_vars => (TypeOK /\ Caps)'
  BY NextTypes, NextCaps
<1>3. TypeOK /\ Caps => DailyCap
  BY DEF Caps
<1> QED BY <1>1, <1>2, <1>3, PTL DEF Spec

\* Five attempts per rolling hour: in no hour of any clock has an employer more.
THEOREM Hourly == Spec => []HourlyCap
<1>1. Init => TypeOK /\ Caps
  BY InitTypes, InitCaps
<1>2. (TypeOK /\ Caps) /\ [Next]_vars => (TypeOK /\ Caps)'
  BY NextTypes, NextCaps
<1>3. TypeOK /\ Caps => HourlyCap
  BY DEF Caps
<1> QED BY <1>1, <1>2, <1>3, PTL DEF Spec

-----------------------------------------------------------------------------
(* The submits. *)

\* A later instant is not on an earlier day, and days are numbers.
LEMMA DaysPass ==
  /\ \A d \in Days : d \in Nat
  /\ \A t \in Times : t \in Nat /\ DayOf(t) \in Days
  /\ \A t, u \in Times : t <= u => DayOf(t) <= DayOf(u)
<1>1. \A d \in Days : d \in Nat
  BY DEF Days
<1>2. \A t \in Times : t \in Nat /\ DayOf(t) \in Days
  BY LaterDay, TimeAssumption DEF Times
<1>3. ASSUME NEW t \in Times, NEW u \in Times, t <= u PROVE DayOf(t) <= DayOf(u)
  <2> DEFINE m == DayLength
             q == t \div m
             p == u \div m
  <2>1. t \in Nat /\ u \in Nat /\ m \in Nat \ {0}
    BY <1>2, TimeAssumption
  <2>2. q \in Nat /\ p \in Nat /\ q * m <= t /\ u < (p + 1) * m
    BY <2>1, SMTT(30)
  <2>3. SUFFICES ASSUME q > p PROVE FALSE
    BY <2>2 DEF DayOf
  <2>4. q >= p + 1
    BY <2>2, <2>3
  <2>5. q * m >= (p + 1) * m
    BY <2>1, <2>2, <2>4, SMTT(30)
  <2> HIDE DEF q, p, m
  <2> QED BY <1>3, <2>1, <2>2, <2>5, SMTT(30)
<1> QED BY <1>1, <1>2, <1>3

\* A submit on another day than that of its reservation.
Late(c) == \E a \in attempts : a.id = c.id /\ a.day # c.day

\* Every submit has a reservation, and one application at most is late on a day.
Sent ==
  /\ \A c \in clicks : c.day <= DayOf(clock) /\ \E a \in attempts : a.id = c.id
  /\ \A c, e \in clicks : Late(c) /\ Late(e) /\ c.day = e.day => c.id = e.id

\* A label is not ahead of the clock, and no other application was sent on a later day.
Labelled(day, id) ==
  day <= DayOf(clock) /\ \A c \in clicks : c.id = id \/ c.day <= day

\* The run in the browser asked for its day after the submits of all the runs before.
UnderWay ==
  /\ run.step \in {"day", "now"} => Labelled(run.day, None)
  /\ run.step \in {"reserved", "sent"} =>
       \E a \in attempts : a.id = run.id /\ Labelled(a.day, run.id)

\* Nothing was sent and nothing is under way.
LEMMA InitSent == Init => Sent /\ UnderWay
BY DEF Init, Sent, UnderWay, Idle

\* A step that neither reserves nor submits, and keeps what is under way or drops it.
LEMMA StillSent ==
  ASSUME TypeOK, TypeOK', Sent, UnderWay, UNCHANGED <<attempts, clicks>>,
         clock <= clock',
         \/ run' = run
         \/ run'.step \notin {"day", "now", "reserved", "sent"}
         \/ run'.step \in {"day", "now"} /\ Labelled(run'.day, None) /\ UNCHANGED clock
  PROVE  Sent' /\ UnderWay'
<1>1. DayOf(clock) <= DayOf(clock') /\ DayOf(clock) \in Nat /\ DayOf(clock') \in Nat
  BY DaysPass DEF TypeOK
<1>2. Sent'
  <2>1. \A c \in clicks' : c.day <= DayOf(clock')
    BY <1>1, DaysPass DEF Sent, TypeOK, Clicks
  <2>2. \A c \in clicks : Late(c) <=> Late(c)'
    BY DEF Late
  <2>3. DayOf(clock)' = DayOf(clock')
    BY DEF DayOf
  <2> QED BY <2>1, <2>2, <2>3 DEF Sent
<1>3. ASSUME NEW day \in Days, NEW id, Labelled(day, id) PROVE Labelled(day, id)'
  <2>1. DayOf(clock)' = DayOf(clock')
    BY DEF DayOf
  <2> QED BY <1>1, <1>3, <2>1, DaysPass DEF Labelled
<1>4. CASE run' = run
  <2>1. run.step \in {"day", "now"} => Labelled(run.day, None)'
    BY <1>3, <1>4 DEF UnderWay, TypeOK
  <2>2. \A a \in attempts : a.day \in Days
    BY DEF TypeOK, Attempts
  <2>3. run.step \in {"reserved", "sent"} =>
          \E a \in attempts : a.id = run.id /\ Labelled(a.day, run.id)'
    BY <1>3, <1>4, <2>2 DEF UnderWay
  <2> QED BY <1>2, <1>4, <2>1, <2>3 DEF UnderWay, Labelled
<1>5. CASE run'.step \notin {"day", "now", "reserved", "sent"}
  BY <1>2, <1>5 DEF UnderWay
<1>6. CASE run'.step \in {"day", "now"} /\ Labelled(run'.day, None) /\ UNCHANGED clock
  BY <1>2, <1>6 DEF UnderWay, Labelled
<1> QED BY <1>4, <1>5, <1>6

\* A fresh id is the id of no submit.
LEMMA ReserveSent ==
  ASSUME TypeOK, Sent, UnderWay, run.step = "now",
         NEW id \in Ids \ {a.id : a \in attempts}, NEW new, new.id = id, new.day = run.day,
         attempts' = attempts \cup {new}, UNCHANGED <<clock, clicks>>,
         run'.step = "reserved", run'.id = id
  PROVE  Sent' /\ UnderWay'
<1>1. \A c \in clicks : c.id # id
  BY DEF Sent
<1>2. \A c \in clicks : Late(c) <=> Late(c)'
  BY <1>1 DEF Late
<1>3. Sent'
  BY <1>2 DEF Sent
<1>4. \A c \in clicks : c.id # None
  BY NoneAssumption DEF TypeOK, Clicks
<1>5. Labelled(new.day, id)'
  BY <1>4 DEF UnderWay, Labelled
<1> QED BY <1>3, <1>5 DEF UnderWay

\* A late submit is of the first application of its day: its label is older than the
\* day, and no other application was sent on a later day than its label.
LEMMA ClickSent == TypeOK /\ Sent /\ UnderWay /\ Click => Sent' /\ UnderWay'
<1> SUFFICES ASSUME TypeOK, Sent, UnderWay, Click PROVE Sent' /\ UnderWay'
  OBVIOUS
<1> DEFINE new == [id |-> run.id, day |-> DayOf(clock)]
<1>1. new.id = run.id /\ new.day = DayOf(clock)
  OBVIOUS
<1>2. /\ clicks' = clicks \cup {new} /\ UNCHANGED <<clock, attempts>>
      /\ run.step \in {"reserved", "sent"}
  BY DEF Click
<1> HIDE DEF new
<1>3. PICK a \in attempts : a.id = run.id /\ Labelled(a.day, run.id)
  BY <1>2 DEF UnderWay
<1>4. \A b \in attempts : b.id = run.id => b = a
  BY <1>3 DEF TypeOK
<1>5. clock \in Nat /\ a.day \in Nat /\ DayOf(clock) \in Nat
      /\ \A c \in clicks : c.day \in Nat
  BY DaysPass DEF TypeOK, Attempts, Clicks
<1>6. ASSUME Late(new), NEW c \in clicks, c.id # new.id PROVE c.day # new.day
  <2>1. a.day # DayOf(clock)
    BY <1>1, <1>4, <1>6 DEF Late
  <2>2. a.day <= DayOf(clock) /\ c.day <= a.day
    BY <1>1, <1>3, <1>6 DEF Labelled
  <2> QED BY <1>1, <1>5, <2>1, <2>2
<1>7. \A c \in clicks' : c.day <= DayOf(clock) /\ \E b \in attempts : b.id = c.id
  BY <1>1, <1>2, <1>3, <1>5 DEF Sent
<1>8. \A c, e \in clicks' : Late(c) /\ Late(e) /\ c.day = e.day => c.id = e.id
  BY <1>2, <1>6 DEF Sent
<1>9. \A c : Late(c) <=> Late(c)'
  BY <1>2 DEF Late
<1>10. Sent'
  BY <1>2, <1>7, <1>8, <1>9 DEF Sent
<1>11. run'.step = "sent" /\ run'.id = run.id
  BY DEF Click, TypeOK
<1>12. Labelled(a.day, run.id)'
  BY <1>1, <1>2, <1>3, <1>11 DEF Labelled
<1> QED BY <1>2, <1>3, <1>10, <1>11, <1>12 DEF UnderWay

\* Every step keeps the accounts of the submits.
LEMMA NextSent ==
  TypeOK /\ TypeOK' /\ Sent /\ UnderWay /\ [Next]_vars => Sent' /\ UnderWay'
<1> SUFFICES ASSUME TypeOK, TypeOK', Sent, UnderWay, [Next]_vars PROVE Sent' /\ UnderWay'
  OBVIOUS
<1>0. clock \in Nat /\ Idle.step = "idle"
  BY DaysPass DEF TypeOK, Idle
<1>1. CASE Tick
  <2>1. clock <= clock' /\ UNCHANGED <<attempts, clicks, run>>
    BY <1>0, <1>1, DaysPass DEF Tick
  <2> QED BY <2>1, StillSent
<1>2. CASE UNCHANGED <<clock, attempts, clicks, run>>
  BY <1>0, <1>2, StillSent
<1>3. CASE UNCHANGED <<clock, attempts, clicks>> /\ run'.step \in {"idle", "form"}
  BY <1>0, <1>3, StillSent
<1>4. CASE AskDay
  <2>1. run'.step = "day" /\ run'.day = DayOf(clock) /\ UNCHANGED <<clock, attempts, clicks>>
    BY <1>4 DEF AskDay, TypeOK
  <2>2. \A c \in clicks : c.day <= DayOf(clock)
    BY DEF Sent
  <2>3. Labelled(run'.day, None)
    BY <2>1, <2>2, DaysPass DEF Labelled, TypeOK
  <2> QED BY <1>0, <2>1, <2>3, StillSent
<1>5. CASE AskNow
  <2>1. run'.step = "now" /\ run'.day = run.day /\ run.step = "day"
        /\ UNCHANGED <<clock, attempts, clicks>>
    BY <1>5 DEF AskNow, TypeOK
  <2>2. Labelled(run'.day, None)
    BY <2>1 DEF UnderWay
  <2> QED BY <1>0, <2>1, <2>2, StillSent
<1>6. CASE Reserve
  <2>1. CASE run' = Idle /\ UNCHANGED attempts
    BY <1>0, <1>3, <1>6, <2>1 DEF Reserve
  <2>2. ASSUME NEW id \in Ids \ {a.id : a \in attempts},
               attempts' = attempts \cup
                 {[id |-> id, day |-> run.day, tenant |-> run.tenant, at |-> run.now]},
               run' = [Idle EXCEPT !.tenant = run.tenant, !.step = "reserved", !.id = id]
        PROVE  Sent' /\ UnderWay'
    <3> DEFINE new == [id |-> id, day |-> run.day, tenant |-> run.tenant, at |-> run.now]
    <3>1. new.id = id /\ new.day = run.day /\ attempts' = attempts \cup {new}
      BY <2>2
    <3>2. run'.step = "reserved" /\ run'.id = id
      BY <2>2 DEF Idle
    <3>3. run.step = "now" /\ UNCHANGED <<clock, clicks>>
      BY <1>6 DEF Reserve
    <3> HIDE DEF new
    <3> QED BY <3>1, <3>2, <3>3, ReserveSent
  <2> QED BY <1>6, <2>1, <2>2 DEF Reserve
<1>7. CASE Click
  BY <1>7, ClickSent
<1>8. CASE Look \/ ParkedDone \/ NothingToClaim
  BY <1>2, <1>8 DEF Look, ParkedDone, NothingToClaim
<1>9. CASE Leave \/ Challenge \/ Restart
  BY <1>0, <1>3, <1>9 DEF Leave, Challenge, Restart
<1>10. ASSUME NEW t \in Tenants, TakeUp(t) \/ Claim(t) PROVE Sent' /\ UnderWay'
  <2>1. run'.step = "form" /\ UNCHANGED <<clock, attempts, clicks>>
    BY <1>10 DEF TakeUp, Claim, Open, Idle
  <2> QED BY <1>3, <2>1
<1>11. CASE UNCHANGED vars
  BY <1>2, <1>11 DEF vars
<1> QED BY <1>1, <1>4, <1>5, <1>6, <1>7, <1>8, <1>9, <1>10, <1>11 DEF Next, Running

\* The applications that were reserved on a day are as many as its attempts at most; of
\* those that were sent on it one at most was reserved on another.
LEMMA OneOver == TypeOK /\ Caps /\ Sent => ClicksPerDay
<1> SUFFICES ASSUME TypeOK, Caps, Sent, NEW d \in Days
             PROVE  Cardinality({c.id : c \in {e \in clicks : e.day = d}}) <= DailyLimit + 1
  BY DEF ClicksPerDay
<1> DEFINE sent == {c.id : c \in {e \in clicks : e.day = d}}
           onTime == {a.id : a \in OnDay(d)}
           late == {c.id : c \in {e \in clicks : e.day = d /\ Late(e)}}
           f == [a \in OnDay(d) |-> a.id]
<1>1. IsFiniteSet(OnDay(d)) /\ Cardinality(OnDay(d)) \in Nat
      /\ Cardinality(OnDay(d)) <= DailyLimit
  BY FS_Subset, FS_CardinalityType DEF Caps, DailyCap, OnDay
<1>2. f \in Surjection(OnDay(d), onTime)
  BY DEF Surjection
<1>3. sent \subseteq onTime \cup late
  BY DEF Late, Sent, OnDay
<1>4. \A i, j \in late : i = j
  BY DEF Sent
<1> HIDE DEF f, onTime, late, sent
<1>5. IsFiniteSet(onTime) /\ Cardinality(onTime) \in Nat
      /\ Cardinality(onTime) <= Cardinality(OnDay(d))
  BY <1>1, <1>2, FS_Surjection, FS_CardinalityType
<1>6. PICK x : late \subseteq {x}
  <2>1. CASE late = {}
    BY <2>1
  <2>2. CASE late # {}
    BY <1>4, <2>2
  <2> QED BY <2>1, <2>2
<1>7. /\ IsFiniteSet(onTime \cup {x}) /\ Cardinality(onTime \cup {x}) \in Nat
      /\ Cardinality(onTime \cup {x}) <= Cardinality(onTime) + 1
  BY <1>5, OneMore
<1>8. /\ Cardinality(sent) \in Nat
      /\ Cardinality(sent) <= Cardinality(onTime \cup {x})
  BY <1>3, <1>6, <1>7, FS_Subset, FS_CardinalityType
<1> QED BY <1>1, <1>5, <1>7, <1>8, LimitAssumption DEF sent

\* On no day do the employers see submits of more applications than the limit and one,
\* for every limit, however long the runs take and however often each of them presses:
\* what is late is the last reservation of an earlier day.
THEOREM ClicksDaily == Spec => []ClicksPerDay
<1> DEFINE I == TypeOK /\ Caps /\ Sent /\ UnderWay
<1>1. Init => I
  BY InitTypes, InitCaps, InitSent
<1>2. I /\ [Next]_vars => I'
  BY NextTypes, NextCaps, NextSent
<1>3. I => ClicksPerDay
  BY OneOver
<1> QED BY <1>1, <1>2, <1>3, PTL DEF Spec

-----------------------------------------------------------------------------
(* The cooldowns. *)

\* Past the top of the loop, an employer that is cooling was seen to be cooling or was
\* met in this iteration.
Resting ==
  pass.step # "top" => \A t \in Tenants : until[t] > clock => t \in pass.cooling \cup pass.cooled

\* Cooldowns only end as the clock moves, and are only set where the iteration notes it.
LEMMA NextResting == TypeOK /\ TypeOK' /\ Resting /\ [Next]_vars => Resting'
<1> SUFFICES ASSUME TypeOK, TypeOK', Resting, [Next]_vars PROVE Resting'
  OBVIOUS
<1>0. clock \in Nat /\ clock' \in Nat /\ \A t \in Tenants : until[t] \in Nat
  BY DaysPass, TimeAssumption DEF TypeOK
<1>1. CASE Tick
  <2>1. clock <= clock' /\ UNCHANGED <<until, pass>>
    BY <1>0, <1>1 DEF Tick
  <2>2. \A t \in Tenants : until'[t] > clock' => until[t] > clock
    BY <1>0, <2>1
  <2> QED BY <2>1, <2>2 DEF Resting
<1>2. CASE Look
  BY <1>2 DEF Look, CoolingAt, Resting
<1>3. CASE pass'.step = "top"
  BY <1>3 DEF Resting
<1>4. CASE ParkedDone
  <2>1. /\ pass.step # "top" /\ pass'.cooling = pass.cooling /\ pass'.cooled = pass.cooled
        /\ UNCHANGED <<until, clock>>
    BY <1>4 DEF ParkedDone, TypeOK
  <2> QED BY <2>1 DEF Resting
<1>5. CASE Challenge
  <2>1. /\ pass'.step = pass.step /\ pass'.cooling = pass.cooling
        /\ pass'.cooled = pass.cooled \cup {run.tenant} /\ UNCHANGED clock
    BY <1>5 DEF Challenge, TypeOK
  <2>2. \A t \in Tenants : t # run.tenant => until'[t] = until[t]
    BY <1>5 DEF Challenge, TypeOK
  <2> QED BY <2>1, <2>2 DEF Resting
<1>6. CASE UNCHANGED <<clock, until, pass>>
  BY <1>6 DEF Resting
<1>7. CASE NothingToClaim \/ Restart
  BY <1>3, <1>7 DEF NothingToClaim, Restart, Top
<1>8. ASSUME NEW t \in Tenants, TakeUp(t) \/ Claim(t) PROVE Resting'
  <2>1. CASE TakeUp(t)
    BY <1>6, <2>1 DEF TakeUp
  <2>2. CASE Claim(t)
    BY <1>3, <2>2 DEF Claim, Top
  <2> QED BY <1>8, <2>1, <2>2
<1>9. CASE AskDay \/ AskNow \/ Reserve \/ Click \/ Leave \/ UNCHANGED vars
  BY <1>6, <1>9 DEF AskDay, AskNow, Reserve, Click, Leave, vars
<1> QED BY <1>1, <1>2, <1>4, <1>5, <1>7, <1>8, <1>9 DEF Next, Running

\* A challenge keeps the worker away from its employer from the next iteration on,
\* for every number of employers, clock and restart: the cooldown is in the file.
THEOREM StaysAway == Spec => LaterPassesRest
<1> DEFINE I == TypeOK /\ Resting
           Step == \A t \in Tenants : OpensCooling(t) => t \in pass.cooled
<1>1. Init => I
  BY InitTypes DEF Init, Top, Resting
<1>2. I /\ [Next]_vars => I'
  BY NextTypes, NextResting
<1>3. I /\ [Next]_vars => [Step]_vars
  <2> SUFFICES ASSUME I, Next, NEW t \in Tenants, OpensCooling(t) PROVE t \in pass.cooled
    BY DEF vars
  <2>1. run = Idle /\ run'.tenant = t /\ ~run'.resumed /\ until[t] > clock
    BY DEF OpensCooling, CoolingAt
  <2>2. Idle.tenant = None /\ Idle.step = "idle" /\ None # t
    BY NoneAssumption DEF Idle
  <2>3. PICK u \in Tenants : TakeUp(u) \/ Claim(u)
    BY <2>1, <2>2 DEF Next, Running, Tick, Look, ParkedDone, NothingToClaim, AskDay, AskNow,
                      Reserve, Click, Leave, Challenge, Restart
  <2>4. u = t
    BY <2>1, <2>3 DEF TakeUp, Claim, Open, Idle
  <2>5. t \notin pass.cooling /\ pass.step # "top"
    BY <2>1, <2>3, <2>4 DEF TakeUp, Claim, Open, Idle
  <2> QED BY <2>1, <2>5 DEF Resting
<1> QED BY <1>1, <1>2, <1>3, PTL DEF Spec, LaterPassesRest
=============================================================================
