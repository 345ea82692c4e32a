----------------------- MODULE OutreachHosted_proofs -----------------------
(***************************************************************************)
(* What the hosted outreach page promises for every number of contacts,     *)
(* requests, tries and days, every cap and every schedule of follow-ups:    *)
(* a click whose read was not empty keeps what others recorded, and, until  *)
(* a write drops a row, a gate that saw the rows holds back the mails it is *)
(* there to hold back.                                                      *)
(***************************************************************************)
EXTENDS OutreachHosted, FiniteSetTheorems, TLAPS

-----------------------------------------------------------------------------
(* The inductive invariant, on top of the types. *)

Row == RowsOf(Days, Requests)

Touch(state, a) == RowOf(state, a).touch
Sends(state, a) == ToSet(RowOf(state, a).sentAt)

\* A row has no more stamps than touches.
Numbered ==
  \A a \in Contacts :
    /\ Len(RowOf(rows, a).sentAt) <= Touch(rows, a)
    /\ Len(RowOf(build.local, a).sentAt) <= Touch(build.local, a)

\* A request is on its way, or past its gates.
Active(r) == Step(r) \in {"gate", "read", "put", "done"}
Through(r) == Step(r) \in {"read", "put", "done"}

\* The days a request can have.
Dated ==
  \A r \in Requests :
    /\ req[r].day <= today
    /\ Step(r) \in {"gate", "read", "put"} => req[r].day = today
    /\ Recorded(r) => req[r].kind \in {"open", "sent"}
    /\ req[r].before # {} => Through(r)
    /\ \A s \in req[r].before : Recorded(s)
    /\ Active(r) /\ req[r].kind = "open" => req[r].draft # {}

\* The workflow and the published drafts know of nothing that is not in the rows.
Behind ==
  /\ \A a \in Contacts :
       /\ Touch(build.local, a) <= Touch(rows, a)
       /\ Sends(build.local, a) \subseteq Sends(rows, a)
  /\ \A a \in DOMAIN build.drafts : build.drafts[a] <= Touch(rows, a)
  /\ \A a \in DOMAIN batch : batch[a] <= Touch(rows, a)
  /\ \A r \in Requests : Active(r) =>
       \A touch \in req[r].draft : touch <= Touch(rows, req[r].to)

\* A recorded send is on file, and made a touch its draft had not.
Filed ==
  \A r \in Requests : Recorded(r) =>
    /\ [day |-> req[r].day, by |-> r] \in Sends(rows, req[r].to)
    /\ req[r].made \in 1..Touch(rows, req[r].to)
    /\ \A touch \in req[r].draft : touch < req[r].made

\* A flag that was on file when a request came in is on file still.
Flagged ==
  \A r \in Requests : Active(r) =>
    /\ req[r].answered => RowOf(rows, req[r].to).flags # {}
    /\ Through(r) /\ req[r].kind = "open" /\ ~req[r].blind => ~req[r].answered

\* When the gap after a recorded send is over.
Over(r) == req[r].day + GapFor(req[r].made)

\* Rows that have a recorded send fall due after its gap; drafts built on it were.
Spaced ==
  \A r \in Requests : Recorded(r) =>
    LET a == req[r].to IN
    /\ Over(r) <= RowOf(rows, a).due
    /\ req[r].made <= Touch(build.local, a) => Over(r) <= RowOf(build.local, a).due
    /\ a \in DOMAIN build.drafts /\ req[r].made <= build.drafts[a] => Over(r) <= today
    /\ a \in DOMAIN batch /\ req[r].made <= batch[a] => Over(r) <= today
    /\ \A s \in Requests : Active(s) /\ req[s].to = a =>
         \A touch \in req[s].draft : req[r].made <= touch => Over(r) <= req[s].day

\* Past gates that saw the rows, a request knew of no send of its contact that its draft
\* had not.
Known ==
  \A s \in Requests : \A r \in req[s].before :
    ~req[s].blind /\ req[r].to = req[s].to => \A touch \in req[s].draft : req[r].made <= touch

\* The sends a request counted when it was let through.
Counted(s) == {r \in req[s].before : Recorded(r) /\ req[r].day + 1 >= req[s].day}
Capped ==
  \A s \in Requests :
    Through(s) /\ req[s].kind = "open" /\ ~req[s].blind => Cardinality(Counted(s)) < Cap

Kept == Behind /\ Filed /\ Flagged /\ Spaced /\ Known /\ Capped

IInv == TypeOK /\ Numbered /\ Dated /\ (~lost => Kept)

-----------------------------------------------------------------------------
(* Sequences and sets. *)

\* What is in a sequence.
LEMMA ToSetFacts ==
  ASSUME NEW T, NEW s \in Seq(T)
  PROVE  /\ ToSet(s) \subseteq T /\ IsFiniteSet(ToSet(s))
         /\ Cardinality(ToSet(s)) \in Nat /\ Cardinality(ToSet(s)) <= Len(s)
         /\ Len(s) \in Nat
         /\ \A x \in T : ToSet(Append(s, x)) = ToSet(s) \cup {x}
<1>1. Len(s) \in Nat /\ DOMAIN s = 1..Len(s)
  OBVIOUS
<1>2. ToSet(s) \subseteq T
  BY <1>1 DEF ToSet
<1>3. IsFiniteSet(1..Len(s)) /\ Cardinality(1..Len(s)) = Len(s)
  BY <1>1, FS_Interval
<1>4. [i \in 1..Len(s) |-> s[i]] \in Surjection(1..Len(s), ToSet(s))
  BY <1>1 DEF Surjection, ToSet
<1>5. IsFiniteSet(ToSet(s)) /\ Cardinality(ToSet(s)) <= Len(s)
  BY <1>3, <1>4, FS_Surjection
<1>6. Cardinality(ToSet(s)) \in Nat
  BY <1>5, FS_CardinalityType
<1>7. ASSUME NEW x \in T PROVE ToSet(Append(s, x)) = ToSet(s) \cup {x}
  <2> DEFINE t == Append(s, x)
  <2>1. DOMAIN t = 1..(Len(s) + 1) /\ t[Len(s) + 1] = x /\ \A i \in 1..Len(s) : t[i] = s[i]
    BY <1>1
  <2> HIDE DEF t
  <2>2. 1..(Len(s) + 1) = 1..Len(s) \cup {Len(s) + 1}
    BY <1>1
  <2>3. ToSet(t) = ToSet(s) \cup {x}
    BY <1>1, <2>1, <2>2 DEF ToSet
  <2> QED BY <2>3 DEF t
<1> QED BY <1>1, <1>2, <1>5, <1>6, <1>7

\* A sequence over a set is one over a larger set.
LEMMA SeqOfSubset ==
  ASSUME NEW S, NEW T, S \subseteq T, NEW s \in Seq(S)
  PROVE  s \in Seq(T)
<1>1. Len(s) \in Nat /\ s \in [1..Len(s) -> S]
  OBVIOUS
<1>2. s \in [1..Len(s) -> T]
  BY <1>1
<1> QED BY <1>1, <1>2

\* A finite set in some order.
LEMMA SetToSeqFacts ==
  ASSUME NEW S, IsFiniteSet(S)
  PROVE  SetToSeq(S) \in Seq(S) /\ Len(SetToSeq(S)) = Cardinality(S) /\ ToSet(SetToSeq(S)) = S
<1> DEFINE n == Cardinality(S)
           s == SetToSeq(S)
<1>1. n \in Nat
  BY FS_CardinalityType
<1>2. ExistsBijection(1..n, S)
  BY FS_CardinalityType
<1>3. \E f \in [1..n -> S] : IsInjective(f)
  BY <1>2 DEF ExistsBijection, Bijection, Injection
<1>4. s \in [1..n -> S] /\ IsInjective(s)
  BY <1>3 DEF SetToSeq
<1>5. s \in Injection(1..n, S) /\ IsFiniteSet(1..n) /\ Cardinality(1..n) = n
  BY <1>1, <1>4, FS_Interval DEF Injection
<1> HIDE DEF s, n
<1>6. s \in Surjection(1..n, S)
  BY <1>5, FS_Injection DEF n
<1>7. s \in Seq(S) /\ Len(s) = n
  BY <1>1, <1>4
<1>8. ToSet(s) = S
  BY <1>4, <1>6 DEF ToSet, Surjection
<1> QED BY <1>7, <1>8 DEF s, n

-----------------------------------------------------------------------------
(* Gaps. *)

\* Gaps are numbers of days and do not shrink from one touch to the next.
LEMMA GapFacts ==
  /\ \A t \in Nat : GapFor(t) \in Nat
  /\ \A t, u \in Nat : t <= u => GapFor(t) <= GapFor(u)
<1>1. Len(Gaps) \in Nat /\ Len(Gaps) >= 1 /\ DOMAIN Gaps = 1..Len(Gaps)
      /\ \A i \in 1..Len(Gaps) : Gaps[i] \in Nat
  BY GapsAssumption
<1>2. \A t \in Nat : t # 0 => (IF t < Len(Gaps) THEN t ELSE Len(Gaps)) \in 1..Len(Gaps)
  BY <1>1
<1>3. \A t \in Nat : GapFor(t) \in Nat
  BY <1>1, <1>2 DEF GapFor
<1>4. ASSUME NEW t \in Nat, NEW u \in Nat, t <= u PROVE GapFor(t) <= GapFor(u)
  <2>1. CASE t = 0
    BY <1>3, <2>1 DEF GapFor
  <2>2. CASE t # 0
    <3> DEFINE i == IF t < Len(Gaps) THEN t ELSE Len(Gaps)
               j == IF u < Len(Gaps) THEN u ELSE Len(Gaps)
    <3>1. u # 0 /\ i \in DOMAIN Gaps /\ j \in DOMAIN Gaps /\ i <= j
      BY <1>1, <1>2, <1>4, <2>2
    <3>2. Gaps[i] <= Gaps[j]
      BY <3>1, GapsAssumption
    <3> QED BY <2>2, <3>1, <3>2 DEF GapFor
  <2> QED BY <2>1, <2>2
<1> QED BY <1>3, <1>4

-----------------------------------------------------------------------------
(* States. *)

\* A function over contacts whose values are rows is a state.
LEMMA StateIntro ==
  ASSUME NEW D \in SUBSET Contacts, NEW f \in [D -> Row]
  PROVE  IsState(f, Days, Requests)
BY DEF IsState, Row

\* No rows, and the row of a contact that has none.
LEMMA NoRows ==
  /\ IsState(<<>>, Days, Requests) /\ DOMAIN <<>> = {}
  /\ Blank \in Row
  /\ \A a : RowOf(<<>>, a) = Blank
  /\ Blank.touch = 0 /\ Blank.sentAt = <<>> /\ Blank.due = 0 /\ Blank.flags = {}
<1>1. <<>> \in [{} -> Row] /\ DOMAIN <<>> = {}
  OBVIOUS
<1>2. IsState(<<>>, Days, Requests)
  BY <1>1, StateIntro
<1>3. <<>> \in Seq([day : Days, by : Requests])
  OBVIOUS
<1>4. Blank \in Row
  BY <1>3 DEF Blank, Row, RowsOf, Flags
<1>5. \A a : RowOf(<<>>, a) = Blank
  BY <1>1 DEF RowOf
<1> QED BY <1>1, <1>2, <1>4, <1>5 DEF Blank

\* What a row holds.
LEMMA RowFields ==
  ASSUME NEW q \in Row
  PROVE  /\ q.touch \in Nat /\ q.due \in Nat /\ q.flags \subseteq Flags
         /\ q.sentAt \in Seq([day : Days, by : Requests])
         /\ Len(q.sentAt) \in Nat
BY DEF Row, RowsOf

\* Every contact has a row in every state, be it the blank one.
LEMMA StateRows ==
  ASSUME NEW state, IsState(state, Days, Requests)
  PROVE  /\ DOMAIN state \subseteq Contacts
         /\ \A a \in DOMAIN state : state[a] \in Row /\ RowOf(state, a) = state[a]
         /\ \A a : RowOf(state, a) \in Row
         /\ \A a : a \notin DOMAIN state => RowOf(state, a) = Blank
<1>1. PICK D \in SUBSET Contacts : state \in [D -> Row]
  BY DEF IsState, Row
<1>2. DOMAIN state = D /\ \A a \in D : state[a] \in Row
  BY <1>1
<1> QED BY <1>2, NoRows DEF RowOf

\* One more send of a contact.
LEMMA WithSendFacts ==
  ASSUME NEW state, IsState(state, Days, Requests), NEW a \in Contacts,
         NEW stamp \in [day : Days, by : Requests], NEW t \in Nat
  PROVE  LET new == WithSend(state, a, stamp, t) IN
         /\ IsState(new, Days, Requests)
         /\ \A c : c # a => RowOf(new, c) = RowOf(state, c)
         /\ Touch(new, a) = Touch(state, a) + 1
         /\ RowOf(new, a).sentAt = Append(RowOf(state, a).sentAt, stamp)
         /\ RowOf(new, a).due = t + GapFor(Touch(state, a) + 1)
         /\ RowOf(new, a).flags = RowOf(state, a).flags
         /\ DOMAIN state \subseteq DOMAIN new
<1> DEFINE prev == RowOf(state, a)
           row == [touch |-> prev.touch + 1, sentAt |-> Append(prev.sentAt, stamp),
                   due |-> t + GapAfter(prev.touch + 1), flags |-> prev.flags]
           D == DOMAIN state \cup {a}
           new == [c \in D |-> IF c # a THEN state[c] ELSE row]
<1>1. WithSend(state, a, stamp, t) = new
  BY DEF WithSend
<1>2. prev \in Row
  BY StateRows
<1>3. prev.touch + 1 \in Nat /\ Append(prev.sentAt, stamp) \in Seq([day : Days, by : Requests])
      /\ prev.flags \in SUBSET Flags /\ prev.touch \in Nat
  <2> HIDE DEF prev
  <2>1. prev.touch \in Nat /\ prev.flags \subseteq Flags
        /\ prev.sentAt \in Seq([day : Days, by : Requests])
    BY <1>2, RowFields
  <2>2. Append(prev.sentAt, stamp) \in Seq([day : Days, by : Requests])
    BY <2>1
  <2> QED BY <2>1, <2>2
<1>4. t + GapAfter(prev.touch + 1) \in Nat /\ GapAfter(prev.touch + 1) = GapFor(prev.touch + 1)
  <2> HIDE DEF prev
  <2>1. GapFor(prev.touch + 1) \in Nat
    BY <1>3, GapFacts
  <2> QED BY <2>1 DEF GapAfter
<1>5. row \in Row
  BY <1>3, <1>4 DEF Row, RowsOf
<1>6. /\ row.touch = prev.touch + 1 /\ row.sentAt = Append(prev.sentAt, stamp)
      /\ row.due = t + GapFor(prev.touch + 1) /\ row.flags = prev.flags
  BY <1>4
<1> HIDE DEF row
<1>7. D \in SUBSET Contacts /\ new \in [D -> Row]
  BY <1>5, StateRows
<1>8. IsState(new, Days, Requests)
  BY <1>7, StateIntro
<1>9. RowOf(new, a) = row /\ \A c : c # a => RowOf(new, c) = RowOf(state, c)
  BY DEF RowOf
<1>10. DOMAIN state \subseteq DOMAIN new
  OBVIOUS
<1> QED BY <1>1, <1>6, <1>8, <1>9, <1>10 DEF Touch

\* One more flag.
LEMMA WithFlagFacts ==
  ASSUME NEW state, IsState(state, Days, Requests), NEW a, NEW flag \in Flags
  PROVE  LET new == WithFlag(state, a, flag) IN
         /\ IsState(new, Days, Requests)
         /\ \A c : /\ Touch(new, c) = Touch(state, c)
                   /\ RowOf(new, c).sentAt = RowOf(state, c).sentAt
                   /\ RowOf(new, c).due = RowOf(state, c).due
                   /\ RowOf(state, c).flags \subseteq RowOf(new, c).flags
         /\ DOMAIN state \subseteq DOMAIN new
<1>1. CASE a \notin DOMAIN state
  BY <1>1 DEF WithFlag, Touch
<1>2. CASE a \in DOMAIN state
  <2> DEFINE flags == state[a].flags \cup
                        (IF flag = "bounced" THEN {"bounced", "skipped"} ELSE {flag})
             row == [state[a] EXCEPT !.flags = flags]
             new == [state EXCEPT ![a] = row]
  <2>1. WithFlag(state, a, flag) = new
    BY <1>2 DEF WithFlag
  <2>2. flags \subseteq Flags /\ state[a].flags \subseteq flags
    BY <1>2, StateRows, RowFields DEF Flags
  <2>3. state[a] \in Row
    BY <1>2, StateRows
  <2> HIDE DEF flags
  <2>4. row \in Row /\ row.touch = state[a].touch /\ row.sentAt = state[a].sentAt
        /\ row.due = state[a].due /\ row.flags = flags
    BY <2>2, <2>3 DEF Row, RowsOf
  <2> HIDE DEF row
  <2>5. PICK D \in SUBSET Contacts : state \in [D -> Row]
    BY DEF IsState, Row
  <2>6. new \in [D -> Row] /\ DOMAIN new = DOMAIN state
    BY <2>4, <2>5
  <2>7. IsState(new, Days, Requests)
    BY <2>6, StateIntro
  <2>8. RowOf(new, a) = row /\ RowOf(state, a) = state[a]
        /\ \A c : c # a => RowOf(new, c) = RowOf(state, c)
    BY <1>2, <2>5 DEF RowOf
  <2> QED BY <2>1, <2>2, <2>4, <2>6, <2>7, <2>8 DEF Touch
<1> QED BY <1>1, <1>2

\* Rows for drafts: a new one is blank but for its date.
LEMMA WithDraftsFacts ==
  ASSUME NEW state, IsState(state, Days, Requests), NEW drafts \in SUBSET Contacts,
         NEW t \in Nat
  PROVE  LET new == WithDrafts(state, drafts, t) IN
         /\ IsState(new, Days, Requests)
         /\ \A c : /\ Touch(new, c) = Touch(state, c)
                   /\ RowOf(new, c).sentAt = RowOf(state, c).sentAt
                   /\ (Touch(new, c) # 0 => RowOf(new, c).due = RowOf(state, c).due)
<1> DEFINE row == [Blank EXCEPT !.due = t]
           D == DOMAIN state \cup drafts
           new == [c \in D |-> IF c \in DOMAIN state THEN state[c] ELSE row]
<1>1. WithDrafts(state, drafts, t) = new
  BY DEF WithDrafts
<1>2. row \in Row /\ row.touch = 0 /\ row.sentAt = <<>>
  <2>1. <<>> \in Seq([day : Days, by : Requests])
    OBVIOUS
  <2> QED BY <2>1 DEF Blank, Row, RowsOf, Flags
<1> HIDE DEF row
<1>3. D \in SUBSET Contacts /\ new \in [D -> Row]
  BY <1>2, StateRows
<1>4. IsState(new, Days, Requests)
  BY <1>3, StateIntro
<1>5. ASSUME NEW c PROVE /\ Touch(new, c) = Touch(state, c)
                         /\ RowOf(new, c).sentAt = RowOf(state, c).sentAt
                         /\ (Touch(new, c) # 0 => RowOf(new, c).due = RowOf(state, c).due)
  <2>1. CASE c \in DOMAIN state \/ c \notin D
    BY <2>1 DEF RowOf, Touch
  <2>2. CASE c \notin DOMAIN state /\ c \in D
    BY <1>2, <2>2, NoRows DEF RowOf, Touch
  <2> QED BY <2>1, <2>2
<1> QED BY <1>1, <1>4, <1>5

\* A merge keeps what either side has: no send is dropped and no touch or due date of the
\* repository goes back (mergeState); where the local side knows no more than the
\* repository, the touches are the repository's.
LEMMA MergeFacts ==
  ASSUME NEW local, IsState(local, Days, Requests), NEW remote, IsState(remote, Days, Requests)
  PROVE  LET new == Merge(local, remote) IN
         /\ IsState(new, Days, Requests)
         /\ \A a : /\ Touch(new, a) >= Touch(local, a) /\ Touch(new, a) >= Touch(remote, a)
                   /\ Sends(new, a) = Sends(local, a) \cup Sends(remote, a)
                   /\ RowOf(new, a).due >= RowOf(remote, a).due
                   /\ (/\ Len(RowOf(local, a).sentAt) <= Touch(local, a)
                       /\ Len(RowOf(remote, a).sentAt) <= Touch(remote, a))
                      => Len(RowOf(new, a).sentAt) <= Touch(new, a)
                   /\ (/\ Touch(local, a) <= Touch(remote, a)
                       /\ Sends(local, a) \subseteq Sends(remote, a)
                       /\ Len(RowOf(remote, a).sentAt) <= Touch(remote, a))
                      => Touch(new, a) = Touch(remote, a)
<1> DEFINE D == DOMAIN local \cup DOMAIN remote
           sent(a) == ToSet(local[a].sentAt) \cup ToSet(remote[a].sentAt)
           both(a) == [touch  |-> Larger(Larger(local[a].touch, remote[a].touch),
                                         Cardinality(sent(a))),
                       sentAt |-> SetToSeq(sent(a)),
                       due    |-> Larger(local[a].due, remote[a].due),
                       flags  |-> local[a].flags \cup remote[a].flags]
           new == [a \in D |-> IF a \notin DOMAIN local THEN remote[a]
                               ELSE IF a \notin DOMAIN remote THEN local[a] ELSE both(a)]
           T == [day : Days, by : Requests]
<1>1. Merge(local, remote) = new
  BY DEF Merge
<1>2. ASSUME NEW a \in DOMAIN local \cap DOMAIN remote
      PROVE  /\ both(a) \in Row
             /\ both(a).touch >= local[a].touch /\ both(a).touch >= remote[a].touch
             /\ ToSet(both(a).sentAt) = sent(a)
             /\ both(a).due >= remote[a].due
             /\ Len(both(a).sentAt) <= both(a).touch
             /\ (/\ local[a].touch <= remote[a].touch
                 /\ ToSet(local[a].sentAt) \subseteq ToSet(remote[a].sentAt)
                 /\ Len(remote[a].sentAt) <= remote[a].touch)
                => both(a).touch = remote[a].touch
  <2>1. local[a] \in Row /\ remote[a] \in Row
    BY StateRows
  <2>2. /\ local[a].touch \in Nat /\ remote[a].touch \in Nat
        /\ local[a].due \in Nat /\ remote[a].due \in Nat
        /\ local[a].flags \subseteq Flags /\ remote[a].flags \subseteq Flags
        /\ local[a].sentAt \in Seq(T) /\ remote[a].sentAt \in Seq(T)
    BY <2>1, RowFields
  <2>3. /\ ToSet(local[a].sentAt) \subseteq T /\ ToSet(remote[a].sentAt) \subseteq T
        /\ IsFiniteSet(ToSet(local[a].sentAt)) /\ IsFiniteSet(ToSet(remote[a].sentAt))
        /\ Cardinality(ToSet(remote[a].sentAt)) <= Len(remote[a].sentAt)
        /\ Len(remote[a].sentAt) \in Nat
    BY <2>2, ToSetFacts
  <2>4. IsFiniteSet(sent(a)) /\ sent(a) \subseteq T
    BY <2>3, FS_Union
  <2>5. Cardinality(sent(a)) \in Nat
    BY <2>4, FS_CardinalityType
  <2>6. /\ SetToSeq(sent(a)) \in Seq(sent(a)) /\ Len(SetToSeq(sent(a))) = Cardinality(sent(a))
        /\ ToSet(SetToSeq(sent(a))) = sent(a)
    BY <2>4, SetToSeqFacts
  <2>7. SetToSeq(sent(a)) \in Seq(T)
    <3> HIDE DEF sent
    <3> QED BY <2>4, <2>6, SeqOfSubset
  <2>8. ToSet(local[a].sentAt) \subseteq ToSet(remote[a].sentAt)
          => sent(a) = ToSet(remote[a].sentAt)
    OBVIOUS
  <2>9. /\ both(a).touch = Larger(Larger(local[a].touch, remote[a].touch), Cardinality(sent(a)))
        /\ both(a).sentAt = SetToSeq(sent(a))
        /\ both(a).due = Larger(local[a].due, remote[a].due)
        /\ both(a).flags = local[a].flags \cup remote[a].flags
    OBVIOUS
  <2>10. both(a).touch \in Nat /\ both(a).due \in Nat /\ both(a).flags \in SUBSET Flags
    BY <2>2, <2>5 DEF Larger
  <2>11. both(a) \in Row
    BY <2>7, <2>10 DEF Row, RowsOf
  <2> HIDE DEF both, sent
  <2>12. both(a).touch >= local[a].touch /\ both(a).touch >= remote[a].touch
         /\ both(a).touch >= Cardinality(sent(a)) /\ both(a).due >= remote[a].due
    BY <2>2, <2>5, <2>9 DEF Larger
  <2>13. ASSUME local[a].touch <= remote[a].touch,
                ToSet(local[a].sentAt) \subseteq ToSet(remote[a].sentAt),
                Len(remote[a].sentAt) <= remote[a].touch
         PROVE  both(a).touch = remote[a].touch
    <3>1. Cardinality(sent(a)) <= remote[a].touch
      BY <2>2, <2>3, <2>5, <2>8, <2>13
    <3>2. Larger(local[a].touch, remote[a].touch) = remote[a].touch
      BY <2>2, <2>13 DEF Larger
    <3> QED BY <2>2, <2>5, <2>9, <3>1, <3>2 DEF Larger
  <2> QED BY <2>6, <2>9, <2>11, <2>12, <2>13
<1> HIDE DEF both
<1>3. D \in SUBSET Contacts /\ new \in [D -> Row]
  BY <1>2, StateRows
<1>4. IsState(new, Days, Requests)
  BY <1>3, StateIntro
<1>5. ASSUME NEW a
      PROVE  /\ Touch(new, a) >= Touch(local, a) /\ Touch(new, a) >= Touch(remote, a)
             /\ Sends(new, a) = Sends(local, a) \cup Sends(remote, a)
             /\ RowOf(new, a).due >= RowOf(remote, a).due
             /\ (/\ Len(RowOf(local, a).sentAt) <= Touch(local, a)
                 /\ Len(RowOf(remote, a).sentAt) <= Touch(remote, a))
                => Len(RowOf(new, a).sentAt) <= Touch(new, a)
             /\ (/\ Touch(local, a) <= Touch(remote, a)
                 /\ Sends(local, a) \subseteq Sends(remote, a)
                 /\ Len(RowOf(remote, a).sentAt) <= Touch(remote, a))
                => Touch(new, a) = Touch(remote, a)
  <2>1. RowOf(local, a) \in Row /\ RowOf(remote, a) \in Row
    BY StateRows
  <2>2. /\ Touch(local, a) \in Nat /\ Touch(remote, a) \in Nat
        /\ RowOf(local, a).due \in Nat /\ RowOf(remote, a).due \in Nat
    BY <2>1, RowFields DEF Touch
  <2>3. ToSet(Blank.sentAt) = {}
    BY NoRows DEF ToSet
  <2>4. CASE a \notin DOMAIN local
    <3>1. RowOf(local, a) = Blank /\ RowOf(new, a) = RowOf(remote, a)
      BY <2>4 DEF RowOf
    <3>2. Touch(local, a) = 0 /\ Sends(local, a) = {}
      BY <2>3, <3>1, NoRows DEF Touch, Sends
    <3>3. Touch(new, a) = Touch(remote, a) /\ Sends(new, a) = Sends(remote, a)
      BY <3>1 DEF Touch, Sends
    <3> QED BY <2>2, <3>1, <3>2, <3>3
  <2>5. CASE a \in DOMAIN local /\ a \notin DOMAIN remote
    <3>1. RowOf(remote, a) = Blank /\ RowOf(new, a) = RowOf(local, a)
      BY <2>5 DEF RowOf
    <3>2. Touch(remote, a) = 0 /\ Sends(remote, a) = {} /\ RowOf(remote, a).due = 0
      BY <2>3, <3>1, NoRows DEF Touch, Sends
    <3>3. Touch(new, a) = Touch(local, a) /\ Sends(new, a) = Sends(local, a)
      BY <3>1 DEF Touch, Sends
    <3> QED BY <2>2, <3>1, <3>2, <3>3
  <2>6. CASE a \in DOMAIN local \cap DOMAIN remote
    <3>1. RowOf(new, a) = both(a) /\ RowOf(local, a) = local[a] /\ RowOf(remote, a) = remote[a]
      BY <2>6 DEF RowOf
    <3> QED BY <1>2, <2>6, <3>1 DEF Touch, Sends
  <2> QED BY <2>4, <2>5, <2>6
<1> QED BY <1>1, <1>4, <1>5

-----------------------------------------------------------------------------
(* Requests. *)

\* All requests that have read some state.
SomeStates == UNION {[D -> Row] : D \in SUBSET Contacts}
AllClicks == ClicksOn(SomeStates)

\* A request in its type.
LEMMA ClickType ==
  ASSUME NEW q
  PROVE  q \in AllClicks <=> q \in ClicksOn({q.seen}) /\ IsState(q.seen, Days, Requests)
<1>1. \A state : state \in SomeStates <=> IsState(state, Days, Requests)
  BY DEF SomeStates, IsState, Row
<1> HIDE DEF SomeStates
<1> QED BY <1>1 DEF AllClicks, ClicksOn

\* A request that has not come in, or has ended.
LEMMA FreshType ==
  /\ Fresh \in AllClicks /\ Ended \in AllClicks
  /\ Fresh.step = "new" /\ Fresh.before = {} /\ Fresh.day = 0
  /\ Ended.step = "ended" /\ Ended.before = {} /\ Ended.day = 0
<1>1. <<>> \in SomeStates
  BY NoRows DEF SomeStates, IsState, Row
<1>2. 0 \in Days /\ 0 \in 0..(Tries - 1) /\ "open" \in Kinds
  BY HostedAssumption DEF Days, Kinds
<1> HIDE DEF SomeStates, Days, Kinds
<1>3. Fresh.to \in Contacts \cup {Fresh.to}
  OBVIOUS
<1> DEFINE steps == {"new", "gate", "read", "put", "done", "ended"}
<1>4. Fresh \in AllClicks /\ Fresh.step = "new" /\ Fresh.before = {} /\ Fresh.day = 0
  BY <1>1, <1>2 DEF Fresh, AllClicks, ClicksOn
<1>5. Ended = [Fresh EXCEPT !.step = "ended"]
  BY DEF Ended
<1> HIDE DEF Fresh
<1>6. Ended \in AllClicks /\ Ended.step = "ended" /\ Ended.before = {} /\ Ended.day = 0
  BY <1>4, <1>5 DEF AllClicks, ClicksOn
<1> QED BY <1>4, <1>6

\* What the types say of a request.
LEMMA RequestFacts ==
  ASSUME TypeOK, NEW r \in Requests
  PROVE  /\ req[r] \in AllClicks
         /\ req[r].draft \subseteq Nat /\ req[r].day \in Nat /\ req[r].day \in Days
         /\ req[r].made \in Nat /\ req[r].kind \in Kinds
         /\ IsState(req[r].seen, Days, Requests) /\ req[r].before \subseteq Requests
         /\ Active(r) => req[r].to \in Contacts
<1>1. req[r] \in AllClicks
  BY ClickType DEF TypeOK
<1>2. Days \subseteq Nat
  BY DEF Days
<1>3. Active(r) => req[r].to \in Contacts
  BY DEF TypeOK, Active
<1> HIDE DEF Days
<1> QED BY <1>1, <1>2, <1>3 DEF AllClicks, ClicksOn, TypeOK

\* The requests stay in their types when one of them moves on.
LEMMA OneMoves ==
  ASSUME TypeOK, NEW r \in Requests, NEW q \in AllClicks, req' = [req EXCEPT ![r] = q],
         q.step \notin {"new", "ended"} => q.to \in Contacts
  PROVE  /\ DOMAIN req' = Requests /\ req'[r] = q
         /\ \A s \in Requests : s # r => req'[s] = req[s]
         /\ \A s \in Requests :
              /\ req'[s] \in ClicksOn({req'[s].seen}) /\ IsState(req'[s].seen, Days, Requests)
              /\ req'[s].step \notin {"new", "ended"} => req'[s].to \in Contacts
<1>1. DOMAIN req' = Requests /\ req'[r] = q /\ \A s \in Requests : s # r => req'[s] = req[s]
  BY DEF TypeOK
<1>2. q \in ClicksOn({q.seen}) /\ IsState(q.seen, Days, Requests)
  BY ClickType
<1>3. ASSUME NEW s \in Requests
      PROVE  /\ req'[s] \in ClicksOn({req'[s].seen}) /\ IsState(req'[s].seen, Days, Requests)
             /\ req'[s].step \notin {"new", "ended"} => req'[s].to \in Contacts
  <2>1. CASE s = r
    BY <1>1, <1>2, <2>1
  <2>2. CASE s # r
    BY <1>1, <2>2 DEF TypeOK, Step
  <2> QED BY <2>1, <2>2
<1> QED BY <1>1, <1>3

\* A click moves its own request, and nothing else but the rows.
Alone(r) ==
  /\ \A s \in Requests : s # r => req'[s] = req[s]
  /\ UNCHANGED <<batch, build, today>>

\* What it does to its request: it comes in,
Comes(r) ==
  LET q == req'[r] IN
  /\ Step(r) = "new" /\ Alone(r)
  /\ q.step \in {"gate", "read"} /\ q.to \in Contacts /\ q.day = today /\ q.before = {}
  /\ q.step = "read" => q.kind \notin {"open", "sent"}
  /\ q.kind = "open" => q.draft # {}
  /\ \A touch \in q.draft : q.to \in DOMAIN batch /\ touch = batch[q.to]
  /\ q.answered => RowOf(rows, q.to).flags # {}
  /\ rows' = rows

Same(r) ==
  /\ req'[r].kind = req[r].kind /\ req'[r].to = req[r].to /\ req'[r].draft = req[r].draft
  /\ req'[r].day = req[r].day /\ req'[r].answered = req[r].answered

\* is let through,
Passes(r) ==
  /\ Step(r) = "gate" /\ req'[r].step = "read" /\ Same(r) /\ Alone(r)
  /\ ~req'[r].blind => ~Refused(r, rows)
  /\ req'[r].before = {s \in Requests : Recorded(s)}
  /\ rows' = rows

\* goes on,
Past(r) == req'[r].before = req[r].before /\ req'[r].blind = req[r].blind

Goes(r) ==
  /\ Step(r) \in {"read", "put"} /\ req'[r].step \in {"read", "put"} /\ Same(r)
  /\ Past(r)

Stamp(r) == [day |-> req[r].day, by |-> r]

\* or records its send.
Files(r) ==
  /\ Step(r) = "put" /\ req'[r].step = "done" /\ Same(r) /\ Alone(r)
  /\ Past(r)
  /\ req[r].kind \in {"open", "sent"}
  /\ ~lost' => rows' = WithSend(rows, req[r].to, Stamp(r), today)
  /\ req'[r].made = Touch(rows', req[r].to)

\* And to the rows.
RowsMove(r) ==
  \/ rows' = rows
  \/ /\ Step(r) = "put" /\ IsState(rows', Days, Requests)
     /\ \/ rows' = WithSend(rows, req[r].to, Stamp(r), today)
        \/ \E flag \in Flags : rows' = WithFlag(rows, req[r].to, flag)

\* Made from an empty read, its write leaves nothing but its own row.
Wipes(r) ==
  /\ req[r].blank /\ lost' = TRUE /\ Step(r) = "put" /\ IsState(rows', Days, Requests)
  /\ \/ rows' = WithSend(<<>>, req[r].to, Stamp(r), today)
     \/ \E flag \in Flags : rows' = WithFlag(<<>>, req[r].to, flag)

Keeps(r) == RowsMove(r) /\ UNCHANGED lost

\* The requests' part of the types.
Requested ==
  /\ DOMAIN req = Requests
  /\ \A r \in Requests :
       /\ req[r] \in ClicksOn({req[r].seen}) /\ IsState(req[r].seen, Days, Requests)
       /\ Step(r) \notin {"new", "ended"} => req[r].to \in Contacts

\* A click moves its own request only, one of these ways.
LEMMA ClickSteps ==
  ASSUME TypeOK, NEW r \in Requests, Click(r)
  PROVE  /\ ~Recorded(r) /\ Alone(r)
         /\ Requested' /\ (Keeps(r) \/ Wipes(r))
         /\ Comes(r) \/ req'[r] = Ended \/ Passes(r) \/ Goes(r) \/ Files(r)
<1>1. /\ req[r] \in AllClicks /\ IsState(req[r].seen, Days, Requests)
      /\ req[r].day \in Days
      /\ Active(r) => req[r].to \in Contacts
  BY RequestFacts
<1>2. IsState(rows, Days, Requests) /\ today \in Days /\ today \in Nat /\ IsBatch(batch)
  BY DEF TypeOK, Days
<1>3. ASSUME NEW q \in AllClicks, req' = [req EXCEPT ![r] = q],
             q.step \notin {"new", "ended"} => q.to \in Contacts
      PROVE  req'[r] = q /\ (\A s \in Requests : s # r => req'[s] = req[s]) /\ Requested'
  <2>1. /\ DOMAIN req' = Requests /\ req'[r] = q
        /\ \A s \in Requests : s # r => req'[s] = req[s]
        /\ \A s \in Requests :
             /\ req'[s] \in ClicksOn({req'[s].seen}) /\ IsState(req'[s].seen, Days, Requests)
             /\ req'[s].step \notin {"new", "ended"} => req'[s].to \in Contacts
    BY <1>3, OneMoves
  <2> QED BY <2>1 DEF Requested, Step
<1>4. CASE \E kind \in Clicks, a \in Contacts : Arrive(r, kind, a)
  <2>1. PICK kind \in Clicks, a \in Contacts : Arrive(r, kind, a)
    BY <1>4
  <2> DEFINE answered == (kind = "open" /\ RowOf(rows, a).flags # {})
             step == IF kind \in {"open", "sent"} THEN "gate" ELSE "read"
  <2>2. PICK draft \in {{}, {batch[b] : b \in DOMAIN batch \cap {a}}} :
          /\ kind = "open" => draft # {}
          /\ req' = [req EXCEPT ![r] =
               [Fresh EXCEPT !.step = step, !.kind = kind, !.to = a, !.day = today,
                             !.draft = draft, !.answered = answered]]
    BY <2>1 DEF Arrive
  <2>3. draft \in SUBSET Nat /\ answered \in BOOLEAN /\ kind \in Kinds
        /\ step \in {"gate", "read"}
    BY <1>2, <2>2, HostedAssumption DEF IsBatch
  <2>4. \A touch \in draft : a \in DOMAIN batch /\ touch = batch[a]
    BY <2>2
  <2>5. answered => RowOf(rows, a).flags # {}
    OBVIOUS
  <2> DEFINE q == [Fresh EXCEPT !.step = step, !.kind = kind, !.to = a, !.day = today,
                                !.draft = draft, !.answered = answered]
  <2> HIDE DEF answered
  <2>6. step = "read" => kind \notin {"open", "sent"}
    OBVIOUS
  <2> HIDE DEF step
  <2>7. /\ q \in AllClicks /\ q.step = step
        /\ q.kind = kind /\ q.to = a /\ q.day = today /\ q.draft = draft
        /\ q.answered = answered /\ q.before = {}
    BY <1>2, <2>3, FreshType DEF AllClicks, ClicksOn
  <2>8. req' = [req EXCEPT ![r] = q]
    BY <2>2
  <2> HIDE DEF q
  <2>9. req'[r] = q /\ (\A s \in Requests : s # r => req'[s] = req[s]) /\ Requested'
    BY <1>3, <2>7, <2>8
  <2>10. Comes(r)
    BY <2>1, <2>2, <2>3, <2>4, <2>5, <2>6, <2>7, <2>9 DEF Comes, Arrive, Alone
  <2> QED BY <2>1, <2>9, <2>10 DEF Arrive, Recorded, RowsMove, Keeps, Alone
<1>5. ASSUME req' = [req EXCEPT ![r] = Ended]
      PROVE  req'[r] = Ended /\ (\A s \in Requests : s # r => req'[s] = req[s]) /\ Requested'
  BY <1>3, <1>5, FreshType
<1>6. CASE Gate(r)
  <2>1. CASE req' = [req EXCEPT ![r] = Ended]
    BY <1>5, <1>6, <2>1 DEF Gate, Recorded, RowsMove, Keeps, Alone
  <2>2. CASE \E blind \in BOOLEAN :
               /\ req' = [req EXCEPT ![r] = LetThrough(r, blind)]
               /\ blind = FALSE => ~Refused(r, rows)
    <3>0. PICK blind \in BOOLEAN :
            /\ req' = [req EXCEPT ![r] = LetThrough(r, blind)]
            /\ blind = FALSE => ~Refused(r, rows)
      BY <2>2
    <3> DEFINE before == {s \in Requests : Recorded(s)}
               q == [req[r] EXCEPT !.step = "read", !.blind = blind, !.before = before]
    <3>1. req' = [req EXCEPT ![r] = q]
      BY <3>0 DEF LetThrough
    <3>2. before \in SUBSET Requests
      OBVIOUS
    <3> HIDE DEF before
    <3>3. /\ q \in AllClicks /\ q.step = "read" /\ q.before = before /\ q.to = req[r].to
          /\ q.kind = req[r].kind /\ q.draft = req[r].draft /\ q.day = req[r].day
          /\ q.answered = req[r].answered /\ q.blind = blind
      BY <1>1, <3>0, <3>2 DEF AllClicks, ClicksOn
    <3>4. q.to \in Contacts
      BY <1>1, <1>6, <3>3 DEF Gate, Active
    <3> HIDE DEF q
    <3>5. req'[r] = q /\ (\A s \in Requests : s # r => req'[s] = req[s]) /\ Requested'
      BY <1>3, <3>1, <3>3, <3>4
    <3>6. Passes(r)
      BY <1>6, <3>0, <3>3, <3>5 DEF Passes, Same, Alone, Gate, before
    <3> QED BY <1>6, <3>5, <3>6 DEF Gate, Recorded, RowsMove, Keeps, Alone
  <2>3. \/ req' = [req EXCEPT ![r] = Ended]
        \/ \E blind \in BOOLEAN :
             /\ req' = [req EXCEPT ![r] = LetThrough(r, blind)]
             /\ blind = FALSE => ~Refused(r, rows)
    <3>1. CASE \E state \in {rows, <<>>} :
                 req' = [req EXCEPT ![r] = IF Refused(r, state) THEN Ended
                                           ELSE LetThrough(r, state # rows)]
      <4>1. PICK state \in {rows, <<>>} :
              req' = [req EXCEPT ![r] = IF Refused(r, state) THEN Ended
                                        ELSE LetThrough(r, state # rows)]
        BY <3>1
      <4>2. CASE Refused(r, state)
        BY <4>1, <4>2
      <4>3. CASE ~Refused(r, state)
        <5> DEFINE blind == state # rows
        <5>1. req' = [req EXCEPT ![r] = LetThrough(r, blind)] /\ blind \in BOOLEAN
          BY <4>1, <4>3
        <5>2. blind = FALSE => ~Refused(r, rows)
          BY <4>3
        <5> QED BY <5>1, <5>2
      <4> QED BY <4>2, <4>3
    <3>2. CASE req' = [req EXCEPT ![r] = IF req[r].kind = "open" THEN Ended
                                         ELSE LetThrough(r, TRUE)]
      BY <3>2
    <3> QED BY <1>6, <3>1, <3>2 DEF Gate
  <2> QED BY <2>1, <2>2, <2>3
<1>7. ASSUME req' = [req EXCEPT ![r] = Again(r)], Step(r) = "put"
      PROVE  /\ (\A s \in Requests : s # r => req'[s] = req[s]) /\ Requested'
             /\ req'[r] = Ended \/ Goes(r)
  <2>1. CASE req[r].tries + 1 = Tries
    <3>1. Again(r) = Ended
      BY <2>1 DEF Again
    <3> QED BY <1>5, <1>7, <3>1
  <2>2. CASE req[r].tries + 1 # Tries
    <3> DEFINE tries == req[r].tries + 1
               q == [req[r] EXCEPT !.tries = tries, !.seen = <<>>, !.blank = FALSE,
                                   !.step = "read"]
    <3>1. req' = [req EXCEPT ![r] = q]
      BY <1>7, <2>2 DEF Again
    <3>2. req[r].tries \in 0..(Tries - 1)
      BY <1>1 DEF AllClicks, ClicksOn
    <3>3. tries \in 0..(Tries - 1)
      BY <2>2, <3>2, HostedAssumption
    <3>7. <<>> \in SomeStates
      BY NoRows DEF SomeStates, IsState, Row
    <3> HIDE DEF tries, SomeStates
    <3>4. /\ q \in AllClicks /\ q.step = "read" /\ q.before = req[r].before /\ q.to = req[r].to
          /\ q.kind = req[r].kind /\ q.draft = req[r].draft /\ q.day = req[r].day
          /\ q.answered = req[r].answered /\ q.blind = req[r].blind
      BY <1>1, <3>3, <3>7 DEF AllClicks, ClicksOn
    <3>5. q.to \in Contacts
      BY <1>1, <1>7, <3>4 DEF Active
    <3> HIDE DEF q
    <3>6. req'[r] = q /\ (\A s \in Requests : s # r => req'[s] = req[s]) /\ Requested'
      BY <1>3, <3>1, <3>4, <3>5
    <3> QED BY <1>7, <3>4, <3>6 DEF Goes, Past, Same
  <2> QED BY <2>1, <2>2
<1>8. CASE Read(r)
  <2>1. CASE req' = [req EXCEPT ![r] = Ended]
    BY <1>5, <1>8, <2>1 DEF Read, Recorded, RowsMove, Keeps, Alone
  <2>2. ASSUME NEW blank \in BOOLEAN,
               req' = [req EXCEPT ![r] = [req[r] EXCEPT !.step = "put", !.seen = rows,
                                                        !.blank = blank]]
        PROVE  /\ ~Recorded(r) /\ Alone(r) /\ Requested' /\ Keeps(r)
               /\ Goes(r)
    <3> DEFINE q == [req[r] EXCEPT !.step = "put", !.seen = rows, !.blank = blank]
    <3>1. req' = [req EXCEPT ![r] = q]
      BY <2>2
    <3>2. rows \in SomeStates
      BY <1>2 DEF SomeStates, IsState, Row
    <3> HIDE DEF SomeStates
    <3>4. /\ q \in AllClicks /\ q.step = "put" /\ q.before = req[r].before /\ q.to = req[r].to
          /\ q.kind = req[r].kind /\ q.draft = req[r].draft /\ q.day = req[r].day
          /\ q.answered = req[r].answered /\ q.blind = req[r].blind
      BY <1>1, <2>2, <3>2 DEF AllClicks, ClicksOn
    <3>5. q.to \in Contacts
      BY <1>1, <1>8, <3>4 DEF Active, Read
    <3> HIDE DEF q
    <3>6. req'[r] = q /\ (\A s \in Requests : s # r => req'[s] = req[s]) /\ Requested'
      BY <1>3, <3>1, <3>4, <3>5
    <3>7. Goes(r)
      BY <1>8, <3>4, <3>6 DEF Goes, Past, Same, Read
    <3> QED BY <1>8, <3>6, <3>7 DEF Read, Recorded, RowsMove, Keeps, Alone
  <2>3. \/ req' = [req EXCEPT ![r] = Ended]
        \/ \E blank \in BOOLEAN :
             req' = [req EXCEPT ![r] = [req[r] EXCEPT !.step = "put", !.seen = rows,
                                                      !.blank = blank]]
    BY <1>8 DEF Read
  <2> QED BY <2>1, <2>2, <2>3
<1>9. CASE Put(r)
  <2>1. /\ Step(r) = "put" /\ ~Recorded(r) /\ UNCHANGED <<batch, build, today>>
        /\ req[r].to \in Contacts /\ Stamp(r) \in [day : Days, by : Requests]
        /\ req[r].blank \in BOOLEAN /\ lost \in BOOLEAN
    <3>1. req[r].blank \in BOOLEAN
      BY <1>1 DEF AllClicks, ClicksOn
    <3> QED BY <1>1, <1>9, <3>1 DEF Put, Recorded, Active, Stamp, TypeOK
  <2>2. CASE req' = [req EXCEPT ![r] = Again(r)] /\ UNCHANGED <<rows, lost>>
    BY <1>7, <2>1, <2>2 DEF RowsMove, Keeps, Alone
  <2>3. ASSUME Matches(r), rows' = Changed(r), lost' = (lost \/ req[r].blank)
        PROVE  /\ Keeps(r) \/ Wipes(r)
               /\ req[r].kind \in {"open", "sent"} /\ ~lost' =>
                    rows' = WithSend(rows, req[r].to, Stamp(r), today)
               /\ IsState(rows', Days, Requests)
    <3> DEFINE state == Text(r)
    <3>1. IsState(state, Days, Requests)
      BY <1>1, NoRows DEF Text
    <3>2. \/ ~req[r].blank /\ state = rows /\ lost' = lost
          \/ req[r].blank /\ state = <<>> /\ lost' = TRUE
      BY <2>1, <2>3 DEF Text, Matches
    <3> HIDE DEF state
    <3>3. CASE req[r].kind \in {"open", "sent"}
      <4>1. rows' = WithSend(state, req[r].to, Stamp(r), today)
        BY <2>3, <3>3 DEF Changed, Stamp, state
      <4>2. IsState(rows', Days, Requests)
        BY <1>2, <2>1, <3>1, <4>1, WithSendFacts
      <4> QED BY <2>1, <3>2, <4>1, <4>2 DEF RowsMove, Keeps, Wipes
    <3>4. CASE req[r].kind \notin {"open", "sent"}
      <4>1. rows' = WithFlag(state, req[r].to, FlagOf(req[r].kind))
        BY <2>3, <3>4 DEF Changed, state
      <4>2. FlagOf(req[r].kind) \in Flags
        BY DEF FlagOf, Flags
      <4>3. IsState(rows', Days, Requests)
        BY <3>1, <4>1, <4>2, WithFlagFacts
      <4> QED BY <2>1, <3>2, <3>4, <4>1, <4>2, <4>3 DEF RowsMove, Keeps, Wipes
    <3> QED BY <3>3, <3>4
  <2> DEFINE Taken == Matches(r) /\ rows' = Changed(r) /\ lost' = (lost \/ req[r].blank)
             made == RowOf(rows', req[r].to).touch
             q == [req[r] EXCEPT !.step = "done", !.seen = <<>>, !.blank = FALSE, !.made = made]
  <2>4. CASE Taken /\ req' = [req EXCEPT ![r] = Again(r)]
    BY <1>7, <2>1, <2>3, <2>4 DEF Alone
  <2>5. CASE /\ Taken
             /\ req' = [req EXCEPT ![r] = IF req[r].kind \notin {"open", "sent"} THEN Ended ELSE q]
    <3>1. CASE req[r].kind \notin {"open", "sent"}
      <4>1. req' = [req EXCEPT ![r] = Ended]
        BY <2>5, <3>1
      <4> QED BY <1>5, <2>1, <2>3, <2>5, <4>1 DEF Alone
    <3>2. CASE req[r].kind \in {"open", "sent"}
      <4>1. req' = [req EXCEPT ![r] = q]
        BY <2>5, <3>2
      <4>2. /\ ~lost' => rows' = WithSend(rows, req[r].to, Stamp(r), today)
            /\ IsState(rows', Days, Requests)
        BY <2>3, <2>5, <3>2
      <4>4. RowOf(rows', req[r].to) \in Row
        BY <4>2, StateRows
      <4>5. made \in Nat /\ made = Touch(rows', req[r].to) /\ <<>> \in SomeStates
        BY <4>4, RowFields, NoRows DEF Touch, SomeStates, IsState, Row
      <4> HIDE DEF made, SomeStates
      <4>6. /\ q \in AllClicks /\ q.step = "done" /\ q.before = req[r].before
            /\ q.to = req[r].to /\ q.made = made
            /\ q.kind = req[r].kind /\ q.draft = req[r].draft /\ q.day = req[r].day
            /\ q.answered = req[r].answered /\ q.blind = req[r].blind
        BY <1>1, <4>5 DEF AllClicks, ClicksOn
      <4> HIDE DEF q
      <4>7. req'[r] = q /\ (\A s \in Requests : s # r => req'[s] = req[s]) /\ Requested'
        BY <1>3, <2>1, <4>1, <4>6
      <4>8. Files(r)
        BY <2>1, <3>2, <4>2, <4>5, <4>6, <4>7 DEF Files, Past, Same, Alone
      <4> QED BY <2>1, <2>3, <2>5, <4>7, <4>8 DEF Alone
    <3> QED BY <3>1, <3>2
  <2>6. \/ /\ Taken
           /\ \/ req' = [req EXCEPT ![r] = IF req[r].kind \notin {"open", "sent"} THEN Ended ELSE q]
              \/ req' = [req EXCEPT ![r] = Again(r)]
        \/ req' = [req EXCEPT ![r] = Again(r)] /\ UNCHANGED <<rows, lost>>
    BY <1>9 DEF Put
  <2> QED BY <2>2, <2>4, <2>5, <2>6
<1> QED BY <1>4, <1>6, <1>8, <1>9 DEF Click

\* What each step of the workflow leaves it with.
LEMMA WorkflowSteps ==
  ASSUME TypeOK
  PROVE  /\ Pull => build'.local = rows /\ build'.drafts = <<>>
         /\ Build => \E drafts \in SUBSET Contacts :
              /\ drafts \subseteq FollowUps(build.local, today) \cup FirstTouches(build.local)
              /\ build'.local = WithDrafts(build.local, drafts, today)
              /\ build'.drafts = [a \in drafts |-> Touch(build.local, a)]
         /\ MergeRows => build'.local = Merge(build.local, rows) /\ build'.drafts = build.drafts
         /\ PushRows => build'.local = <<>> /\ build'.drafts = build.drafts
         /\ PushBatch \/ Abort => build'.local = <<>> /\ build'.drafts = <<>>
         /\ Pull \/ Build \/ MergeRows \/ PushRows \/ PushBatch \/ Abort =>
              build' \in [step : {"off", "building", "merging", "pushing", "publishing"},
                          local : {build'.local}, drafts : {build'.drafts}]
<1> DEFINE Runs(local, drafts) ==
             [step : {"off", "building", "merging", "pushing", "publishing"},
              local : {local}, drafts : {drafts}]
<1>1. build \in Runs(build.local, build.drafts)
  BY DEF TypeOK
<1>2. Off \in Runs(<<>>, <<>>) /\ Off.local = <<>> /\ Off.drafts = <<>>
  BY DEF Off
<1>3. ASSUME Pull
      PROVE build'.local = rows /\ build'.drafts = <<>> /\ build' \in Runs(rows, <<>>)
  BY <1>3 DEF Pull, Off
<1>4. ASSUME Build
      PROVE \E drafts \in SUBSET Contacts :
              /\ drafts \subseteq FollowUps(build.local, today) \cup FirstTouches(build.local)
              /\ build'.local = WithDrafts(build.local, drafts, today)
              /\ build'.drafts = [a \in drafts |-> Touch(build.local, a)]
              /\ build' \in Runs(build'.local, build'.drafts)
  <2>1. PICK drafts \in SUBSET (FollowUps(build.local, today) \cup FirstTouches(build.local)) :
          build' = [step   |-> "merging",
                    local  |-> WithDrafts(build.local, drafts, today),
                    drafts |-> [a \in drafts |-> RowOf(build.local, a).touch]]
    BY <1>4 DEF Build
  <2>2. DOMAIN build.local \subseteq Contacts
    BY StateRows DEF TypeOK
  <2>3. drafts \in SUBSET Contacts
    BY <2>2 DEF FollowUps, FirstTouches
  <2> DEFINE local == WithDrafts(build.local, drafts, today)
             made == [a \in drafts |-> RowOf(build.local, a).touch]
  <2>4. made = [a \in drafts |-> Touch(build.local, a)]
    BY DEF Touch
  <2>5. build' = [step |-> "merging", local |-> local, drafts |-> made]
    BY <2>1
  <2> HIDE DEF local, made
  <2>6. build'.local = local /\ build'.drafts = made /\ build' \in Runs(local, made)
    BY <2>5
  <2> QED BY <2>3, <2>4, <2>6 DEF local
<1>5. ASSUME MergeRows
      PROVE /\ build'.local = Merge(build.local, rows) /\ build'.drafts = build.drafts
            /\ build' \in Runs(build'.local, build'.drafts)
  <2> DEFINE local == Merge(build.local, rows)
  <2>1. build' = [build EXCEPT !.step = "pushing", !.local = local]
    BY <1>5 DEF MergeRows
  <2> HIDE DEF local
  <2>2. build'.local = local /\ build'.drafts = build.drafts /\ build' \in Runs(local, build.drafts)
    BY <1>1, <2>1
  <2> QED BY <2>2 DEF local
<1>6. ASSUME PushRows
      PROVE /\ build'.local = <<>> /\ build'.drafts = build.drafts
            /\ build' \in Runs(<<>>, build.drafts)
  BY <1>1, <1>6 DEF PushRows
<1>7. ASSUME PushBatch \/ Abort
      PROVE /\ build'.local = <<>> /\ build'.drafts = <<>> /\ build' \in Runs(<<>>, <<>>)
  BY <1>2, <1>7 DEF PushBatch, Abort
<1> QED BY <1>3, <1>4, <1>5, <1>6, <1>7

\* A click only adds to the rows.
LEMMA RowsGrow ==
  ASSUME TypeOK, NEW r \in Requests, RowsMove(r)
  PROVE  /\ IsState(rows', Days, Requests) /\ Within(rows, rows')
         /\ \A a : /\ Touch(rows, a) <= Touch(rows', a)
                   /\ Sends(rows, a) \subseteq Sends(rows', a)
                   /\ RowOf(rows, a).flags \subseteq RowOf(rows', a).flags
<1>1. IsState(rows, Days, Requests) /\ today \in Nat
  BY DEF TypeOK, Days
<1>2. IsState(rows', Days, Requests)
  BY <1>1 DEF RowsMove
<1>3. \A a : /\ RowOf(rows, a) \in Row /\ RowOf(rows', a) \in Row
             /\ Touch(rows, a) \in Nat /\ Touch(rows', a) \in Nat
             /\ RowOf(rows, a).sentAt \in Seq([day : Days, by : Requests])
  BY <1>1, <1>2, StateRows, RowFields DEF Touch
<1>4. /\ DOMAIN rows \subseteq DOMAIN rows'
      /\ \A a : /\ Touch(rows, a) <= Touch(rows', a)
                /\ Sends(rows, a) \subseteq Sends(rows', a)
                /\ RowOf(rows, a).flags \subseteq RowOf(rows', a).flags
  <2>1. CASE rows' = rows
    BY <1>3, <2>1
  <2>2. ASSUME Step(r) = "put", rows' = WithSend(rows, req[r].to, Stamp(r), today)
        PROVE  <1>4!:
    <3>1. req[r].to \in Contacts /\ Stamp(r) \in [day : Days, by : Requests]
      BY <2>2, RequestFacts DEF Active, Stamp
    <3>2. /\ DOMAIN rows \subseteq DOMAIN rows'
          /\ \A c : c # req[r].to => RowOf(rows', c) = RowOf(rows, c)
          /\ Touch(rows', req[r].to) = Touch(rows, req[r].to) + 1
          /\ RowOf(rows', req[r].to).sentAt = Append(RowOf(rows, req[r].to).sentAt, Stamp(r))
          /\ RowOf(rows', req[r].to).flags = RowOf(rows, req[r].to).flags
      BY <1>1, <2>2, <3>1, WithSendFacts
    <3>3. Sends(rows', req[r].to) = Sends(rows, req[r].to) \cup {Stamp(r)}
      <4> DEFINE sentAt == RowOf(rows, req[r].to).sentAt
                 T == [day : Days, by : Requests]
      <4>1. sentAt \in Seq(T) /\ Stamp(r) \in T
        BY <1>3, <3>1
      <4> HIDE DEF sentAt, T
      <4>2. ToSet(Append(sentAt, Stamp(r))) = ToSet(sentAt) \cup {Stamp(r)}
        BY <4>1, ToSetFacts
      <4> QED BY <3>2, <4>2 DEF Sends, sentAt
    <3>4. ASSUME NEW a
          PROVE  /\ Touch(rows, a) <= Touch(rows', a)
                 /\ Sends(rows, a) \subseteq Sends(rows', a)
                 /\ RowOf(rows, a).flags \subseteq RowOf(rows', a).flags
      <4>1. CASE a = req[r].to
        BY <1>3, <3>2, <3>3, <4>1
      <4>2. CASE a # req[r].to
        <5>1. RowOf(rows', a) = RowOf(rows, a)
          BY <3>2, <4>2
        <5> QED BY <1>3, <5>1 DEF Touch, Sends
      <4> QED BY <4>1, <4>2
    <3> QED BY <3>2, <3>4
  <2>3. ASSUME NEW flag \in Flags, rows' = WithFlag(rows, req[r].to, flag)
        PROVE  <1>4!:
    <3>1. /\ DOMAIN rows \subseteq DOMAIN rows'
          /\ \A c : /\ Touch(rows', c) = Touch(rows, c)
                    /\ RowOf(rows', c).sentAt = RowOf(rows, c).sentAt
                    /\ RowOf(rows, c).flags \subseteq RowOf(rows', c).flags
      BY <1>1, <2>3, WithFlagFacts
    <3> QED BY <1>3, <3>1 DEF Sends
  <2> QED BY <2>1, <2>2, <2>3 DEF RowsMove
<1>5. ASSUME NEW a \in DOMAIN rows
      PROVE  /\ a \in DOMAIN rows'
             /\ rows[a].touch <= rows'[a].touch /\ rows[a].flags \subseteq rows'[a].flags
             /\ ToSet(rows[a].sentAt) \subseteq ToSet(rows'[a].sentAt)
  <2>1. a \in DOMAIN rows'
    BY <1>4
  <2>2. RowOf(rows, a) = rows[a] /\ RowOf(rows', a) = rows'[a]
    BY <2>1 DEF RowOf
  <2> QED BY <1>4, <2>1, <2>2 DEF Touch, Sends
<1> QED BY <1>2, <1>4, <1>5 DEF Within

-----------------------------------------------------------------------------
(* Types, and what holds whatever is lost. *)

LEMMA NextTypes == TypeOK /\ Next => TypeOK'
<1> SUFFICES ASSUME TypeOK, Next PROVE TypeOK'
  OBVIOUS
<1> DEFINE States == /\ IsState(rows, Days, Requests) /\ IsBatch(batch)
                     /\ build \in [step : {"off", "building", "merging", "pushing", "publishing"},
                                   local : {build.local}, drafts : {build.drafts}]
                     /\ IsState(build.local, Days, Requests) /\ IsBatch(build.drafts)
<1>1. States /\ Requested /\ today \in Days /\ lost \in BOOLEAN /\ today \in Nat
  BY DEF TypeOK, Requested, Days, Step
<1>2. States' /\ Requested' /\ today' \in Days /\ lost' \in BOOLEAN => TypeOK'
  BY DEF TypeOK, Requested
<1>3. IsState(<<>>, Days, Requests) /\ IsBatch(<<>>)
  BY NoRows DEF IsBatch
<1> DEFINE Run == build' \in [step : {"off", "building", "merging", "pushing", "publishing"},
                              local : {build'.local}, drafts : {build'.drafts}]
<1>4. ASSUME UNCHANGED req PROVE Requested'
  BY <1>1, <1>4 DEF Requested, Step
<1>5. ASSUME NEW r \in Requests, Click(r) PROVE TypeOK'
  <2>1. UNCHANGED <<batch, build, today>> /\ Requested' /\ (Keeps(r) \/ Wipes(r))
    BY <1>5, ClickSteps DEF Alone
  <2>2. IsState(rows', Days, Requests) /\ lost' \in BOOLEAN
    BY <1>1, <2>1, RowsGrow DEF Keeps, Wipes
  <2> QED BY <1>1, <1>2, <2>1, <2>2
<1>6. ASSUME Pull PROVE TypeOK'
  <2>1. build'.local = rows /\ build'.drafts = <<>> /\ Run
    BY <1>6, WorkflowSteps
  <2>2. UNCHANGED <<rows, batch, req, today, lost>>
    BY <1>6 DEF Pull
  <2> QED BY <1>1, <1>2, <1>3, <1>4, <2>1, <2>2
<1>7. ASSUME Build PROVE TypeOK'
  <2>1. Run
    BY <1>7, WorkflowSteps
  <2>2. PICK drafts \in SUBSET Contacts :
          /\ build'.local = WithDrafts(build.local, drafts, today)
          /\ build'.drafts = [a \in drafts |-> Touch(build.local, a)]
    BY <1>7, WorkflowSteps
  <2>3. IsState(build'.local, Days, Requests)
    BY <1>1, <2>2, WithDraftsFacts
  <2>4. \A a : Touch(build.local, a) \in Nat
    BY <1>1, StateRows, RowFields DEF Touch
  <2>5. IsBatch(build'.drafts)
    BY <2>2, <2>4 DEF IsBatch
  <2>6. UNCHANGED <<rows, batch, req, today, lost>>
    BY <1>7 DEF Build
  <2> QED BY <1>1, <1>2, <1>4, <2>1, <2>3, <2>5, <2>6
<1>8. ASSUME MergeRows PROVE TypeOK'
  <2>1. build'.local = Merge(build.local, rows) /\ build'.drafts = build.drafts /\ Run
    BY <1>8, WorkflowSteps
  <2>2. IsState(build'.local, Days, Requests)
    BY <1>1, <2>1, MergeFacts
  <2>3. UNCHANGED <<rows, batch, req, today, lost>>
    BY <1>8 DEF MergeRows
  <2> QED BY <1>1, <1>2, <1>4, <2>1, <2>2, <2>3
<1>9. ASSUME PushRows PROVE TypeOK'
  <2>1. build'.local = <<>> /\ build'.drafts = build.drafts /\ Run
    BY <1>9, WorkflowSteps
  <2>2. UNCHANGED <<batch, req, today>> /\ rows' = build.local /\ lost' \in BOOLEAN
    BY <1>1, <1>9 DEF PushRows
  <2> QED BY <1>1, <1>2, <1>3, <1>4, <2>1, <2>2
<1>10. ASSUME PushBatch \/ Abort PROVE TypeOK'
  <2>1. build'.local = <<>> /\ build'.drafts = <<>> /\ Run
    BY <1>10, WorkflowSteps
  <2>2. UNCHANGED <<rows, req, today, lost>> /\ (batch' = build.drafts \/ batch' = batch)
    BY <1>10 DEF PushBatch, Abort
  <2> QED BY <1>1, <1>2, <1>3, <1>4, <2>1, <2>2
<1>11. ASSUME NextDay PROVE TypeOK'
  <2>1. UNCHANGED <<rows, batch, req, build, lost>> /\ today' \in Days
    BY <1>1, <1>11, HostedAssumption DEF NextDay, Days
  <2> QED BY <1>1, <1>2, <1>4, <2>1
<1> QED BY <1>5, <1>6, <1>7, <1>8, <1>9, <1>10, <1>11 DEF Next

\* Short of a loss no step takes anything from the rows.
LEMMA Grows ==
  ASSUME TypeOK, Next, ~lost'
  PROVE  /\ ~lost
         /\ \A a : /\ Touch(rows, a) <= Touch(rows', a)
                   /\ Sends(rows, a) \subseteq Sends(rows', a)
                   /\ RowOf(rows, a).flags \subseteq RowOf(rows', a).flags
         /\ \A a : Touch(rows, a) \in Nat /\ Touch(rows', a) \in Nat
<1>1. TypeOK' /\ IsState(rows, Days, Requests) /\ IsState(rows', Days, Requests)
  BY NextTypes DEF TypeOK
<1>2. \A a : Touch(rows, a) \in Nat /\ Touch(rows', a) \in Nat
  BY <1>1, StateRows, RowFields DEF Touch
<1>3. CASE \E r \in Requests : Click(r)
  <2>1. PICK r \in Requests : Click(r)
    BY <1>3
  <2>2. RowsMove(r) /\ UNCHANGED lost
    BY <2>1, ClickSteps DEF Keeps, Wipes
  <2> QED BY <1>2, <2>2, RowsGrow
<1>4. CASE PushRows
  <2>1. ~lost /\ Within(rows, rows')
    BY <1>4 DEF PushRows, TypeOK
  <2>2. ASSUME NEW a PROVE /\ Touch(rows, a) <= Touch(rows', a)
                           /\ Sends(rows, a) \subseteq Sends(rows', a)
                           /\ RowOf(rows, a).flags \subseteq RowOf(rows', a).flags
    <3>1. CASE a \in DOMAIN rows
      <4>1. a \in DOMAIN rows'
        BY <2>1, <3>1 DEF Within
      <4>2. RowOf(rows, a) = rows[a] /\ RowOf(rows', a) = rows'[a]
        BY <3>1, <4>1 DEF RowOf
      <4> QED BY <2>1, <3>1, <4>2 DEF Within, Touch, Sends
    <3>2. CASE a \notin DOMAIN rows
      <4>1. RowOf(rows, a) = Blank
        BY <3>2 DEF RowOf
      <4>2. Touch(rows, a) = 0 /\ RowOf(rows, a).flags = {} /\ Sends(rows, a) = {}
        BY <4>1, NoRows DEF Touch, Sends, ToSet
      <4> QED BY <1>2, <4>2
    <3> QED BY <3>1, <3>2
  <2> QED BY <1>2, <2>1, <2>2
<1>5. CASE Pull \/ Build \/ MergeRows \/ PushBatch \/ Abort \/ NextDay
  <2>1. UNCHANGED <<rows, lost>>
    BY <1>5 DEF Pull, Build, MergeRows, PushBatch, Abort, NextDay
  <2> QED BY <1>2, <2>1
<1> QED BY <1>3, <1>4, <1>5 DEF Next

LEMMA NextNumbered == TypeOK /\ Numbered /\ Next => Numbered'
<1> SUFFICES ASSUME TypeOK, Numbered, Next PROVE Numbered'
  OBVIOUS
<1> DEFINE Few(state) == \A a \in Contacts : Len(RowOf(state, a).sentAt) <= Touch(state, a)
<1>1. Few(rows) /\ Few(build.local) /\ today \in Nat
      /\ IsState(rows, Days, Requests) /\ IsState(build.local, Days, Requests)
  BY DEF Numbered, TypeOK, Days
<1>2. Few(rows') /\ Few(build'.local) => Numbered'
  BY DEF Numbered
<1>3. Few(<<>>)
  BY NoRows DEF Touch
<1>4. \A state : IsState(state, Days, Requests) =>
        \A a : /\ Touch(state, a) \in Nat /\ Len(RowOf(state, a).sentAt) \in Nat
               /\ RowOf(state, a).sentAt \in Seq([day : Days, by : Requests])
  BY StateRows, RowFields DEF Touch
<1>5. ASSUME NEW r \in Requests, Click(r) PROVE Numbered'
  <2>1. UNCHANGED build /\ (RowsMove(r) \/ Wipes(r))
    BY <1>5, ClickSteps DEF Alone, Keeps
  <2>2. CASE rows' = rows
    BY <1>1, <1>2, <2>1, <2>2
  <2>3. ASSUME Step(r) = "put", NEW state, IsState(state, Days, Requests), Few(state),
               rows' = WithSend(state, req[r].to, Stamp(r), today)
        PROVE  Few(rows')
    <3>1. req[r].to \in Contacts /\ Stamp(r) \in [day : Days, by : Requests]
      BY <2>3, RequestFacts DEF Active, Stamp
    <3>2. /\ \A c : c # req[r].to => RowOf(rows', c) = RowOf(state, c)
          /\ Touch(rows', req[r].to) = Touch(state, req[r].to) + 1
          /\ RowOf(rows', req[r].to).sentAt = Append(RowOf(state, req[r].to).sentAt, Stamp(r))
      BY <1>1, <2>3, <3>1, WithSendFacts
    <3>3. Len(RowOf(rows', req[r].to).sentAt) <= Touch(rows', req[r].to)
      <4> DEFINE sentAt == RowOf(state, req[r].to).sentAt
      <4>1. sentAt \in Seq([day : Days, by : Requests])
            /\ Len(sentAt) <= Touch(state, req[r].to) /\ Touch(state, req[r].to) \in Nat
        BY <1>4, <2>3, <3>1
      <4> HIDE DEF sentAt
      <4>2. Len(Append(sentAt, Stamp(r))) = Len(sentAt) + 1
        BY <3>1, <4>1
      <4>3. Len(sentAt) \in Nat
        BY <4>1
      <4> QED BY <3>2, <4>1, <4>2, <4>3 DEF sentAt
    <3>4. \A c : c # req[r].to => Touch(rows', c) = Touch(state, c)
      BY <3>2 DEF Touch
    <3> QED BY <2>3, <3>2, <3>3, <3>4
  <2>4. ASSUME NEW flag \in Flags, NEW state, IsState(state, Days, Requests), Few(state),
               rows' = WithFlag(state, req[r].to, flag)
        PROVE  Few(rows')
    <3>1. \A c : /\ Touch(rows', c) = Touch(state, c)
                 /\ RowOf(rows', c).sentAt = RowOf(state, c).sentAt
      BY <2>4, WithFlagFacts
    <3> QED BY <2>4, <3>1
  <2>5. CASE RowsMove(r)
    BY <1>1, <1>2, <2>1, <2>2, <2>3, <2>4, <2>5 DEF RowsMove
  <2>6. CASE Wipes(r)
    <3>1. IsState(<<>>, Days, Requests)
      BY NoRows
    <3> HIDE DEF Few
    <3> QED BY <1>1, <1>2, <1>3, <2>1, <2>3, <2>4, <2>6, <3>1 DEF Wipes
  <2> QED BY <2>1, <2>5, <2>6
<1>6. CASE Pull
  BY <1>1, <1>2, <1>6, WorkflowSteps DEF Pull
<1>7. CASE Build
  <2>1. PICK drafts \in SUBSET Contacts : build'.local = WithDrafts(build.local, drafts, today)
    BY <1>7, WorkflowSteps
  <2>2. \A c : /\ Touch(build'.local, c) = Touch(build.local, c)
               /\ RowOf(build'.local, c).sentAt = RowOf(build.local, c).sentAt
    BY <1>1, <2>1, WithDraftsFacts
  <2> QED BY <1>1, <1>2, <1>7, <2>2 DEF Build
<1>8. CASE MergeRows
  <2>1. build'.local = Merge(build.local, rows)
    BY <1>8, WorkflowSteps
  <2>2. Few(build'.local)
    BY <1>1, <2>1, MergeFacts
  <2> QED BY <1>1, <1>2, <1>8, <2>2 DEF MergeRows
<1>9. CASE PushRows
  BY <1>1, <1>2, <1>3, <1>9, WorkflowSteps DEF PushRows
<1>10. CASE PushBatch \/ Abort
  BY <1>1, <1>2, <1>3, <1>10, WorkflowSteps DEF PushBatch, Abort
<1>11. CASE NextDay
  BY <1>1, <1>2, <1>11 DEF NextDay
<1> QED BY <1>5, <1>6, <1>7, <1>8, <1>9, <1>10, <1>11 DEF Next

\* Of all the steps, what a request sees: it is taken further as it is, or it comes in;
\* it gets past its gates by passing them, or needs not; what is recorded stays as it is.
LEMMA Moves ==
  ASSUME TypeOK, Next, NEW s \in Requests
  PROVE  /\ Active(s)' => \/ Active(s) /\ Same(s)
                          \/ Comes(s)
         /\ Through(s)' => \/ Passes(s)
                           \/ Through(s) /\ Same(s) /\ Past(s)
                           \/ Comes(s) /\ req'[s].kind \notin {"open", "sent"}
         /\ Recorded(s)' => Files(s) \/ Recorded(s)
         /\ Recorded(s) => req'[s] = req[s]
         /\ Active(s)' => req'[s].to \in Contacts
<1>1. Active(s)' => req'[s].to \in Contacts
  BY NextTypes DEF TypeOK, Active
<1>2. CASE req'[s] = req[s]
  BY <1>1, <1>2 DEF Active, Through, Recorded, Step, Same, Past
<1>3. CASE req'[s] # req[s]
  <2>1. PICK r \in Requests : Click(r)
    BY <1>3 DEF Next, Pull, Build, MergeRows, PushRows, PushBatch, Abort, NextDay
  <2>2. r = s
    BY <1>3, <2>1, ClickSteps DEF Alone
  <2>3. /\ ~Recorded(s)
        /\ Comes(s) \/ req'[s] = Ended \/ Passes(s) \/ Goes(s) \/ Files(s)
    BY <2>1, <2>2, ClickSteps
  <2>4. CASE Comes(s)
    BY <1>1, <2>3, <2>4 DEF Comes, Active, Through, Recorded, Step
  <2>5. CASE req'[s] = Ended
    BY <2>3, <2>5, FreshType DEF Active, Through, Recorded, Step
  <2>6. CASE Passes(s)
    BY <1>1, <2>3, <2>6 DEF Passes, Active, Through, Recorded, Step
  <2>7. CASE Goes(s)
    BY <1>1, <2>3, <2>7 DEF Goes, Past, Active, Through, Recorded, Step
  <2>8. CASE Files(s)
    BY <1>1, <2>3, <2>8 DEF Files, Past, Active, Through, Recorded, Step
  <2> QED BY <2>3, <2>4, <2>5, <2>6, <2>7, <2>8
<1> QED BY <1>2, <1>3

LEMMA NextDated == TypeOK /\ Dated /\ Next => Dated'
<1> SUFFICES ASSUME TypeOK, Dated, Next, NEW s \in Requests
             PROVE  /\ req'[s].day <= today'
                    /\ Step(s)' \in {"gate", "read", "put"} => req'[s].day = today'
                    /\ Recorded(s)' => req'[s].kind \in {"open", "sent"}
                    /\ req'[s].before # {} => Through(s)'
                    /\ \A q \in req'[s].before : Recorded(q)'
                    /\ Active(s)' /\ req'[s].kind = "open" => req'[s].draft # {}
  BY DEF Dated
<1>1. /\ req[s].day <= today
      /\ Step(s) \in {"gate", "read", "put"} => req[s].day = today
      /\ Recorded(s) => req[s].kind \in {"open", "sent"}
      /\ req[s].before # {} => Through(s)
      /\ \A q \in req[s].before : Recorded(q)
      /\ Active(s) /\ req[s].kind = "open" => req[s].draft # {}
  BY DEF Dated
<1>2. today \in Nat /\ req[s].day \in Nat /\ req[s].before \subseteq Requests
  BY RequestFacts DEF TypeOK, Days
<1>3. ASSUME NEW q \in Requests, Recorded(q) PROVE Recorded(q)'
  BY <1>3, Moves DEF Recorded, Step
<1>4. CASE req'[s] = req[s] /\ UNCHANGED today
  BY <1>1, <1>2, <1>3, <1>4 DEF Recorded, Step, Active, Through
<1>5. CASE req'[s] = req[s] /\ today' # today
  <2>1. today' = today + 1 /\ Step(s) \in {"new", "done", "ended"}
    <3>1. ASSUME NEW r \in Requests, Click(r) PROVE FALSE
      BY <1>5, <3>1, ClickSteps DEF Alone
    <3> QED BY <1>5, <3>1 DEF Next, Pull, Build, MergeRows, PushRows, PushBatch, Abort, NextDay
  <2> QED BY <1>1, <1>2, <1>3, <1>5, <2>1 DEF Recorded, Step, Active, Through
<1>6. CASE req'[s] # req[s]
  <2>1. PICK r \in Requests : Click(r)
    BY <1>6 DEF Next, Pull, Build, MergeRows, PushRows, PushBatch, Abort, NextDay
  <2>2. r = s
    BY <1>6, <2>1, ClickSteps DEF Alone
  <2>3. /\ Alone(s)
        /\ Comes(s) \/ req'[s] = Ended \/ Passes(s) \/ Goes(s) \/ Files(s)
    BY <2>1, <2>2, ClickSteps
  <2>4. today' = today
    BY <2>3 DEF Alone
  <2>5. CASE Comes(s)
    BY <1>2, <2>4, <2>5 DEF Comes, Recorded, Step
  <2>6. CASE req'[s] = Ended
    BY <1>2, <2>4, <2>6, FreshType DEF Active, Recorded, Step
  <2>7. CASE Passes(s)
    BY <1>1, <1>2, <1>3, <2>4, <2>7 DEF Passes, Same, Active, Through, Recorded, Step
  <2>8. CASE Goes(s)
    BY <1>1, <1>2, <1>3, <2>4, <2>8 DEF Goes, Past, Same, Active, Through, Recorded, Step
  <2>9. CASE Files(s)
    BY <1>1, <1>2, <1>3, <2>4, <2>9 DEF Files, Past, Same, Active, Through, Recorded, Step
  <2> QED BY <2>3, <2>5, <2>6, <2>7, <2>8, <2>9
<1> QED BY <1>4, <1>5, <1>6

-----------------------------------------------------------------------------
(* What holds until something is lost. *)

\* The touches of a state are numbers.
LEMMA TouchNat ==
  ASSUME TypeOK
  PROVE  /\ \A a : Touch(rows, a) \in Nat /\ Touch(build.local, a) \in Nat
         /\ \A a : RowOf(rows, a).due \in Nat /\ RowOf(build.local, a).due \in Nat
         /\ \A a \in DOMAIN batch : batch[a] \in Nat
         /\ \A a \in DOMAIN build.drafts : build.drafts[a] \in Nat
         /\ DOMAIN batch \subseteq Contacts /\ DOMAIN build.drafts \subseteq Contacts
         /\ today \in Nat
BY StateRows, RowFields DEF TypeOK, IsBatch, Days, Touch

LEMMA NextBehind ==
  ASSUME TypeOK, Numbered, Behind, Next, ~lost'
  PROVE  Behind'
<1>1. \A a : /\ Touch(rows, a) <= Touch(rows', a)
             /\ Sends(rows, a) \subseteq Sends(rows', a)
  BY Grows
<1>2. /\ \A a : /\ Touch(rows, a) \in Nat /\ Touch(build.local, a) \in Nat
                /\ Touch(rows', a) \in Nat /\ Touch(build'.local, a) \in Nat
      /\ \A a \in DOMAIN batch : batch[a] \in Nat
      /\ \A a \in DOMAIN build.drafts : build.drafts[a] \in Nat
      /\ DOMAIN batch \subseteq Contacts /\ DOMAIN build.drafts \subseteq Contacts
  <2>1. TypeOK'
    BY NextTypes
  <2>2. \A a : Touch(rows', a) \in Nat /\ Touch(build'.local, a) \in Nat
    BY <2>1, StateRows, RowFields DEF TypeOK, Touch
  <2> QED BY <2>2, TouchNat
<1>3. ASSUME NEW r \in Requests, Active(r)', NEW touch \in req'[r].draft
      PROVE  touch <= Touch(rows', req'[r].to)
  <2>1. touch \in Nat /\ req'[r].to \in Contacts
    <3>1. TypeOK'
      BY NextTypes
    <3>2. req'[r].draft \subseteq Nat
      BY <3>1, ClickType DEF TypeOK, AllClicks, ClicksOn
    <3> QED BY <1>3, <3>2, Moves
  <2>2. touch <= Touch(rows, req'[r].to)
    <3>1. CASE Active(r) /\ Same(r)
      BY <1>3, <3>1 DEF Behind, Same
    <3>2. CASE Comes(r)
      BY <1>3, <3>2 DEF Behind, Comes
    <3> QED BY <1>3, <3>1, <3>2, Moves
  <2> QED BY <1>1, <1>2, <2>1, <2>2
<1>4. \A a \in DOMAIN batch' : batch'[a] <= Touch(rows', a)
  <2>1. batch' = batch \/ batch' = build.drafts
    <3>1. ASSUME NEW r \in Requests, Click(r) PROVE batch' = batch
      BY <3>1, ClickSteps DEF Alone
    <3> QED BY <3>1 DEF Next, Pull, Build, MergeRows, PushRows, PushBatch, Abort, NextDay
  <2>2. ASSUME NEW a \in DOMAIN batch' PROVE batch'[a] <= Touch(rows, a) /\ batch'[a] \in Nat
    BY <1>2, <2>1, <2>2 DEF Behind
  <2> QED BY <1>1, <1>2, <2>2
<1>5. /\ \A a \in Contacts : /\ Touch(build'.local, a) <= Touch(rows', a)
                             /\ Sends(build'.local, a) \subseteq Sends(rows', a)
      /\ \A a \in DOMAIN build'.drafts : build'.drafts[a] <= Touch(rows', a)
  <2>0. \A a : Touch(<<>>, a) = 0 /\ Sends(<<>>, a) = {}
    BY NoRows DEF Touch, Sends, ToSet
  <2> DEFINE Low(local) == \A a \in Contacts : /\ Touch(local, a) <= Touch(rows, a)
                                               /\ Sends(local, a) \subseteq Sends(rows, a)
             Older(drafts) == \A a \in DOMAIN drafts : drafts[a] <= Touch(rows, a) /\ drafts[a] \in Nat
  <2>1. Low(build.local) /\ Older(build.drafts) /\ Low(<<>>) /\ Older(<<>>)
    BY <1>2, <2>0, NoRows DEF Behind
  <2>2. SUFFICES Low(build'.local) /\ Older(build'.drafts)
    BY <1>1, <1>2
  <2>3. CASE UNCHANGED build
    BY <2>1, <2>3
  <2>4. CASE Pull
    BY <1>2, <2>1, <2>4, WorkflowSteps
  <2>5. CASE Build
    <3>1. PICK drafts \in SUBSET Contacts :
            /\ build'.local = WithDrafts(build.local, drafts, today)
            /\ build'.drafts = [a \in drafts |-> Touch(build.local, a)]
      BY <2>5, WorkflowSteps
    <3>2. \A c : Touch(build'.local, c) = Touch(build.local, c)
                 /\ RowOf(build'.local, c).sentAt = RowOf(build.local, c).sentAt
      BY <3>1, WithDraftsFacts, TouchNat DEF TypeOK
    <3>3. Low(build'.local)
      BY <2>1, <3>2 DEF Sends
    <3>4. Older(build'.drafts)
      BY <1>2, <2>1, <3>1
    <3> QED BY <3>3, <3>4
  <2>6. CASE MergeRows
    <3>1. build'.local = Merge(build.local, rows) /\ build'.drafts = build.drafts
      BY <2>6, WorkflowSteps
    <3>2. IsState(build.local, Days, Requests) /\ IsState(rows, Days, Requests)
      BY DEF TypeOK
    <3>3. ASSUME NEW a \in Contacts
          PROVE  /\ Touch(build'.local, a) = Touch(rows, a)
                 /\ Sends(build'.local, a) = Sends(rows, a)
      <4>1. /\ Touch(build.local, a) <= Touch(rows, a)
            /\ Sends(build.local, a) \subseteq Sends(rows, a)
            /\ Len(RowOf(rows, a).sentAt) <= Touch(rows, a)
        BY <2>1 DEF Numbered
      <4> DEFINE new == Merge(build.local, rows)
      <4>2. /\ Sends(new, a) = Sends(build.local, a) \cup Sends(rows, a)
            /\ (/\ Touch(build.local, a) <= Touch(rows, a)
                /\ Sends(build.local, a) \subseteq Sends(rows, a)
                /\ Len(RowOf(rows, a).sentAt) <= Touch(rows, a))
               => Touch(new, a) = Touch(rows, a)
        BY <3>2, MergeFacts
      <4> HIDE DEF new
      <4>3. Touch(new, a) = Touch(rows, a) /\ Sends(new, a) = Sends(rows, a)
        BY <4>1, <4>2
      <4> QED BY <3>1, <4>3 DEF new
    <3> QED BY <1>2, <2>1, <3>1, <3>3
  <2>7. CASE PushRows
    BY <2>1, <2>7, WorkflowSteps
  <2>8. CASE PushBatch \/ Abort
    BY <2>1, <2>8, WorkflowSteps
  <2>9. CASE NextDay
    BY <2>3, <2>9 DEF NextDay
  <2>10. ASSUME NEW r \in Requests, Click(r) PROVE UNCHANGED build
    BY <2>10, ClickSteps DEF Alone
  <2> QED BY <2>3, <2>4, <2>5, <2>6, <2>7, <2>8, <2>9, <2>10 DEF Next
<1> QED BY <1>3, <1>4, <1>5 DEF Behind

LEMMA NextFlagged ==
  ASSUME TypeOK, Flagged, Next, ~lost'
  PROVE  Flagged'
<1> SUFFICES ASSUME NEW r \in Requests, Active(r)'
             PROVE  /\ req'[r].answered => RowOf(rows', req'[r].to).flags # {}
                    /\ Through(r)' /\ req'[r].kind = "open" /\ ~req'[r].blind
                         => ~req'[r].answered
  BY DEF Flagged
<1>1. \A a : RowOf(rows, a).flags \subseteq RowOf(rows', a).flags
  BY Grows
<1>2. req'[r].answered => RowOf(rows', req'[r].to).flags # {}
  <2>1. CASE Active(r) /\ Same(r)
    BY <1>1, <2>1 DEF Flagged, Same
  <2>2. CASE Comes(r)
    BY <1>1, <2>2 DEF Comes
  <2> QED BY <2>1, <2>2, Moves
<1>3. ASSUME Through(r)', req'[r].kind = "open", ~req'[r].blind PROVE ~req'[r].answered
  <2>1. CASE Passes(r)
    <3>1. RowOf(rows, req[r].to).flags = {}
      BY <1>3, <2>1 DEF Passes, Same, Refused, Answered
    <3> QED BY <2>1, <3>1 DEF Passes, Same, Flagged, Active
  <2>2. CASE Through(r) /\ Same(r) /\ Past(r)
    BY <1>3, <2>2 DEF Flagged, Same, Past, Through, Active
  <2>3. CASE Comes(r) /\ req'[r].kind \notin {"open", "sent"}
    BY <1>3, <2>3
  <2> QED BY <1>3, <2>1, <2>2, <2>3, Moves
<1> QED BY <1>2, <1>3

\* What is on file after a send is recorded.
LEMMA FilesFacts ==
  ASSUME TypeOK, NEW r \in Requests, Files(r), ~lost'
  PROVE  LET a == req[r].to IN
         /\ a \in Contacts
         /\ Touch(rows', a) = Touch(rows, a) + 1 /\ req'[r].made = Touch(rows, a) + 1
         /\ Stamp(r) \in Sends(rows', a)
         /\ RowOf(rows', a).due = today + GapFor(Touch(rows, a) + 1)
         /\ \A c : c # a => RowOf(rows', c) = RowOf(rows, c)
<1> DEFINE a == req[r].to
           sentAt == RowOf(rows, a).sentAt
           T == [day : Days, by : Requests]
<1>1. IsState(rows, Days, Requests) /\ today \in Nat
  BY DEF TypeOK, Days
<1>2. a \in Contacts /\ Stamp(r) \in T
  BY RequestFacts DEF Files, Active, Stamp
<1>3. rows' = WithSend(rows, a, Stamp(r), today) /\ req'[r].made = Touch(rows', a)
  BY DEF Files
<1>4. sentAt \in Seq(T)
  BY <1>1, StateRows, RowFields
<1>5. /\ Touch(rows', a) = Touch(rows, a) + 1
      /\ RowOf(rows', a).sentAt = Append(sentAt, Stamp(r))
      /\ RowOf(rows', a).due = today + GapFor(Touch(rows, a) + 1)
      /\ \A c : c # a => RowOf(rows', c) = RowOf(rows, c)
  BY <1>1, <1>2, <1>3, WithSendFacts
<1> HIDE DEF sentAt, T
<1>6. ToSet(Append(sentAt, Stamp(r))) = ToSet(sentAt) \cup {Stamp(r)}
  BY <1>2, <1>4, ToSetFacts
<1>7. Stamp(r) \in Sends(rows', a)
  BY <1>5, <1>6 DEF Sends
<1> QED BY <1>2, <1>3, <1>5, <1>7

LEMMA NextFiled ==
  ASSUME TypeOK, Behind, Filed, Next, ~lost'
  PROVE  Filed'
<1> SUFFICES ASSUME NEW r \in Requests, Recorded(r)'
             PROVE  /\ [day |-> req'[r].day, by |-> r] \in Sends(rows', req'[r].to)
                    /\ req'[r].made \in 1..Touch(rows', req'[r].to)
                    /\ \A touch \in req'[r].draft : touch < req'[r].made
  BY DEF Filed
<1>1. /\ \A a : /\ Touch(rows, a) <= Touch(rows', a)
                /\ Sends(rows, a) \subseteq Sends(rows', a)
      /\ \A a : Touch(rows, a) \in Nat /\ Touch(rows', a) \in Nat
  BY Grows
<1>2. CASE Recorded(r)
  <2>1. req'[r] = req[r]
    BY <1>2, Moves
  <2>2. /\ [day |-> req[r].day, by |-> r] \in Sends(rows, req[r].to)
        /\ req[r].made \in 1..Touch(rows, req[r].to)
        /\ \A touch \in req[r].draft : touch < req[r].made
    BY <1>2 DEF Filed
  <2>3. req[r].made \in 1..Touch(rows', req[r].to)
    BY <1>1, <2>2
  <2> QED BY <1>1, <2>1, <2>2, <2>3
<1>3. CASE Files(r)
  <2>1. /\ Touch(rows', req[r].to) = Touch(rows, req[r].to) + 1
        /\ req'[r].made = Touch(rows, req[r].to) + 1
        /\ Stamp(r) \in Sends(rows', req[r].to)
    BY <1>3, FilesFacts
  <2>2. req'[r].day = req[r].day /\ req'[r].to = req[r].to /\ req'[r].draft = req[r].draft
    BY <1>3 DEF Files, Same
  <2>3. \A touch \in req[r].draft : touch \in Nat /\ touch <= Touch(rows, req[r].to)
    BY <1>3, RequestFacts DEF Files, Behind, Active
  <2> QED BY <1>1, <2>1, <2>2, <2>3 DEF Stamp
<1> QED BY <1>2, <1>3, Moves

LEMMA NextKnown ==
  ASSUME TypeOK, Dated, Filed, Known, Next, ~lost'
  PROVE  Known'
<1> SUFFICES ASSUME NEW s \in Requests, NEW r \in req'[s].before, ~req'[s].blind,
                    req'[r].to = req'[s].to, NEW touch \in req'[s].draft
             PROVE  req'[r].made <= touch
  BY DEF Known
<1>1. Through(s)'
  BY NextDated DEF Dated
<1>2. CASE Passes(s)
  <2>1. r \in Requests /\ Recorded(r)
    BY <1>2 DEF Passes
  <2>2. req'[r] = req[r]
    BY <2>1, Moves
  <2>3. touch \in req[s].draft /\ req'[s].to = req[s].to
    BY <1>2 DEF Passes, Same
  <2>4. ~(Touch(rows, req[s].to) > touch)
    BY <1>2, <2>3 DEF Passes, Refused, AlreadyRecorded, Touch
  <2>5. req[r].made \in 1..Touch(rows, req[r].to)
    BY <2>1 DEF Filed
  <2>6. touch \in Nat /\ Touch(rows, req[s].to) \in Nat
    BY <2>3, RequestFacts, TouchNat
  <2> QED BY <2>2, <2>3, <2>4, <2>5, <2>6
<1>3. CASE Through(s) /\ Same(s) /\ Past(s)
  <2>1. r \in Requests /\ Recorded(r)
    BY <1>3, RequestFacts DEF Dated, Past
  <2>2. req'[r] = req[r]
    BY <2>1, Moves
  <2> QED BY <1>3, <2>2 DEF Known, Same, Past
<1>4. CASE Comes(s)
  BY <1>4 DEF Comes
<1> QED BY <1>1, <1>2, <1>3, <1>4, Moves

\* A recorded send stays on file with its due date, unless a publication loses it.
LEMMA DueKept ==
  ASSUME TypeOK, Dated, Behind, Filed, Spaced, Next, ~lost',
         NEW r \in Requests, Recorded(r)
  PROVE  Over(r) <= RowOf(rows', req[r].to).due
<1> DEFINE a == req[r].to
<1>1. /\ Over(r) <= RowOf(rows, a).due /\ Over(r) \in Nat /\ a \in Contacts
      /\ req[r].made \in Nat /\ req[r].made <= Touch(rows, a) /\ req[r].day <= today
      /\ req[r].day \in Nat
  <2>1. req[r].day \in Nat /\ req[r].made \in Nat /\ a \in Contacts
    BY RequestFacts DEF Recorded, Active
  <2>2. Over(r) \in Nat
    BY <2>1, GapFacts DEF Over
  <2>3. Over(r) <= RowOf(rows, a).due
    BY DEF Spaced
  <2>4. req[r].made \in 1..Touch(rows, a) /\ Touch(rows, a) \in Nat
    <3>1. req[r].made \in 1..Touch(rows, a)
      BY DEF Filed
    <3> QED BY <3>1, TouchNat
  <2> QED BY <2>1, <2>2, <2>3, <2>4 DEF Dated
<1>2. CASE rows' = rows
  BY <1>1, <1>2
<1>3. CASE PushRows
  <2>1. rows' = build.local
    BY <1>3 DEF PushRows
  <2>2. Touch(rows, a) <= Touch(build.local, a)
    BY <2>1, Grows
  <2>3. req[r].made <= Touch(build.local, a)
    BY <1>1, <2>2, TouchNat
  <2> QED BY <2>1, <2>3 DEF Spaced
<1>4. ASSUME NEW s \in Requests, Click(s) PROVE Over(r) <= RowOf(rows', a).due
  <2>1. RowsMove(s) /\ IsState(rows, Days, Requests) /\ today \in Nat
    BY <1>4, ClickSteps, TouchNat DEF TypeOK, Keeps, Wipes
  <2>2. ASSUME Step(s) = "put", rows' = WithSend(rows, req[s].to, Stamp(s), today)
        PROVE  Over(r) <= RowOf(rows', a).due
    <3>1. req[s].to \in Contacts /\ Stamp(s) \in [day : Days, by : Requests]
      BY <2>2, RequestFacts DEF Active, Stamp
    <3>2. /\ \A c : c # req[s].to => RowOf(rows', c) = RowOf(rows, c)
          /\ RowOf(rows', req[s].to).due = today + GapFor(Touch(rows, req[s].to) + 1)
      BY <2>1, <2>2, <3>1, WithSendFacts
    <3>3. CASE a = req[s].to
      <4>1. Touch(rows, a) \in Nat /\ Touch(rows, a) + 1 \in Nat
        BY TouchNat
      <4>2. GapFor(req[r].made) <= GapFor(Touch(rows, a) + 1)
        BY <1>1, <4>1, GapFacts
      <4>3. GapFor(req[r].made) \in Nat /\ GapFor(Touch(rows, a) + 1) \in Nat
        BY <1>1, <4>1, GapFacts
      <4> QED BY <1>1, <2>1, <3>2, <3>3, <4>2, <4>3 DEF Over
    <3> QED BY <1>1, <3>2, <3>3
  <2>3. ASSUME NEW flag \in Flags, rows' = WithFlag(rows, req[s].to, flag)
        PROVE  Over(r) <= RowOf(rows', a).due
    BY <1>1, <2>1, <2>3, WithFlagFacts
  <2> QED BY <1>1, <2>1, <2>2, <2>3 DEF RowsMove
<1> QED BY <1>2, <1>3, <1>4 DEF Next, Pull, Build, MergeRows, PushBatch, Abort, NextDay

LEMMA NextSpaced ==
  ASSUME TypeOK, Dated, Behind, Filed, Spaced, Next, ~lost'
  PROVE  Spaced'
<1> SUFFICES ASSUME NEW r \in Requests, Recorded(r)'
             PROVE  LET a == req'[r].to
                        over == req'[r].day + GapFor(req'[r].made)
                    IN
                    /\ over <= RowOf(rows', a).due
                    /\ req'[r].made <= Touch(build'.local, a) => over <= RowOf(build'.local, a).due
                    /\ a \in DOMAIN build'.drafts /\ req'[r].made <= build'.drafts[a]
                         => over <= today'
                    /\ a \in DOMAIN batch' /\ req'[r].made <= batch'[a] => over <= today'
                    /\ \A s \in Requests : Active(s)' /\ req'[s].to = a =>
                         \A touch \in req'[s].draft : req'[r].made <= touch => over <= req'[s].day
  BY DEF Spaced, Over
<1>1. CASE Files(r)
  <2> DEFINE a == req[r].to
  <2>1. /\ req'[r].to = a /\ req'[r].day = today /\ a \in Contacts
        /\ req'[r].made = Touch(rows, a) + 1
        /\ RowOf(rows', a).due = today + GapFor(Touch(rows, a) + 1)
        /\ UNCHANGED <<batch, build>>
        /\ \A s \in Requests : s # r => req'[s] = req[s]
        /\ req'[r].draft = req[r].draft
    BY <1>1, FilesFacts DEF Files, Same, Alone, Dated
  <2>2. /\ Touch(rows, a) \in Nat /\ Touch(build.local, a) <= Touch(rows, a)
        /\ Touch(build.local, a) \in Nat
        /\ a \in DOMAIN build.drafts => build.drafts[a] \in Nat /\ build.drafts[a] <= Touch(rows, a)
        /\ a \in DOMAIN batch => batch[a] \in Nat /\ batch[a] <= Touch(rows, a)
    BY <2>1, TouchNat DEF Behind
  <2>3. /\ today + GapFor(Touch(rows, a) + 1) \in Nat
        /\ GapFor(Touch(rows, a) + 1) \in Nat
    BY <2>2, TouchNat, GapFacts
  <2>4. ASSUME NEW s \in Requests, Active(s)', req'[s].to = a, NEW touch \in req'[s].draft
        PROVE  touch \in Nat /\ touch <= Touch(rows, a)
    <3>1. Active(s) /\ req[s].to = a /\ touch \in req[s].draft
      BY <1>1, <2>1, <2>4 DEF Active, Step, Files
    <3> QED BY <3>1, RequestFacts DEF Behind
  <2> HIDE DEF a
  <2>5. /\ ~(req'[r].made <= Touch(build.local, a))
        /\ ~(a \in DOMAIN build.drafts /\ req'[r].made <= build.drafts[a])
        /\ ~(a \in DOMAIN batch /\ req'[r].made <= batch[a])
        /\ \A s \in Requests : Active(s)' /\ req'[s].to = a =>
             \A touch \in req'[s].draft : ~(req'[r].made <= touch)
    BY <2>1, <2>2, <2>4
  <2>6. req'[r].day + GapFor(req'[r].made) <= RowOf(rows', a).due
    BY <2>1, <2>2, <2>3
  <2> QED BY <2>1, <2>5, <2>6
<1>2. CASE Recorded(r)
  <2> DEFINE a == req[r].to
             made == req[r].made
  <2>1. req'[r] = req[r]
    BY <1>2, Moves
  <2>2. /\ Over(r) \in Nat /\ made \in Nat /\ made # 0 /\ today \in Nat
        /\ \A c : Touch(rows, c) \in Nat /\ Touch(build.local, c) \in Nat
        /\ \A c : RowOf(build.local, c).due \in Nat /\ RowOf(rows, c).due \in Nat
    <3>1. req[r].day \in Nat /\ made \in Nat
      BY RequestFacts
    <3>2. Over(r) \in Nat
      BY <3>1, GapFacts DEF Over
    <3>3. made # 0
      <4>1. made \in 1..Touch(rows, a)
        BY <1>2 DEF Filed
      <4> QED BY <4>1
    <3> QED BY <3>1, <3>2, <3>3, TouchNat
  <2>3. /\ Over(r) <= RowOf(rows, a).due
        /\ made <= Touch(build.local, a) => Over(r) <= RowOf(build.local, a).due
        /\ a \in DOMAIN build.drafts /\ made <= build.drafts[a] => Over(r) <= today
        /\ a \in DOMAIN batch /\ made <= batch[a] => Over(r) <= today
        /\ \A s \in Requests : Active(s) /\ req[s].to = a =>
             \A touch \in req[s].draft : made <= touch => Over(r) <= req[s].day
    BY <1>2 DEF Spaced
  <2>4. today' \in Nat /\ today <= today'
    <3>1. today' = today \/ today' = today + 1
      <4>1. ASSUME NEW s \in Requests, Click(s) PROVE today' = today
        BY <4>1, ClickSteps DEF Alone
      <4> QED BY <4>1 DEF Next, Pull, Build, MergeRows, PushRows, PushBatch, Abort, NextDay
    <3> QED BY <2>2, <3>1
  <2>5. Over(r) <= RowOf(rows', a).due
    BY <1>2, DueKept
  <2>6. /\ made <= Touch(build'.local, a) => Over(r) <= RowOf(build'.local, a).due
        /\ a \in DOMAIN build'.drafts /\ made <= build'.drafts[a] => Over(r) <= today'
    <3>0. Touch(<<>>, a) = 0 /\ DOMAIN <<>> = {}
      BY NoRows DEF Touch
    <3>1. CASE UNCHANGED build
      BY <2>2, <2>3, <2>4, <3>1
    <3>2. CASE Pull
      BY <2>2, <2>3, <3>0, <3>2, WorkflowSteps
    <3>3. CASE Build
      <4>1. PICK drafts \in SUBSET Contacts :
              /\ drafts \subseteq FollowUps(build.local, today) \cup FirstTouches(build.local)
              /\ build'.local = WithDrafts(build.local, drafts, today)
              /\ build'.drafts = [c \in drafts |-> Touch(build.local, c)]
        BY <3>3, WorkflowSteps
      <4>2. /\ Touch(build'.local, a) = Touch(build.local, a)
            /\ Touch(build'.local, a) # 0 => RowOf(build'.local, a).due = RowOf(build.local, a).due
        BY <2>2, <4>1, WithDraftsFacts DEF TypeOK
      <4>3. made <= Touch(build'.local, a) => Over(r) <= RowOf(build'.local, a).due
        BY <2>2, <2>3, <4>2
      <4>4. ASSUME a \in drafts, made <= Touch(build.local, a) PROVE Over(r) <= today
        <5>1. Touch(build.local, a) # 0
          BY <2>2, <4>4
        <5>2. a \in FollowUps(build.local, today)
          BY <4>1, <4>4, <5>1 DEF FirstTouches, Touch
        <5>3. RowOf(build.local, a).due <= today
          BY <5>2 DEF FollowUps, RowOf
        <5> QED BY <2>2, <2>3, <4>4, <5>3
      <4> QED BY <2>2, <2>4, <4>1, <4>3, <4>4
    <3>4. CASE MergeRows
      <4> DEFINE new == Merge(build.local, rows)
      <4>1. build'.local = new /\ build'.drafts = build.drafts
        BY <3>4, WorkflowSteps
      <4>2. RowOf(new, a).due >= RowOf(rows, a).due /\ IsState(new, Days, Requests)
        BY MergeFacts DEF TypeOK
      <4>3. RowOf(new, a).due \in Nat
        BY <4>2, StateRows, RowFields
      <4> HIDE DEF new
      <4> QED BY <2>2, <2>3, <2>4, <4>1, <4>2, <4>3
    <3>5. CASE PushRows
      BY <2>2, <2>3, <2>4, <3>0, <3>5, WorkflowSteps
    <3>6. CASE PushBatch \/ Abort
      BY <2>2, <3>0, <3>6, WorkflowSteps
    <3>7. ASSUME NEW s \in Requests, Click(s) PROVE UNCHANGED build
      BY <3>7, ClickSteps DEF Alone
    <3> QED BY <3>1, <3>2, <3>3, <3>4, <3>5, <3>6, <3>7 DEF Next, NextDay
  <2>7. a \in DOMAIN batch' /\ made <= batch'[a] => Over(r) <= today'
    <3>1. batch' = batch \/ batch' = build.drafts
      <4>1. ASSUME NEW s \in Requests, Click(s) PROVE batch' = batch
        BY <4>1, ClickSteps DEF Alone
      <4> QED BY <4>1 DEF Next, Pull, Build, MergeRows, PushRows, PushBatch, Abort, NextDay
    <3> QED BY <2>2, <2>3, <2>4, <3>1
  <2>8. ASSUME NEW s \in Requests, Active(s)', req'[s].to = a,
               NEW touch \in req'[s].draft, made <= touch
        PROVE  Over(r) <= req'[s].day
    <3>1. CASE Active(s) /\ Same(s)
      BY <2>3, <2>8, <3>1 DEF Same
    <3>2. CASE Comes(s)
      BY <2>3, <2>8, <3>2 DEF Comes
    <3> QED BY <2>8, <3>1, <3>2, Moves
  <2> QED BY <2>1, <2>5, <2>6, <2>7, <2>8 DEF Over
<1> QED BY <1>1, <1>2, Moves

\* The sends of the last 24 hours that are recorded are among the stamps that count.
LEMMA CountedOnFile ==
  ASSUME TypeOK, Filed,
         NEW Q \in SUBSET {q \in Requests : Recorded(q) /\ req[q].day + 1 >= today}
  PROVE  /\ IsFiniteSet(Q) /\ Cardinality(Q) <= SentInLast24h(rows, today)
         /\ Cardinality(Q) \in Nat /\ SentInLast24h(rows, today) \in Nat
<1> DEFINE day == IF today = 0 THEN 0 ELSE today - 1
           On(a) == {k \in DOMAIN rows[a].sentAt : rows[a].sentAt[k].day >= day}
           Marks(a) == {<<a, i>> : i \in On(a)}
           All == UNION {Marks(a) : a \in DOMAIN rows}
<1>1. SentInLast24h(rows, today) = Cardinality(All)
  BY DEF SentInLast24h, SentSince
<1>2. today \in Nat /\ day \in Nat /\ IsState(rows, Days, Requests)
  BY TouchNat DEF TypeOK
<1>3. DOMAIN rows \subseteq Contacts /\ \A a \in DOMAIN rows : rows[a] \in Row /\ RowOf(rows, a) = rows[a]
  BY <1>2, StateRows
<1>4. ASSUME NEW a \in DOMAIN rows PROVE IsFiniteSet(Marks(a))
  <2>1. rows[a].sentAt \in Seq([day : Days, by : Requests])
    BY <1>3, RowFields
  <2>2. Len(rows[a].sentAt) \in Nat /\ DOMAIN rows[a].sentAt = 1..Len(rows[a].sentAt)
    BY <2>1
  <2>3. On(a) \in SUBSET (1..Len(rows[a].sentAt)) /\ IsFiniteSet(1..Len(rows[a].sentAt))
    BY <2>2, FS_Interval
  <2>4. IsFiniteSet(On(a))
    BY <2>3, FS_Subset
  <2>5. [i \in On(a) |-> <<a, i>>] \in Surjection(On(a), Marks(a))
    BY DEF Surjection
  <2> QED BY <2>4, <2>5, FS_Surjection
<1>5. IsFiniteSet(All)
  <2>1. IsFiniteSet(DOMAIN rows)
    BY <1>3, ContactsAssumption, FS_Subset
  <2>2. [a \in DOMAIN rows |-> Marks(a)] \in Surjection(DOMAIN rows, {Marks(a) : a \in DOMAIN rows})
    BY DEF Surjection
  <2> HIDE DEF Marks
  <2>3. IsFiniteSet({Marks(a) : a \in DOMAIN rows})
    BY <2>1, <2>2, FS_Surjection
  <2>4. \A T \in {Marks(a) : a \in DOMAIN rows} : IsFiniteSet(T)
    BY <1>4
  <2> QED BY <2>3, <2>4, FS_UNION
<1> DEFINE Has(q, i) == i \in DOMAIN rows[req[q].to].sentAt /\ rows[req[q].to].sentAt[i] = Stamp(q)
           at(q) == CHOOSE i : Has(q, i)
           mark == [q \in Q |-> <<req[q].to, at(q)>>]
<1>6. ASSUME NEW q \in Q
      PROVE  req[q].to \in DOMAIN rows /\ Has(q, at(q)) /\ mark[q] \in All
  <2>1. q \in Requests /\ Recorded(q) /\ req[q].day + 1 >= today
    BY <1>6
  <2>2. Stamp(q) \in Sends(rows, req[q].to)
    BY <2>1 DEF Filed, Stamp
  <2>3. req[q].to \in DOMAIN rows
    <3>1. req[q].to \notin DOMAIN rows => Sends(rows, req[q].to) = {}
      BY <1>2, StateRows, NoRows DEF Sends, ToSet
    <3> QED BY <2>2, <3>1
  <2>4. \E i : Has(q, i)
    BY <1>3, <2>2, <2>3 DEF Sends, ToSet
  <2>5. Has(q, at(q))
    BY <2>4
  <2>6. req[q].day >= day
    BY <1>2, <2>1, RequestFacts
  <2>7. at(q) \in On(req[q].to)
    <3>1. Stamp(q).day = req[q].day
      BY DEF Stamp
    <3> HIDE DEF at, day
    <3> QED BY <2>5, <2>6, <3>1
  <2> HIDE DEF at, On
  <2>8. <<req[q].to, at(q)>> \in Marks(req[q].to)
    BY <2>7
  <2> QED BY <2>3, <2>5, <2>8
<1>7. ASSUME NEW p \in Q, NEW q \in Q, mark[p] = mark[q] PROVE p = q
  <2>1. Has(p, at(p)) /\ Has(q, at(q))
    BY <1>6
  <2>2. req[p].to = req[q].to /\ at(p) = at(q)
    <3> HIDE DEF at
    <3> QED BY <1>7
  <2>3. Stamp(p) = Stamp(q)
    <3> HIDE DEF at
    <3> QED BY <2>1, <2>2
  <2> QED BY <2>3 DEF Stamp
<1> HIDE DEF mark, All
<1>8. mark \in [Q -> All]
  BY <1>6 DEF mark
<1>9. mark \in Injection(Q, All)
  BY <1>7, <1>8 DEF Injection, IsInjective
<1>10. IsFiniteSet(Q) /\ Cardinality(Q) <= Cardinality(All)
  BY <1>5, <1>9, FS_Injection
<1> QED BY <1>1, <1>5, <1>10, FS_CardinalityType

LEMMA NextCapped ==
  ASSUME TypeOK, Dated, Filed, Capped, Next, ~lost'
  PROVE  Capped'
<1> SUFFICES ASSUME NEW s \in Requests, Through(s)', req'[s].kind = "open", ~req'[s].blind
             PROVE  Cardinality(Counted(s)') < Cap
  BY DEF Capped
<1>1. Counted(s)' = {r \in req'[s].before : Recorded(r)' /\ req'[r].day + 1 >= req'[s].day}
  BY DEF Counted
<1>2. CASE Passes(s)
  <2>1. req'[s].day = today /\ req'[s].before = {q \in Requests : Recorded(q)}
    BY <1>2 DEF Passes, Same, Dated
  <2>2. \A q \in Requests : Recorded(q) => Recorded(q)' /\ req'[q] = req[q]
    BY Moves DEF Recorded, Step
  <2>3. Counted(s)' \in SUBSET {q \in Requests : Recorded(q) /\ req[q].day + 1 >= today}
    BY <1>1, <2>1, <2>2
  <2>4. /\ Cardinality(Counted(s)') <= SentInLast24h(rows, today)
        /\ Cardinality(Counted(s)') \in Nat /\ SentInLast24h(rows, today) \in Nat
    BY <2>3, CountedOnFile
  <2>5. ~(SentInLast24h(rows, today) >= Cap)
    BY <1>2 DEF Passes, Same, Refused
  <2> QED BY <2>4, <2>5, CapAssumption
<1>3. CASE Through(s) /\ Same(s) /\ Past(s)
  <2>1. \A q \in req[s].before : Recorded(q) /\ Recorded(q)' /\ req'[q] = req[q]
    <3>1. \A q \in req[s].before : q \in Requests /\ Recorded(q)
      BY RequestFacts DEF Dated
    <3> QED BY <3>1, Moves DEF Recorded, Step
  <2>2. Counted(s)' = Counted(s)
    BY <1>1, <1>3, <2>1 DEF Counted, Same, Past
  <2>3. req[s].kind = "open" /\ ~req[s].blind
    BY <1>3 DEF Same, Past
  <2> QED BY <1>3, <2>2, <2>3 DEF Capped
<1>4. CASE Comes(s) /\ req'[s].kind \notin {"open", "sent"}
  BY <1>4
<1> QED BY <1>2, <1>3, <1>4, Moves

-----------------------------------------------------------------------------
(* The theorems. *)

LEMMA InitInv == Init => IInv
<1> SUFFICES ASSUME Init PROVE IInv
  OBVIOUS
<1>1. /\ rows = <<>> /\ batch = <<>> /\ build = Off /\ today = 0 /\ lost = FALSE
      /\ DOMAIN req = Requests /\ \A r \in Requests : req[r] = Fresh
  BY DEF Init
<1>2. /\ IsState(<<>>, Days, Requests) /\ DOMAIN <<>> = {}
      /\ \A a : RowOf(<<>>, a) = Blank
      /\ Blank.touch = 0 /\ Blank.sentAt = <<>> /\ Blank.due = 0 /\ Blank.flags = {}
  BY NoRows
<1>3. /\ Fresh \in AllClicks /\ Fresh.step = "new" /\ Fresh.before = {} /\ Fresh.day = 0
  BY FreshType
<1>4. Fresh \in ClicksOn({Fresh.seen}) /\ IsState(Fresh.seen, Days, Requests)
  BY <1>3, ClickType
<1>5. build.local = <<>> /\ build.drafts = <<>> /\ build.step = "off"
  BY <1>1 DEF Off
<1>6. 0 \in Days
  BY HostedAssumption DEF Days
<1>7. build \in [step : {"off", "building", "merging", "pushing", "publishing"},
                 local : {build.local}, drafts : {build.drafts}]
  BY <1>1 DEF Off
<1>8. TypeOK
  BY <1>1, <1>2, <1>3, <1>4, <1>5, <1>6, <1>7 DEF TypeOK, IsBatch, Step
<1>9. Numbered
  BY <1>1, <1>2, <1>5 DEF Numbered, Touch
<1>10. \A r \in Requests : Step(r) = "new" /\ req[r].before = {} /\ req[r].day = 0
  BY <1>1, <1>3 DEF Step
<1>11. \A r \in Requests : ~Active(r) /\ ~Through(r) /\ ~Recorded(r)
  BY <1>10 DEF Active, Through, Recorded
<1>12. Dated
  BY <1>1, <1>10, <1>11 DEF Dated
<1>13. Behind
  BY <1>1, <1>2, <1>5, <1>11 DEF Behind, Touch, Sends
<1>14. Filed /\ Flagged /\ Spaced /\ Known /\ Capped
  BY <1>10, <1>11 DEF Filed, Flagged, Spaced, Known, Capped
<1> QED BY <1>8, <1>9, <1>12, <1>13, <1>14 DEF IInv, Kept

LEMMA NextInv == IInv /\ [Next]_vars => IInv'
<1> SUFFICES ASSUME IInv, [Next]_vars PROVE IInv'
  OBVIOUS
<1>1. CASE Next
  <2>1. TypeOK /\ Numbered /\ Dated /\ (~lost => Kept)
    BY DEF IInv
  <2>2. TypeOK' /\ Numbered' /\ Dated'
    BY <1>1, <2>1, NextTypes, NextNumbered, NextDated
  <2>3. ASSUME ~lost' PROVE Kept'
    <3>1. Behind /\ Filed /\ Flagged /\ Spaced /\ Known /\ Capped
      BY <1>1, <2>1, <2>3, Grows DEF Kept
    <3>2. Behind' /\ Filed' /\ Flagged'
      BY <1>1, <2>1, <2>3, <3>1, NextBehind, NextFiled, NextFlagged
    <3>3. Spaced' /\ Known' /\ Capped'
      BY <1>1, <2>1, <2>3, <3>1, NextSpaced, NextKnown, NextCapped
    <3> QED BY <3>2, <3>3 DEF Kept
  <2> QED BY <2>2, <2>3 DEF IInv
<1>2. CASE UNCHANGED vars
  BY <1>2 DEF vars, IInv, TypeOK, Numbered, Dated, Kept, Behind, Filed, Flagged, Spaced, Known,
              Capped, Counted, Over, Active, Through, Recorded, Step, Days
<1> QED BY <1>1, <1>2

\* The invariant holds in every reachable state of the hosted page.
THEOREM Invariance == Spec => []IInv
<1> QED BY InitInv, NextInv, PTL DEF Spec

\* Rows, drafts, requests and the workflow's copies stay within their types, stamps of
\* merged rows included.
THEOREM TypeCorrect == Spec => []TypeOK
<1>1. IInv => TypeOK
  BY DEF IInv
<1> QED BY Invariance, <1>1, PTL

\* A click whose read was not empty erases nothing: the write of commitState() names the
\* sha of the contents it was computed from, and a retry starts from a fresh read.
THEOREM ClicksKeep == Spec => ClicksKeepClicks
<1>1. IInv /\ [Next]_vars =>
        [\A r \in Requests : req'[r] # req[r] /\ ~req[r].blank => Within(rows, rows')]_vars
  <2> SUFFICES ASSUME IInv, Next, NEW r \in Requests, req'[r] # req[r], ~req[r].blank
               PROVE  Within(rows, rows')
    BY DEF vars
  <2>1. PICK s \in Requests : Click(s)
    BY DEF Next, Pull, Build, MergeRows, PushRows, PushBatch, Abort, NextDay
  <2>2. TypeOK
    BY DEF IInv
  <2>3. s = r
    BY <2>1, <2>2, ClickSteps DEF Alone
  <2>4. RowsMove(r)
    BY <2>1, <2>2, <2>3, ClickSteps DEF Keeps, Wipes
  <2> QED BY <2>2, <2>4, RowsGrow
<1> QED BY Invariance, <1>1, PTL DEF Spec, ClicksKeepClicks

\* Short of a write that drops rows, a request that found a reply, a bounce or a skip on
\* file when it came in leads to no mail, however old its card, if its gate saw the rows.
THEOREM AnsweredRefused == Spec => []AnsweredNotMailed
<1>1. IInv => AnsweredNotMailed
  BY DEF IInv, Kept, Flagged, AnsweredNotMailed, Opened, Recorded, Active, Through
<1> QED BY Invariance, <1>1, PTL

\* Of two recorded sends of one published draft, neither was on file when the other was
\* let through by gates that saw the rows.
THEOREM RepeatsRefused == Spec => []RepeatRefused
<1>1. IInv => RepeatRefused
  <2> SUFFICES ASSUME IInv, ~lost, NEW r \in Requests, NEW s \in Requests,
                      Recorded(r), Recorded(s), req[r].to = req[s].to,
                      req[r].draft = req[s].draft, req[s].draft # {}, ~req[s].blind,
                      r \in req[s].before
               PROVE  FALSE
    BY DEF RepeatRefused
  <2>1. PICK touch : touch \in req[s].draft
    OBVIOUS
  <2>2. req[r].made <= touch
    BY <2>1 DEF IInv, Kept, Known
  <2>3. touch < req[r].made
    BY <2>1 DEF IInv, Kept, Filed
  <2>4. touch \in Nat /\ req[r].made \in Nat
    BY <2>1, RequestFacts DEF IInv
  <2> QED BY <2>2, <2>3, <2>4
<1> QED BY Invariance, <1>1, PTL

\* A follow-up leads to a mail only once the gap after each send that was on file when it
\* was let through, by a gate that saw the rows, is over.
THEOREM FollowUpsSpaced == Spec => []FollowUpsWait
<1>1. IInv => FollowUpsWait
  <2> SUFFICES ASSUME IInv, ~lost, NEW r \in Requests, NEW s \in Requests,
                      Recorded(r), Opened(s), ~req[s].blind, req[r].to = req[s].to,
                      r \in req[s].before
               PROVE  req[s].day >= req[r].day + GapFor(req[r].made)
    BY DEF FollowUpsWait
  <2>1. Active(s) /\ req[s].draft # {}
    BY DEF IInv, Dated, Opened, Recorded, Active
  <2>2. PICK touch : touch \in req[s].draft
    BY <2>1
  <2>3. req[r].made <= touch
    BY <2>2 DEF IInv, Kept, Known
  <2>4. Over(r) <= req[s].day
    BY <2>1, <2>2, <2>3 DEF IInv, Kept, Spaced
  <2>5. req[r].day \in Nat /\ req[s].day \in Nat /\ GapFor(req[r].made) \in Nat
    BY RequestFacts, GapFacts DEF IInv
  <2> QED BY <2>4, <2>5 DEF Over
<1> QED BY Invariance, <1>1, PTL

\* When a gate that saw the rows let a request through, fewer mails than the cap were on
\* file in 24 hours, of all contacts, whoever recorded them.
THEOREM CapKept == Spec => []CapHeld
<1>1. IInv => CapHeld
  BY DEF IInv, Kept, Capped, Counted, CapHeld, Opened, Recorded, Through
<1> QED BY Invariance, <1>1, PTL

\* What one side of a merge records is in its result: the sends of both, no fewer
\* touches, the flags of either.
LEMMA MergeKeeps ==
  ASSUME NEW local, IsState(local, Days, Requests), NEW remote, IsState(remote, Days, Requests)
  PROVE  Within(local, Merge(local, remote)) /\ Within(remote, Merge(local, remote))
<1> DEFINE new == Merge(local, remote)
<1>1. DOMAIN new = DOMAIN local \cup DOMAIN remote
  BY DEF Merge
<1>2. ASSUME NEW a \in DOMAIN new
      PROVE  /\ Touch(new, a) >= Touch(local, a) /\ Touch(new, a) >= Touch(remote, a)
             /\ Sends(new, a) = Sends(local, a) \cup Sends(remote, a)
             /\ Touch(new, a) \in Nat /\ Touch(local, a) \in Nat /\ Touch(remote, a) \in Nat
  <2>1. IsState(new, Days, Requests)
    BY MergeFacts
  <2>2. /\ RowOf(new, a) \in Row /\ RowOf(local, a) \in Row /\ RowOf(remote, a) \in Row
    BY <2>1, StateRows
  <2>3. Touch(new, a) \in Nat /\ Touch(local, a) \in Nat /\ Touch(remote, a) \in Nat
    BY <2>2, RowFields DEF Touch
  <2> QED BY <2>3, MergeFacts
<1>3. ASSUME NEW a \in DOMAIN local
      PROVE  local[a].flags \subseteq new[a].flags
  BY DEF Merge
<1>4. ASSUME NEW a \in DOMAIN remote
      PROVE  remote[a].flags \subseteq new[a].flags
  BY DEF Merge
<1> HIDE DEF new
<1>5. Within(local, new)
  BY <1>1, <1>2, <1>3 DEF Within, Touch, Sends, RowOf
<1>6. Within(remote, new)
  BY <1>1, <1>2, <1>4 DEF Within, Touch, Sends, RowOf
<1> QED BY <1>5, <1>6 DEF new

\* "Nothing that actually happened is forgotten" when the workflow merges its copy with
\* the rows (mergeState): what it goes on to push has all that either records.
THEOREM MergeForgetsNothing ==
  Spec => [][MergeRows => Within(rows, build'.local) /\ Within(build.local, build'.local)]_vars
<1>1. IInv /\ [Next]_vars =>
        [MergeRows => Within(rows, build'.local) /\ Within(build.local, build'.local)]_vars
  <2> SUFFICES ASSUME IInv, MergeRows
               PROVE  Within(rows, build'.local) /\ Within(build.local, build'.local)
    OBVIOUS
  <2>1. build'.local = Merge(build.local, rows)
    BY WorkflowSteps DEF IInv
  <2>2. IsState(rows, Days, Requests) /\ IsState(build.local, Days, Requests)
    BY DEF IInv, TypeOK
  <2> QED BY <2>1, <2>2, MergeKeeps
<1> QED BY <1>1, Invariance, PTL DEF Spec

=============================================================================
