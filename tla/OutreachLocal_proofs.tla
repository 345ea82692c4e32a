----------------------- MODULE OutreachLocal_proofs -----------------------
(***************************************************************************)
(* What cold mail from the user's own machine promises for every number of  *)
(* contacts, requests, builds, runs and days, every cap and every schedule: *)
(* a card mails once whatever races, and, as long as no copy of the file is *)
(* stale when it is used, the sender repeats nothing, page and sender keep  *)
(* the cap together, and nobody who answered is mailed.                     *)
(***************************************************************************)
EXTENDS OutreachLocal, FiniteSetTheorems, TLAPS

-----------------------------------------------------------------------------
(* The inductive invariant, on top of the types. *)

Row == RowsOf(Days, By)

Touch(state, a) == RowOf(state, a).touch

\* A mail whose record is on its way.
Mailed == IF sender.step = "mailed" THEN 1 ELSE 0
MailedTo(a, of) ==
  IF sender.step = "mailed" /\ sender.to = a /\ sender.of = of THEN 1 ELSE 0
\* A send on file since a draft.
Since(a, touch) == IF Touch(rows, a) > touch THEN 1 ELSE 0

\* Refreshes run in a server.
Refreshing == proc.fresh # {} => proc.step = "up"

\* Cards are of the build they bear, and not opened yet.
Paged ==
  /\ proc.step = "building" =>
       proc.cards = <<>> /\ \A a \in Contacts : Count(a, "page", proc.of) = 0
  /\ \A a \in DOMAIN proc.cards : Count(a, "page", proc.of) = 0
  /\ \A a \in Contacts : \A of \in (proc.of + 1)..MaxBuilds : Count(a, "page", of) = 0
  /\ CardMailsOnce

\* Builds in their order.
Ordered ==
  /\ sender.of <= manifest.of /\ manifest.of <= proc.of
  /\ proc.step \in {"building", "sync"} => manifest.of < proc.of
  /\ \A a \in Contacts : \A of \in (manifest.of + 1)..MaxBuilds : Count(a, "sender", of) = 0

\* No mail is of a day to come.
Dated == \A a \in Contacts : \A i \in DOMAIN mails[a] : mails[a][i].day <= today

\* Cards and the reviewed drafts know of no touch that is not on file; a card is of
\* nobody who answered.
Offered ==
  /\ \A a \in DOMAIN proc.cards :
       proc.cards[a] <= Touch(rows, a) /\ RowOf(rows, a).flags = {}
  /\ \A a \in DOMAIN manifest.drafts : manifest.drafts[a] <= Touch(rows, a)

\* The sender mails an entry again only for a record cut off: a mail is on file as a
\* touch its draft had not, or on its way there, the only one since.
Once ==
  /\ \A a \in DOMAIN manifest.drafts :
       Count(a, "sender", manifest.of)
         <= cut + Since(a, manifest.drafts[a]) + MailedTo(a, manifest.of)
  /\ \A a \in DOMAIN sender.todo :
       Count(a, "sender", sender.of) <= cut + Since(a, sender.todo[a])
  /\ sender.step = "mailed" => Count(sender.to, "sender", sender.of) <= cut + 1

\* The mails from a day on.
MailsSince(day) ==
  Cardinality(UNION {{<<a, i>> : i \in {k \in DOMAIN mails[a] : mails[a][k].day >= day}} :
                     a \in Contacts})

\* Mails are on file, but for records cut off or on their way.
OnFile == \A day \in Days : MailsSince(day) <= SentSince(rows, day) + cut + Mailed

\* What a run may still send fits under the cap with what its copy has on file.
Room == sender.left + Mailed > 0 =>
          SentInLast24h(sender.copy, today) + sender.left + Mailed <= Cap

\* The cap, also while a record is on its way.
Rolled ==
  \A day \in Days :
    Cardinality(Rolling(day)) <= Cap + cut + (IF day < today THEN 0 ELSE Mailed)

Kept == Offered /\ Once /\ OnFile /\ Rolled /\ RerunsSendOnce /\ AnsweredNotMailed
IInv == TypeOK /\ Refreshing /\ Paged /\ Ordered /\ Dated /\ Room /\ (~raced => Kept)

-----------------------------------------------------------------------------
(* Gaps. *)

\* Gaps are numbers of days and do not shrink from one touch to the next.
LEMMA GapFacts ==
  /\ \A t \in Nat : GapFor(t) \in Nat
  /\ \A t, u \in Nat : t <= u => GapFor(t) <= GapFor(u)
<1>1. Len(Gaps) \in Nat /\ Len(Gaps) >= 1 /\ DOMAIN Gaps = 1..Len(Gaps)
      /\ \A i \in 1..Len(Gaps) : Gaps[i] \in Nat
  BY GapsAssumption
<1>2. \A t \in Nat : t # 0 => (IF t < Len(Gaps) THEN t ELSE Len(Gaps)) \in 1..Len(Gaps)
  BY <1>1
<1>3. \A t \in Nat : GapFor(t) \in Nat
  BY <1>1, <1>2 DEF GapFor
<1>4. ASSUME NEW t \in Nat, NEW u \in Nat, t <= u PROVE GapFor(t) <= GapFor(u)
  <2>1. CASE t = 0
    BY <1>3, <2>1 DEF GapFor
  <2>2. CASE t # 0
    <3> DEFINE i == IF t < Len(Gaps) THEN t ELSE Len(Gaps)
               j == IF u < Len(Gaps) THEN u ELSE Len(Gaps)
    <3>1. u # 0 /\ i \in DOMAIN Gaps /\ j \in DOMAIN Gaps /\ i <= j
      BY <1>1, <1>2, <1>4, <2>2
    <3>2. Gaps[i] <= Gaps[j]
      BY <3>1, GapsAssumption
    <3> QED BY <2>2, <3>1, <3>2 DEF GapFor
  <2> QED BY <2>1, <2>2
<1> QED BY <1>3, <1>4

-----------------------------------------------------------------------------
(* States. *)

\* A function over contacts whose values are rows is a state.
LEMMA StateIntro ==
  ASSUME NEW D \in SUBSET Contacts, NEW f \in [D -> Row]
  PROVE  IsState(f, Days, By)
BY DEF IsState, Row

\* No rows, and the row of a contact that has none.
LEMMA NoRows ==
  /\ IsState(<<>>, Days, By) /\ DOMAIN <<>> = {}
  /\ Blank \in Row
  /\ \A a : RowOf(<<>>, a) = Blank
  /\ Blank.touch = 0 /\ Blank.sentAt = <<>> /\ Blank.due = 0 /\ Blank.flags = {}
<1>1. <<>> \in [{} -> Row] /\ DOMAIN <<>> = {}
  OBVIOUS
<1>2. IsState(<<>>, Days, By)
  BY <1>1, StateIntro
<1>3. <<>> \in Seq([day : Days, by : By])
  OBVIOUS
<1>4. Blank \in Row
  BY <1>3 DEF Blank, Row, RowsOf, Flags
<1>5. \A a : RowOf(<<>>, a) = Blank
  BY <1>1 DEF RowOf
<1> QED BY <1>1, <1>2, <1>4, <1>5 DEF Blank

\* What a row holds.
LEMMA RowFields ==
  ASSUME NEW q \in Row
  PROVE  /\ q.touch \in Nat /\ q.due \in Nat /\ q.flags \subseteq Flags
         /\ q.sentAt \in Seq([day : Days, by : By])
         /\ Len(q.sentAt) \in Nat
BY DEF Row, RowsOf

\* Every contact has a row in every state, be it the blank one.
LEMMA StateRows ==
  ASSUME NEW state, IsState(state, Days, By)
  PROVE  /\ DOMAIN state \subseteq Contacts
         /\ \A a \in DOMAIN state : state[a] \in Row /\ RowOf(state, a) = state[a]
         /\ \A a : RowOf(state, a) \in Row
         /\ \A a : a \notin DOMAIN state => RowOf(state, a) = Blank
<1>1. PICK D \in SUBSET Contacts : state \in [D -> Row]
  BY DEF IsState, Row
<1>2. DOMAIN state = D /\ \A a \in D : state[a] \in Row
  BY <1>1
<1> QED BY <1>2, NoRows DEF RowOf

\* One more send of a contact.
LEMMA WithSendFacts ==
  ASSUME NEW state, IsState(state, Days, By), NEW a \in Contacts,
         NEW stamp \in [day : Days, by : By], NEW t \in Nat
  PROVE  LET new == WithSend(state, a, stamp, t) IN
         /\ IsState(new, Days, By)
         /\ \A c : c # a => RowOf(new, c) = RowOf(state, c)
         /\ Touch(new, a) = Touch(state, a) + 1
         /\ RowOf(new, a).sentAt = Append(RowOf(state, a).sentAt, stamp)
         /\ RowOf(new, a).due = t + GapFor(Touch(state, a) + 1)
         /\ RowOf(new, a).flags = RowOf(state, a).flags
         /\ DOMAIN state \subseteq DOMAIN new
<1> DEFINE prev == RowOf(state, a)
           row == [touch |-> prev.touch + 1, sentAt |-> Append(prev.sentAt, stamp),
                   due |-> t + GapAfter(prev.touch + 1), flags |-> prev.flags]
           D == DOMAIN state \cup {a}
           new == [c \in D |-> IF c # a THEN state[c] ELSE row]
<1>1. WithSend(state, a, stamp, t) = new
  BY DEF WithSend
<1>2. prev \in Row
  BY StateRows
<1>3. prev.touch + 1 \in Nat /\ Append(prev.sentAt, stamp) \in Seq([day : Days, by : By])
      /\ prev.flags \in SUBSET Flags /\ prev.touch \in Nat
  <2> HIDE DEF prev
  <2>1. prev.touch \in Nat /\ prev.flags \subseteq Flags
        /\ prev.sentAt \in Seq([day : Days, by : By])
    BY <1>2, RowFields
  <2>2. Append(prev.sentAt, stamp) \in Seq([day : Days, by : By])
    BY <2>1
  <2> QED BY <2>1, <2>2
<1>4. t + GapAfter(prev.touch + 1) \in Nat /\ GapAfter(prev.touch + 1) = GapFor(prev.touch + 1)
  <2> HIDE DEF prev
  <2>1. GapFor(prev.touch + 1) \in Nat
    BY <1>3, GapFacts
  <2> QED BY <2>1 DEF GapAfter
<1>5. row \in Row
  BY <1>3, <1>4 DEF Row, RowsOf
<1>6. /\ row.touch = prev.touch + 1 /\ row.sentAt = Append(prev.sentAt, stamp)
      /\ row.due = t + GapFor(prev.touch + 1) /\ row.flags = prev.flags
  BY <1>4
<1> HIDE DEF row
<1>7. D \in SUBSET Contacts /\ new \in [D -> Row]
  BY <1>5, StateRows
<1>8. IsState(new, Days, By)
  BY <1>7, StateIntro
<1>9. RowOf(new, a) = row /\ \A c : c # a => RowOf(new, c) = RowOf(state, c)
  BY DEF RowOf
<1>10. DOMAIN state \subseteq DOMAIN new
  OBVIOUS
<1> QED BY <1>1, <1>6, <1>8, <1>9, <1>10 DEF Touch

\* One more flag.
LEMMA WithFlagFacts ==
  ASSUME NEW state, IsState(state, Days, By), NEW a, NEW flag \in Flags
  PROVE  LET new == WithFlag(state, a, flag) IN
         /\ IsState(new, Days, By)
         /\ \A c : /\ Touch(new, c) = Touch(state, c)
                   /\ RowOf(new, c).sentAt = RowOf(state, c).sentAt
                   /\ RowOf(new, c).due = RowOf(state, c).due
                   /\ RowOf(state, c).flags \subseteq RowOf(new, c).flags
                   /\ (c # a => RowOf(new, c) = RowOf(state, c))
         /\ DOMAIN state \subseteq DOMAIN new
<1>1. CASE a \notin DOMAIN state
  BY <1>1 DEF WithFlag, Touch
<1>2. CASE a \in DOMAIN state
  <2> DEFINE flags == state[a].flags \cup
                        (IF flag = "bounced" THEN {"bounced", "skipped"} ELSE {flag})
             row == [state[a] EXCEPT !.flags = flags]
             new == [state EXCEPT ![a] = row]
  <2>1. WithFlag(state, a, flag) = new
    BY <1>2 DEF WithFlag
  <2>2. flags \subseteq Flags /\ state[a].flags \subseteq flags
    BY <1>2, StateRows, RowFields DEF Flags
  <2>3. state[a] \in Row
    BY <1>2, StateRows
  <2> HIDE DEF flags
  <2>4. row \in Row /\ row.touch = state[a].touch /\ row.sentAt = state[a].sentAt
        /\ row.due = state[a].due /\ row.flags = flags
    BY <2>2, <2>3 DEF Row, RowsOf
  <2> HIDE DEF row
  <2>5. PICK D \in SUBSET Contacts : state \in [D -> Row]
    BY DEF IsState, Row
  <2>6. new \in [D -> Row] /\ DOMAIN new = DOMAIN state
    BY <2>4, <2>5
  <2>7. IsState(new, Days, By)
    BY <2>6, StateIntro
  <2>8. RowOf(new, a) = row /\ RowOf(state, a) = state[a]
        /\ \A c : c # a => RowOf(new, c) = RowOf(state, c)
    BY <1>2, <2>5 DEF RowOf
  <2> QED BY <2>1, <2>2, <2>4, <2>6, <2>7, <2>8 DEF Touch
<1> QED BY <1>1, <1>2

\* Rows for drafts: a new one is blank but for its date.
LEMMA WithDraftsFacts ==
  ASSUME NEW state, IsState(state, Days, By), NEW drafts \in SUBSET Contacts,
         NEW t \in Nat
  PROVE  LET new == WithDrafts(state, drafts, t) IN
         /\ IsState(new, Days, By)
         /\ \A c : /\ Touch(new, c) = Touch(state, c)
                   /\ RowOf(new, c).sentAt = RowOf(state, c).sentAt
                   /\ RowOf(new, c).flags = RowOf(state, c).flags
<1> DEFINE row == [Blank EXCEPT !.due = t]
           D == DOMAIN state \cup drafts
           new == [c \in D |-> IF c \in DOMAIN state THEN state[c] ELSE row]
<1>1. WithDrafts(state, drafts, t) = new
  BY DEF WithDrafts
<1>2. row \in Row /\ row.touch = 0 /\ row.sentAt = <<>> /\ row.flags = {}
  <2>1. <<>> \in Seq([day : Days, by : By])
    OBVIOUS
  <2> QED BY <2>1 DEF Blank, Row, RowsOf, Flags
<1> HIDE DEF row
<1>3. D \in SUBSET Contacts /\ new \in [D -> Row]
  BY <1>2, StateRows
<1>4. IsState(new, Days, By)
  BY <1>3, StateIntro
<1>5. ASSUME NEW c PROVE /\ Touch(new, c) = Touch(state, c)
                         /\ RowOf(new, c).sentAt = RowOf(state, c).sentAt
                         /\ RowOf(new, c).flags = RowOf(state, c).flags
  <2>1. CASE c \in DOMAIN state \/ c \notin D
    BY <2>1 DEF RowOf, Touch
  <2>2. CASE c \notin DOMAIN state /\ c \in D
    BY <1>2, <2>2, NoRows DEF RowOf, Touch
  <2> QED BY <2>1, <2>2
<1> QED BY <1>1, <1>4, <1>5

-----------------------------------------------------------------------------
(* Counting stamps and mails. *)

\* One more of a finite set.
LEMMA OneMore ==
  ASSUME NEW S, IsFiniteSet(S), NEW x, x \notin S
  PROVE  IsFiniteSet(S \cup {x}) /\ Cardinality(S \cup {x}) = Cardinality(S) + 1
         /\ Cardinality(S) \in Nat
BY FS_AddElement, FS_CardinalityType

\* The places of some sequences.
Places(D, g) == UNION {{<<a, i>> : i \in 1..Len(g[a])} : a \in D}

LEMMA PlacesFinite ==
  ASSUME NEW D, IsFiniteSet(D), NEW g, \A a \in D : Len(g[a]) \in Nat
  PROVE  IsFiniteSet(Places(D, g))
<1> DEFINE At(a) == {<<a, i>> : i \in 1..Len(g[a])}
<1>1. ASSUME NEW a \in D PROVE IsFiniteSet(At(a))
  <2>1. IsFiniteSet(1..Len(g[a]))
    BY FS_Interval
  <2>2. [i \in 1..Len(g[a]) |-> <<a, i>>] \in Surjection(1..Len(g[a]), At(a))
    BY DEF Surjection
  <2> QED BY <2>1, <2>2, FS_Surjection
<1>2. [a \in D |-> At(a)] \in Surjection(D, {At(a) : a \in D})
  BY DEF Surjection
<1>3. Places(D, g) = UNION {At(a) : a \in D}
  BY DEF Places
<1> HIDE DEF At
<1>4. IsFiniteSet({At(a) : a \in D})
  BY <1>2, FS_Surjection
<1> QED BY <1>1, <1>3, <1>4, FS_UNION

\* The stamps that SentSince counts.
Stamps(state, day) ==
  UNION {{<<a, i>> : i \in {k \in DOMAIN state[a].sentAt : state[a].sentAt[k].day >= day}} :
         a \in DOMAIN state}

LEMMA StampsFacts ==
  ASSUME NEW state, IsState(state, Days, By), NEW day
  PROVE  /\ SentSince(state, day) = Cardinality(Stamps(state, day))
         /\ IsFiniteSet(Stamps(state, day)) /\ SentSince(state, day) \in Nat
         /\ \A p : p \in Stamps(state, day) <=>
              \E a \in Contacts : \E i \in DOMAIN RowOf(state, a).sentAt :
                p = <<a, i>> /\ RowOf(state, a).sentAt[i].day >= day
<1>1. SentSince(state, day) = Cardinality(Stamps(state, day))
  BY DEF SentSince, Stamps
<1>2. DOMAIN state \subseteq Contacts
      /\ \A a \in DOMAIN state : state[a] \in Row /\ RowOf(state, a) = state[a]
  BY StateRows
<1>3. \A a : a \notin DOMAIN state => DOMAIN RowOf(state, a).sentAt = {}
  BY StateRows, NoRows
<1>4. ASSUME NEW p
      PROVE  p \in Stamps(state, day) <=>
               \E a \in Contacts : \E i \in DOMAIN RowOf(state, a).sentAt :
                 p = <<a, i>> /\ RowOf(state, a).sentAt[i].day >= day
  <2>1. p \in Stamps(state, day) <=>
          \E a \in DOMAIN state : \E i \in DOMAIN state[a].sentAt :
            p = <<a, i>> /\ state[a].sentAt[i].day >= day
    BY DEF Stamps
  <2> QED BY <1>2, <1>3, <2>1
<1>5. IsFiniteSet(Stamps(state, day))
  <2> DEFINE g == [a \in DOMAIN state |-> state[a].sentAt]
  <2>1. IsFiniteSet(DOMAIN state)
    BY <1>2, ContactsAssumption, FS_Subset
  <2>2. \A a \in DOMAIN state : Len(g[a]) \in Nat /\ DOMAIN state[a].sentAt = 1..Len(g[a])
    <3>1. ASSUME NEW a \in DOMAIN state
          PROVE  Len(state[a].sentAt) \in Nat /\ DOMAIN state[a].sentAt = 1..Len(state[a].sentAt)
      <4>1. state[a].sentAt \in Seq([day : Days, by : By])
        BY <1>2, RowFields
      <4> QED BY <4>1
    <3> QED BY <3>1
  <2>3. Stamps(state, day) \subseteq Places(DOMAIN state, g)
    <3> HIDE DEF g
    <3> QED BY <2>2 DEF Stamps, Places
  <2> HIDE DEF g
  <2>4. IsFiniteSet(Places(DOMAIN state, g))
    BY <2>1, <2>2, PlacesFinite
  <2> QED BY <2>3, <2>4, FS_Subset
<1> QED BY <1>1, <1>4, <1>5, FS_CardinalityType

\* Rows with the same stamps count the same.
LEMMA SameStamps ==
  ASSUME NEW old, IsState(old, Days, By), NEW new, IsState(new, Days, By), NEW day,
         \A a \in Contacts : RowOf(new, a).sentAt = RowOf(old, a).sentAt
  PROVE  SentSince(new, day) = SentSince(old, day)
<1>1. \A p : p \in Stamps(new, day) <=> p \in Stamps(old, day)
  BY StampsFacts
<1>2. Stamps(new, day) = Stamps(old, day)
  BY <1>1
<1> QED BY <1>2, StampsFacts

\* A send counts from its day back.
LEMMA SendCounts ==
  ASSUME NEW state, IsState(state, Days, By), NEW a \in Contacts,
         NEW stamp \in [day : Days, by : By], NEW t \in Nat, NEW day \in Nat
  PROVE  SentSince(WithSend(state, a, stamp, t), day)
           = SentSince(state, day) + (IF stamp.day >= day THEN 1 ELSE 0)
<1> DEFINE new == WithSend(state, a, stamp, t)
           sentAt == RowOf(state, a).sentAt
           n == Len(sentAt) + 1
<1>1. /\ IsState(new, Days, By)
      /\ \A c : c # a => RowOf(new, c) = RowOf(state, c)
      /\ RowOf(new, a).sentAt = Append(sentAt, stamp)
  BY WithSendFacts
<1>2. sentAt \in Seq([day : Days, by : By])
  BY StateRows, RowFields
<1>3. /\ DOMAIN sentAt = 1..(n - 1) /\ n \in Nat
      /\ DOMAIN Append(sentAt, stamp) = 1..n
      /\ Append(sentAt, stamp)[n] = stamp
      /\ \A i \in 1..(n - 1) : Append(sentAt, stamp)[i] = sentAt[i]
  <2> HIDE DEF sentAt
  <2> QED BY <1>2
<1>4. \A p : p \in Stamps(state, day) <=>
        \E c \in Contacts : \E i \in DOMAIN RowOf(state, c).sentAt :
          p = <<c, i>> /\ RowOf(state, c).sentAt[i].day >= day
  BY StampsFacts
<1> HIDE DEF new
<1>5. \A p : p \in Stamps(new, day) <=>
        \E c \in Contacts : \E i \in DOMAIN RowOf(new, c).sentAt :
          p = <<c, i>> /\ RowOf(new, c).sentAt[i].day >= day
  BY <1>1, StampsFacts
<1>6. <<a, n>> \notin Stamps(state, day)
  <2> HIDE DEF n
  <2> QED BY <1>3, <1>4
<1>7. ASSUME NEW p
      PROVE  p \in Stamps(new, day) <=>
               p \in Stamps(state, day) \/ (p = <<a, n>> /\ stamp.day >= day)
  <2> HIDE DEF n
  <2>1. ASSUME NEW i \in 1..n PROVE i = n \/ i \in 1..(n - 1)
    BY <1>3
  <2>2. \A i \in 1..(n - 1) : i \in 1..n
    BY <1>3
  <2>3. n \in 1..n
    BY <1>3
  <2> DEFINE long == Append(sentAt, stamp)
  <2>4. DOMAIN long = 1..n /\ long[n] = stamp /\ \A i \in 1..(n - 1) : long[i] = sentAt[i]
    BY <1>3
  <2>5. RowOf(new, a).sentAt = long /\ RowOf(state, a).sentAt = sentAt
    BY <1>1
  <2> HIDE DEF long, sentAt
  <2>6. ASSUME p \in Stamps(new, day)
        PROVE  p \in Stamps(state, day) \/ (p = <<a, n>> /\ stamp.day >= day)
    <3>1. PICK c \in Contacts : \E i \in DOMAIN RowOf(new, c).sentAt :
            p = <<c, i>> /\ RowOf(new, c).sentAt[i].day >= day
      BY <1>5, <2>6
    <3>2. PICK i \in DOMAIN RowOf(new, c).sentAt : p = <<c, i>> /\ RowOf(new, c).sentAt[i].day >= day
      BY <3>1
    <3>3. CASE c # a
      BY <1>1, <1>4, <3>2, <3>3
    <3>4. CASE c = a
      BY <1>3, <1>4, <2>1, <2>4, <2>5, <3>2, <3>4
    <3> QED BY <3>3, <3>4
  <2>7. ASSUME p \in Stamps(state, day) PROVE p \in Stamps(new, day)
    <3>1. PICK c \in Contacts : \E i \in DOMAIN RowOf(state, c).sentAt :
            p = <<c, i>> /\ RowOf(state, c).sentAt[i].day >= day
      BY <1>4, <2>7
    <3>2. PICK i \in DOMAIN RowOf(state, c).sentAt :
            p = <<c, i>> /\ RowOf(state, c).sentAt[i].day >= day
      BY <3>1
    <3>3. CASE c # a
      BY <1>1, <1>5, <3>2, <3>3
    <3>4. CASE c = a
      BY <1>3, <1>5, <2>2, <2>4, <2>5, <3>2, <3>4
    <3> QED BY <3>3, <3>4
  <2>8. ASSUME p = <<a, n>>, stamp.day >= day PROVE p \in Stamps(new, day)
    BY <1>5, <2>3, <2>4, <2>5, <2>8
  <2> QED BY <2>6, <2>7, <2>8
<1>8. IsFiniteSet(Stamps(state, day)) /\ SentSince(state, day) = Cardinality(Stamps(state, day))
      /\ SentSince(new, day) = Cardinality(Stamps(new, day)) /\ SentSince(state, day) \in Nat
  BY <1>1, StampsFacts
<1> HIDE DEF n
<1>9. CASE stamp.day >= day
  <2>1. Stamps(new, day) = Stamps(state, day) \cup {<<a, n>>}
    BY <1>7, <1>9
  <2>2. Cardinality(Stamps(state, day) \cup {<<a, n>>}) = Cardinality(Stamps(state, day)) + 1
    BY <1>6, <1>8, OneMore
  <2> QED BY <1>8, <1>9, <2>1, <2>2 DEF new
<1>10. CASE ~(stamp.day >= day)
  <2>1. Stamps(new, day) = Stamps(state, day)
    BY <1>7, <1>10
  <2> QED BY <1>8, <1>10, <2>1 DEF new
<1> QED BY <1>9, <1>10

\* A later day counts no more.
LEMMA LaterCounts ==
  ASSUME NEW state, IsState(state, Days, By), NEW day \in Nat, NEW later \in Nat, day <= later
  PROVE  SentSince(state, later) <= SentSince(state, day)
<1>1. \A a : \A i \in DOMAIN RowOf(state, a).sentAt : RowOf(state, a).sentAt[i].day \in Nat
  <2>1. ASSUME NEW a, NEW i \in DOMAIN RowOf(state, a).sentAt
        PROVE  RowOf(state, a).sentAt[i].day \in Nat
    <3> DEFINE sentAt == RowOf(state, a).sentAt
               T == [day : Days, by : By]
    <3>1. sentAt \in Seq(T)
      BY StateRows, RowFields
    <3> HIDE DEF sentAt, T
    <3>2. \A k \in DOMAIN sentAt : sentAt[k] \in T
      BY <3>1
    <3>3. sentAt[i].day \in Days
      BY <3>2 DEF sentAt, T
    <3> QED BY <3>3 DEF sentAt, Days
  <2> QED BY <2>1
<1>2. \A p : p \in Stamps(state, later) => p \in Stamps(state, day)
  <2>1. ASSUME NEW p \in Stamps(state, later) PROVE p \in Stamps(state, day)
    <3>1. PICK a \in Contacts : \E i \in DOMAIN RowOf(state, a).sentAt :
            p = <<a, i>> /\ RowOf(state, a).sentAt[i].day >= later
      BY StampsFacts
    <3>2. PICK i \in DOMAIN RowOf(state, a).sentAt :
            p = <<a, i>> /\ RowOf(state, a).sentAt[i].day >= later
      BY <3>1
    <3>3. RowOf(state, a).sentAt[i].day >= day
      BY <1>1, <3>2
    <3> QED BY <3>2, <3>3, StampsFacts
  <2> QED BY <2>1
<1>3. Stamps(state, later) \in SUBSET Stamps(state, day)
  BY <1>2
<1> QED BY <1>3, StampsFacts, FS_Subset

\* Mails, in any state of them.
Mail == [from : {"page", "sender"}, of : 0..MaxBuilds, day : Days, flagged : BOOLEAN]
Boxes == [Contacts -> Seq(Mail)]

Alike(box, a, from, of) ==
  {i \in DOMAIN box[a] : box[a][i].from = from /\ box[a][i].of = of}
MailsFrom(box, day) ==
  UNION {{<<a, i>> : i \in {k \in DOMAIN box[a] : box[a][k].day >= day}} : a \in Contacts}
Recent(box, day) ==
  UNION {{<<a, i>> : i \in {k \in DOMAIN box[a] :
                              box[a][k].day <= day /\ box[a][k].day + 1 >= day}} : a \in Contacts}

LEMMA BoxFacts ==
  ASSUME NEW box \in Boxes
  PROVE  /\ \A a \in Contacts : Len(box[a]) \in Nat /\ DOMAIN box[a] = 1..Len(box[a])
         /\ \A a \in Contacts : \A i \in DOMAIN box[a] : box[a][i] \in Mail
         /\ \A a \in Contacts : \A from, of :
              /\ IsFiniteSet(Alike(box, a, from, of))
              /\ Cardinality(Alike(box, a, from, of)) \in Nat
         /\ \A day : /\ IsFiniteSet(MailsFrom(box, day)) /\ Cardinality(MailsFrom(box, day)) \in Nat
                     /\ IsFiniteSet(Recent(box, day)) /\ Cardinality(Recent(box, day)) \in Nat
<1>1. ASSUME NEW a \in Contacts
      PROVE  /\ Len(box[a]) \in Nat /\ DOMAIN box[a] = 1..Len(box[a])
             /\ \A i \in DOMAIN box[a] : box[a][i] \in Mail
  <2>1. box[a] \in Seq(Mail)
    BY DEF Boxes
  <2> QED BY <2>1
<1>2. ASSUME NEW a \in Contacts, NEW from, NEW of
      PROVE  IsFiniteSet(Alike(box, a, from, of))
  <2>1. Len(box[a]) \in Nat /\ IsFiniteSet(1..Len(box[a]))
    BY <1>1, FS_Interval
  <2>2. Alike(box, a, from, of) \in SUBSET (1..Len(box[a]))
    BY <1>1 DEF Alike
  <2> QED BY <2>1, <2>2, FS_Subset
<1>3. IsFiniteSet(Places(Contacts, box))
  BY <1>1, ContactsAssumption, PlacesFinite
<1>4. ASSUME NEW day
      PROVE  IsFiniteSet(MailsFrom(box, day)) /\ IsFiniteSet(Recent(box, day))
  <2>1. MailsFrom(box, day) \in SUBSET Places(Contacts, box)
    BY <1>1 DEF MailsFrom, Places
  <2>2. Recent(box, day) \in SUBSET Places(Contacts, box)
    BY <1>1 DEF Recent, Places
  <2> QED BY <1>3, <2>1, <2>2, FS_Subset
<1> QED BY <1>1, <1>2, <1>4, FS_CardinalityType

\* The mails that end a rolling day of today or later are among those since yesterday.
LEMMA RecentMails ==
  ASSUME NEW box \in Boxes, NEW t \in Nat, NEW day \in Nat, t <= day
  PROVE  Cardinality(Recent(box, day))
           <= Cardinality(MailsFrom(box, IF t = 0 THEN 0 ELSE t - 1))
<1> DEFINE from == IF t = 0 THEN 0 ELSE t - 1
<1>1. \A a \in Contacts : \A i \in DOMAIN box[a] : box[a][i].day \in Nat
  BY BoxFacts DEF Mail, Days
<1>2. \A a \in Contacts : \A i \in DOMAIN box[a] :
        box[a][i].day + 1 >= day => box[a][i].day >= from
  BY <1>1
<1> HIDE DEF from
<1>3. Recent(box, day) \in SUBSET MailsFrom(box, from)
  BY <1>2 DEF Recent, MailsFrom
<1> QED BY <1>3, BoxFacts, FS_Subset DEF from

\* One more mail.
LEMMA OneMoreMail ==
  ASSUME NEW box \in Boxes, NEW a \in Contacts, NEW m \in Mail, NEW new \in Boxes,
         new[a] = Append(box[a], m), \A b \in Contacts : b # a => new[b] = box[b]
  PROVE  /\ \A b \in Contacts : \A from, of :
              Cardinality(Alike(new, b, from, of))
                = Cardinality(Alike(box, b, from, of))
                    + (IF b = a /\ m.from = from /\ m.of = of THEN 1 ELSE 0)
         /\ \A b \in Contacts : \A i \in DOMAIN new[b] :
              \/ i \in DOMAIN box[b] /\ new[b][i] = box[b][i]
              \/ b = a /\ new[b][i] = m
         /\ \A day : Cardinality(MailsFrom(new, day))
                       = Cardinality(MailsFrom(box, day)) + (IF m.day >= day THEN 1 ELSE 0)
         /\ \A day : ~(m.day <= day) => Recent(new, day) = Recent(box, day)
<1> DEFINE n == Len(box[a]) + 1
<1>1. box[a] \in Seq(Mail) /\ Len(box[a]) \in Nat /\ DOMAIN box = Contacts
  BY BoxFacts DEF Boxes
<1>2. /\ Append(box[a], m) \in Seq(Mail)
      /\ DOMAIN Append(box[a], m) = 1..n /\ DOMAIN box[a] = 1..(n - 1) /\ n \in Nat
      /\ Append(box[a], m)[n] = m
      /\ \A i \in 1..(n - 1) : Append(box[a], m)[i] = box[a][i]
  <2> DEFINE q == box[a]
  <2>1. q \in Seq(Mail)
    BY <1>1
  <2> HIDE DEF q
  <2>2. /\ Append(q, m) \in Seq(Mail) /\ DOMAIN Append(q, m) = 1..(Len(q) + 1)
        /\ DOMAIN q = 1..Len(q) /\ Len(q) \in Nat
        /\ Append(q, m)[Len(q) + 1] = m
        /\ \A i \in 1..Len(q) : Append(q, m)[i] = q[i]
    BY <2>1
  <2> QED BY <2>2 DEF q
<1>3. new[a] = Append(box[a], m) /\ \A b \in Contacts : b # a => new[b] = box[b]
  OBVIOUS
<1>4. /\ DOMAIN new[a] = 1..n /\ new[a][n] = m
      /\ \A i \in 1..(n - 1) : new[a][i] = box[a][i]
  BY <1>2, <1>3
<1>5. n \in 1..n /\ n \notin 1..(n - 1) /\ 1..n = 1..(n - 1) \cup {n}
  BY <1>2
<1> HIDE DEF n
<1>6. \A b \in Contacts : \A i \in DOMAIN new[b] :
        \/ i \in DOMAIN box[b] /\ new[b][i] = box[b][i]
        \/ b = a /\ new[b][i] = m
  BY <1>2, <1>3, <1>4, <1>5
<1>7. ASSUME NEW b \in Contacts, NEW from, NEW of
      PROVE  Cardinality(Alike(new, b, from, of))
               = Cardinality(Alike(box, b, from, of))
                   + (IF b = a /\ m.from = from /\ m.of = of THEN 1 ELSE 0)
  <2>1. IsFiniteSet(Alike(box, b, from, of)) /\ Cardinality(Alike(box, b, from, of)) \in Nat
    BY BoxFacts
  <2>2. CASE b = a /\ m.from = from /\ m.of = of
    <3>1. Alike(new, b, from, of) = Alike(box, b, from, of) \cup {n}
      BY <1>2, <1>4, <1>5, <2>2 DEF Alike
    <3>2. n \notin Alike(box, b, from, of)
      BY <1>2, <1>5, <2>2 DEF Alike
    <3>3. Cardinality(Alike(box, b, from, of) \cup {n}) = Cardinality(Alike(box, b, from, of)) + 1
      BY <2>1, <3>2, OneMore
    <3> QED BY <2>2, <3>1, <3>3
  <2>3. CASE ~(b = a /\ m.from = from /\ m.of = of)
    <3>1. CASE b # a
      <4>1. Alike(new, b, from, of) = Alike(box, b, from, of)
        BY <1>3, <3>1 DEF Alike
      <4> QED BY <2>1, <2>3, <4>1
    <3>2. CASE b = a
      <4>1. ~(new[a][n].from = from /\ new[a][n].of = of)
        BY <1>4, <2>3, <3>2
      <4>2. ASSUME NEW i
            PROVE  i \in Alike(new, a, from, of) <=> i \in Alike(box, a, from, of)
        <5>1. CASE i = n
          BY <1>2, <4>1, <5>1 DEF Alike
        <5>2. CASE i # n
          BY <1>2, <1>4, <1>5, <5>2 DEF Alike
        <5> QED BY <5>1, <5>2
      <4>3. Alike(new, b, from, of) = Alike(box, b, from, of)
        BY <3>2, <4>2 DEF Alike
      <4> QED BY <2>1, <2>3, <4>3
    <3> QED BY <3>1, <3>2
  <2> QED BY <2>2, <2>3
<1>8. ASSUME NEW day
      PROVE  Cardinality(MailsFrom(new, day))
               = Cardinality(MailsFrom(box, day)) + (IF m.day >= day THEN 1 ELSE 0)
  <2>1. IsFiniteSet(MailsFrom(box, day)) /\ Cardinality(MailsFrom(box, day)) \in Nat
    BY BoxFacts
  <2>2. <<a, n>> \notin MailsFrom(box, day)
    BY <1>2, <1>5 DEF MailsFrom
  <2>3. \A p : p \in MailsFrom(new, day) <=>
          p \in MailsFrom(box, day) \/ (p = <<a, n>> /\ m.day >= day)
    <3>1. ASSUME NEW p \in MailsFrom(new, day)
          PROVE  p \in MailsFrom(box, day) \/ (p = <<a, n>> /\ m.day >= day)
      <4>1. PICK b \in Contacts : \E i \in DOMAIN new[b] : p = <<b, i>> /\ new[b][i].day >= day
        BY DEF MailsFrom
      <4>2. PICK i \in DOMAIN new[b] : p = <<b, i>> /\ new[b][i].day >= day
        BY <4>1
      <4>3. CASE i \in DOMAIN box[b] /\ new[b][i] = box[b][i]
        BY <4>2, <4>3 DEF MailsFrom
      <4>4. CASE b = a /\ i = n
        BY <1>4, <4>2, <4>4
      <4> QED BY <1>2, <1>3, <1>4, <1>5, <4>3, <4>4
    <3>2. ASSUME NEW p \in MailsFrom(box, day) PROVE p \in MailsFrom(new, day)
      <4>1. PICK b \in Contacts : \E i \in DOMAIN box[b] : p = <<b, i>> /\ box[b][i].day >= day
        BY DEF MailsFrom
      <4>2. PICK i \in DOMAIN box[b] : p = <<b, i>> /\ box[b][i].day >= day
        BY <4>1
      <4>3. i \in DOMAIN new[b] /\ new[b][i] = box[b][i]
        BY <1>2, <1>3, <1>4, <1>5
      <4> QED BY <4>2, <4>3 DEF MailsFrom
    <3>3. m.day >= day => <<a, n>> \in MailsFrom(new, day)
      BY <1>4, <1>5 DEF MailsFrom
    <3> QED BY <3>1, <3>2, <3>3
  <2>4. CASE m.day >= day
    <3>1. MailsFrom(new, day) = MailsFrom(box, day) \cup {<<a, n>>}
      BY <2>3, <2>4
    <3>2. Cardinality(MailsFrom(box, day) \cup {<<a, n>>}) = Cardinality(MailsFrom(box, day)) + 1
      BY <2>1, <2>2, OneMore
    <3> QED BY <2>4, <3>1, <3>2
  <2>5. CASE ~(m.day >= day)
    <3>1. MailsFrom(new, day) = MailsFrom(box, day)
      BY <2>3, <2>5
    <3> QED BY <2>1, <2>5, <3>1
  <2> QED BY <2>4, <2>5
<1>9. ASSUME NEW day, ~(m.day <= day) PROVE Recent(new, day) = Recent(box, day)
  <2>1. ASSUME NEW b \in Contacts
        PROVE  {k \in DOMAIN new[b] : new[b][k].day <= day /\ new[b][k].day + 1 >= day}
                 = {k \in DOMAIN box[b] : box[b][k].day <= day /\ box[b][k].day + 1 >= day}
    <3>1. CASE b # a
      BY <1>3, <3>1
    <3>2. CASE b = a
      <4>1. ~(new[a][n].day <= day)
        BY <1>4, <1>9
      <4> QED BY <1>2, <1>4, <1>5, <3>2, <4>1
    <3> QED BY <3>1, <3>2
  <2> QED BY <2>1 DEF Recent
<1> QED BY <1>6, <1>7, <1>8, <1>9

-----------------------------------------------------------------------------
(* What the steps leave. *)

Process(p) ==
  p \in [step : {"off", "building", "sync", "up"}, goal : {"serve", "mbox"},
         copy : {p.copy}, cards : {p.cards}, of : 0..MaxBuilds, fresh : {p.fresh}]
Asking(q) ==
  /\ q \in [step : {"new", "act", "ended"}, kind : Kinds, to : Contacts \cup {Fresh.to},
            seen : {q.seen}]
  /\ IsState(q.seen, Days, By)
  /\ q.step = "act" => q.to \in Contacts
Sending(s) ==
  s \in [step : {"off", "next", "mailed"}, of : 0..MaxBuilds, todo : {s.todo},
         copy : {s.copy}, left : 0..Cap, to : Contacts \cup {Idle.to}]

Becomes(step, copy, cards, of, fresh) ==
  /\ Process(proc') /\ proc'.step = step /\ proc'.copy = copy /\ proc'.cards = cards
  /\ proc'.of = of /\ proc'.fresh = fresh

LEMMA ProcSteps ==
  ASSUME TypeOK, Refreshing
  PROVE  /\ \A goal \in {"serve", "mbox"} :
              StartBuild(goal) => Becomes("building", rows, <<>>, proc.of + 1, {})
         /\ EndBuild => \E drafts \in SUBSET Offers(proc.copy) :
              \/ Becomes("up", <<>>, Built(proc.copy, drafts), proc.of, proc.fresh)
              \/ Becomes("sync", rows, Built(proc.copy, drafts), proc.of, proc.fresh)
         /\ WriteMbox \/ Stop => Becomes("off", <<>>, <<>>, proc.of, {})
         /\ StartRefresh =>
              Becomes("up", proc.copy, proc.cards, proc.of, proc.fresh \cup {rows})
         /\ EndRefresh => \E copy \in proc.fresh : \E drafts \in SUBSET Offers(copy),
                                                   rest \in SUBSET proc.fresh :
              Becomes("up", proc.copy, Built(copy, drafts), proc.of + 1, rest) /\ ActsOn(copy)
         /\ \A r \in Requests : Open(r) \/ Mark(r) =>
              Becomes(proc.step, proc.copy, Less(proc.cards, req[r].to), proc.of, proc.fresh)
         /\ \A r \in Requests : RecordByHand(r) =>
              \/ Becomes(proc.step, proc.copy, Less(proc.cards, req[r].to), proc.of, proc.fresh)
              \/ Becomes(proc.step, proc.copy, proc.cards, proc.of, proc.fresh)
<1>1. Process(proc) /\ MaxBuilds \in Nat /\ proc.of \in 0..MaxBuilds
  BY LocalAssumption DEF TypeOK, Process
<1>2. \A of \in 0..MaxBuilds :
        /\ Process(Down(of)) /\ Down(of).step = "off" /\ Down(of).copy = <<>>
        /\ Down(of).cards = <<>> /\ Down(of).of = of /\ Down(of).fresh = {}
  BY DEF Down, Process
<1>3. ASSUME NEW goal \in {"serve", "mbox"}, StartBuild(goal)
      PROVE  Becomes("building", rows, <<>>, proc.of + 1, {})
  <2>1. proc' = [Down(proc.of + 1) EXCEPT !.step = "building", !.goal = goal, !.copy = rows]
    BY <1>3 DEF StartBuild
  <2>2. proc.of + 1 \in 0..MaxBuilds
    BY <1>1, <1>3 DEF StartBuild
  <2> QED BY <2>1, <2>2 DEF Becomes, Process, Down
<1>4. ASSUME EndBuild
      PROVE  \E drafts \in SUBSET Offers(proc.copy) :
               \/ Becomes("up", <<>>, Built(proc.copy, drafts), proc.of, proc.fresh)
               \/ Becomes("sync", rows, Built(proc.copy, drafts), proc.of, proc.fresh)
  <2>1. PICK drafts \in SUBSET Offers(proc.copy) :
          proc' = [proc EXCEPT !.step = IF proc.goal = "serve" THEN "up" ELSE "sync",
                               !.cards = Built(proc.copy, drafts),
                               !.copy = IF proc.goal = "serve" THEN <<>> ELSE rows]
    BY <1>4 DEF EndBuild
  <2> DEFINE cards == Built(proc.copy, drafts)
  <2>2. \/ proc' = [proc EXCEPT !.step = "up", !.cards = cards, !.copy = <<>>]
        \/ proc' = [proc EXCEPT !.step = "sync", !.cards = cards, !.copy = rows]
    BY <2>1
  <2> HIDE DEF cards
  <2>3. \/ Becomes("up", <<>>, cards, proc.of, proc.fresh)
        \/ Becomes("sync", rows, cards, proc.of, proc.fresh)
    BY <1>1, <2>2 DEF Becomes, Process
  <2> QED BY <2>3 DEF cards
<1>5. ASSUME WriteMbox \/ Stop PROVE Becomes("off", <<>>, <<>>, proc.of, {})
  <2>1. proc' = Down(proc.of)
    BY <1>5 DEF WriteMbox, Stop
  <2> QED BY <1>1, <1>2, <2>1 DEF Becomes
<1>6. ASSUME StartRefresh
      PROVE  Becomes("up", proc.copy, proc.cards, proc.of, proc.fresh \cup {rows})
  BY <1>1, <1>6 DEF StartRefresh, Becomes, Process
<1>7. ASSUME EndRefresh
      PROVE  \E copy \in proc.fresh : \E drafts \in SUBSET Offers(copy),
                                        rest \in SUBSET proc.fresh :
               Becomes("up", proc.copy, Built(copy, drafts), proc.of + 1, rest) /\ ActsOn(copy)
  <2>1. PICK copy \in proc.fresh : \E drafts \in SUBSET Offers(copy),
                                     rest \in {proc.fresh, proc.fresh \ {copy}} :
          /\ proc' = [proc EXCEPT !.cards = Built(copy, drafts), !.of = @ + 1, !.fresh = rest]
          /\ ActsOn(copy)
    BY <1>7 DEF EndRefresh
  <2>2. PICK drafts \in SUBSET Offers(copy), rest \in {proc.fresh, proc.fresh \ {copy}} :
          /\ proc' = [proc EXCEPT !.cards = Built(copy, drafts), !.of = @ + 1, !.fresh = rest]
          /\ ActsOn(copy)
    BY <2>1
  <2> DEFINE cards == Built(copy, drafts)
  <2>3. proc.of + 1 \in 0..MaxBuilds
    BY <1>1, <1>7 DEF EndRefresh
  <2>4. proc' = [proc EXCEPT !.cards = cards, !.of = proc.of + 1, !.fresh = rest]
    BY <2>2
  <2> HIDE DEF cards
  <2>5. Becomes("up", proc.copy, cards, proc.of + 1, rest)
    BY <1>1, <1>7, <2>3, <2>4 DEF Becomes, Process, EndRefresh
  <2>6. rest \in SUBSET proc.fresh
    BY <2>2
  <2> QED BY <2>2, <2>5, <2>6 DEF cards
<1>8. ASSUME NEW cards, proc' = [proc EXCEPT !.cards = cards]
      PROVE  Becomes(proc.step, proc.copy, cards, proc.of, proc.fresh)
  BY <1>1, <1>8 DEF Becomes, Process
<1>9. ASSUME NEW r \in Requests, Open(r) \/ Mark(r)
      PROVE  Becomes(proc.step, proc.copy, Less(proc.cards, req[r].to), proc.of, proc.fresh)
  <2>1. proc' = [proc EXCEPT !.cards = Less(proc.cards, req[r].to)]
    BY <1>9 DEF Open, Mark, Take
  <2> QED BY <1>8, <2>1
<1>10. ASSUME NEW r \in Requests, RecordByHand(r)
       PROVE  \/ Becomes(proc.step, proc.copy, Less(proc.cards, req[r].to), proc.of, proc.fresh)
              \/ Becomes(proc.step, proc.copy, proc.cards, proc.of, proc.fresh)
  <2>1. \/ proc' = [proc EXCEPT !.cards = Less(proc.cards, req[r].to)]
        \/ proc' = proc
    BY <1>10 DEF RecordByHand, Take
  <2>2. CASE proc' = proc
    BY <1>1, <2>2 DEF Becomes
  <2> QED BY <1>8, <2>1, <2>2
<1> QED BY <1>3, <1>4, <1>5, <1>6, <1>7, <1>9, <1>10

Turns(step, of, todo, copy, left) ==
  /\ Sending(sender') /\ sender'.step = step /\ sender'.of = of /\ sender'.todo = todo
  /\ sender'.copy = copy /\ sender'.left = left

LEMMA SenderSteps ==
  ASSUME TypeOK
  PROVE  /\ StartSender => Turns("next", manifest.of, manifest.drafts, rows, Left)
         /\ \A a \in Contacts : Send(a) =>
              /\ Turns("mailed", sender.of, Less(sender.todo, a), sender.copy, sender.left - 1)
              /\ sender'.to = a
         /\ Save => Turns("next", sender.of, sender.todo,
                          WithSend(sender.copy, sender.to, [day |-> today, by |-> "sender"], today),
                          sender.left)
         /\ Unreported =>
              Turns("next", sender.of, sender.todo, sender.copy, sender.left + 1)
         /\ EndSender \/ CrashSender => Turns("off", 0, <<>>, <<>>, 0)
         /\ Left \in 0..Cap
<1>1. Sending(sender) /\ MaxBuilds \in Nat /\ manifest.of \in 0..MaxBuilds /\ Cap \in Nat
      /\ sender.left \in 0..Cap
  BY LocalAssumption, CapAssumption DEF TypeOK, Sending
<1>2. Left \in 0..Cap
  <2>1. SentInLast24h(rows, today) \in Nat
    BY StampsFacts DEF TypeOK, SentInLast24h
  <2> QED BY <1>1, <2>1 DEF Left
<1>3. /\ Sending(Idle) /\ Idle.step = "off" /\ Idle.of = 0 /\ Idle.todo = <<>>
      /\ Idle.copy = <<>> /\ Idle.left = 0
  <2>1. Idle.to \in Contacts \cup {Idle.to}
    OBVIOUS
  <2>2. Idle.step = "off" /\ Idle.of = 0 /\ Idle.todo = <<>> /\ Idle.copy = <<>> /\ Idle.left = 0
        /\ Idle \in [step : {"off"}, of : {0}, todo : {<<>>}, copy : {<<>>}, left : {0},
                     to : {Idle.to}]
    BY DEF Idle
  <2>3. 0 \in 0..MaxBuilds /\ 0 \in 0..Cap
    BY <1>1
  <2> HIDE DEF Idle
  <2> QED BY <2>1, <2>2, <2>3 DEF Sending
<1>4. ASSUME StartSender PROVE Turns("next", manifest.of, manifest.drafts, rows, Left)
  <2>1. sender' = [Idle EXCEPT !.step = "next", !.of = manifest.of, !.todo = manifest.drafts,
                               !.copy = rows, !.left = Left]
    BY <1>4 DEF StartSender
  <2> HIDE DEF Idle
  <2> QED BY <1>1, <1>2, <1>3, <2>1 DEF Turns, Sending
<1>5. ASSUME NEW a \in Contacts, Send(a)
      PROVE  /\ Turns("mailed", sender.of, Less(sender.todo, a), sender.copy, sender.left - 1)
             /\ sender'.to = a
  <2> DEFINE todo == Less(sender.todo, a)
  <2>1. sender' = [sender EXCEPT !.step = "mailed", !.to = a, !.left = sender.left - 1,
                                 !.todo = todo]
    BY <1>5 DEF Send
  <2>2. sender.left - 1 \in 0..Cap
    BY <1>1, <1>5 DEF Send
  <2> HIDE DEF todo
  <2>3. Turns("mailed", sender.of, todo, sender.copy, sender.left - 1) /\ sender'.to = a
    BY <1>1, <2>1, <2>2 DEF Turns, Sending
  <2> QED BY <2>3 DEF todo
<1>6. ASSUME Save
      PROVE  Turns("next", sender.of, sender.todo,
                   WithSend(sender.copy, sender.to, [day |-> today, by |-> "sender"], today),
                   sender.left)
  <2> DEFINE new == WithSend(sender.copy, sender.to, [day |-> today, by |-> "sender"], today)
  <2>1. sender' = [sender EXCEPT !.step = "next", !.copy = new]
    BY <1>6 DEF Save
  <2> HIDE DEF new
  <2>2. Turns("next", sender.of, sender.todo, new, sender.left)
    BY <1>1, <2>1 DEF Turns, Sending
  <2> QED BY <2>2 DEF new
<1>7. ASSUME EndSender \/ CrashSender PROVE Turns("off", 0, <<>>, <<>>, 0)
  <2>1. sender' = Idle
    BY <1>7 DEF EndSender, CrashSender
  <2> HIDE DEF Idle
  <2> QED BY <1>3, <2>1 DEF Turns
<1>8. ASSUME Unreported
      PROVE  Turns("next", sender.of, sender.todo, sender.copy, sender.left + 1)
  <2>1. sender.left + 1 \in 0..Cap
    BY <1>1, <1>8 DEF Unreported, TypeOK
  <2>2. sender' = [sender EXCEPT !.step = "next", !.left = sender.left + 1]
    BY <1>8 DEF Unreported
  <2> QED BY <1>1, <2>1, <2>2 DEF Turns, Sending
<1> QED BY <1>2, <1>4, <1>5, <1>6, <1>7, <1>8

\* The file after each step: as it was, or some copy with a send, a flag or rows more;
\* as long as nothing raced, the copy is the file.
Changes(copy) ==
  \/ \E a \in Contacts, by \in By : rows' = WithSend(copy, a, [day |-> today, by |-> by], today)
  \/ \E a \in Contacts, flag \in Flags : rows' = WithFlag(copy, a, flag)
  \/ \E drafts \in SUBSET Contacts : rows' = WithDrafts(copy, drafts, today)

LEMMA RowsMove ==
  ASSUME TypeOK, Next
  PROVE  /\ rows' # rows => \E copy : IsState(copy, Days, By) /\ ActsOn(copy) /\ Changes(copy)
         /\ ~raced' => ~raced
         /\ raced' \in BOOLEAN
<1>1. \A copy : ActsOn(copy) => (~raced' => ~raced) /\ raced' \in BOOLEAN
  BY DEF ActsOn, TypeOK
<1>2. UNCHANGED raced => (~raced' => ~raced) /\ raced' \in BOOLEAN
  BY DEF TypeOK
<1>3. CASE \E r \in Requests : Open(r) \/ RecordByHand(r)
  <2>1. PICK r \in Requests : Open(r) \/ RecordByHand(r)
    BY <1>3
  <2>2. IsState(req[r].seen, Days, By) /\ req[r].to \in Contacts /\ r \in By
    BY <2>1 DEF TypeOK, Open, RecordByHand, By
  <2>3. /\ rows' = WithSend(req[r].seen, req[r].to, [day |-> today, by |-> r], today)
        /\ ActsOn(req[r].seen)
    BY <2>1 DEF Open, RecordByHand, Write
  <2>4. Changes(req[r].seen)
    BY <2>2, <2>3 DEF Changes
  <2> QED BY <1>1, <2>2, <2>3, <2>4
<1>4. CASE \E r \in Requests : Mark(r)
  <2>1. PICK r \in Requests : Mark(r)
    BY <1>4
  <2>2. IsState(req[r].seen, Days, By) /\ req[r].to \in Contacts
    BY <2>1 DEF TypeOK, Mark
  <2>3. \/ rows' = WithFlag(req[r].seen, req[r].to, FlagOf(req[r].kind)) /\ ActsOn(req[r].seen)
        \/ UNCHANGED <<rows, raced>>
    BY <2>1 DEF Mark
  <2>4. FlagOf(req[r].kind) \in Flags
    BY DEF FlagOf, Flags
  <2>5. CASE rows' = WithFlag(req[r].seen, req[r].to, FlagOf(req[r].kind)) /\ ActsOn(req[r].seen)
    <3>1. Changes(req[r].seen)
      BY <2>2, <2>4, <2>5 DEF Changes
    <3> QED BY <1>1, <2>2, <2>5, <3>1
  <2> QED BY <1>2, <2>3, <2>5
<1>5. CASE Save
  <2>1. sender.to \in Contacts /\ IsState(sender.copy, Days, By) /\ "sender" \in By
    BY <1>5 DEF TypeOK, Save, By
  <2>2. /\ rows' = WithSend(sender.copy, sender.to, [day |-> today, by |-> "sender"], today)
        /\ ActsOn(sender.copy)
    BY <1>5 DEF Save, Saved
  <2>3. Changes(sender.copy)
    BY <2>1, <2>2 DEF Changes
  <2> QED BY <1>1, <2>1, <2>2, <2>3
<1>6. CASE WriteMbox
  <2>1. IsState(proc.copy, Days, By) /\ DOMAIN proc.cards \in SUBSET Contacts
    BY DEF TypeOK, IsBatch
  <2>2. rows' = WithDrafts(proc.copy, DOMAIN proc.cards, today) /\ ActsOn(proc.copy)
    BY <1>6 DEF WriteMbox
  <2>3. Changes(proc.copy)
    BY <2>1, <2>2 DEF Changes
  <2> QED BY <1>1, <2>1, <2>2, <2>3
<1>7. CASE EndBuild \/ EndRefresh \/ \E a \in Contacts : Send(a)
  <2>1. rows' = rows /\ \E copy : ActsOn(copy)
    BY <1>7 DEF EndBuild, EndRefresh, Send
  <2> QED BY <1>1, <2>1
<1>8. CASE \/ \E goal \in {"serve", "mbox"} : StartBuild(goal)
           \/ StartRefresh \/ Stop \/ StartSender \/ EndSender \/ CrashSender \/ Unreported
           \/ NextDay
           \/ \E r \in Requests : NotOpened(r)
           \/ \E r \in Requests : \E kind \in Clicks, a \in Contacts : Arrive(r, kind, a)
  <2>1. UNCHANGED <<rows, raced>>
    BY <1>8 DEF StartBuild, StartRefresh, Stop, StartSender, EndSender, CrashSender, Unreported,
                NextDay, NotOpened, Arrive
  <2> QED BY <1>2, <2>1
<1> QED BY <1>3, <1>4, <1>5, <1>6, <1>7, <1>8 DEF Next, Request, Sender

LEMMA ChangesType ==
  ASSUME TypeOK, NEW copy, IsState(copy, Days, By), Changes(copy)
  PROVE  IsState(rows', Days, By)
<1>1. today \in Nat /\ today \in Days
  BY DEF TypeOK, Days
<1>2. \A by \in By : [day |-> today, by |-> by] \in [day : Days, by : By]
  BY <1>1
<1>3. ASSUME NEW a \in Contacts, NEW by \in By,
             rows' = WithSend(copy, a, [day |-> today, by |-> by], today)
      PROVE  IsState(rows', Days, By)
  BY <1>1, <1>2, <1>3, WithSendFacts
<1>4. ASSUME NEW a \in Contacts, NEW flag \in Flags, rows' = WithFlag(copy, a, flag)
      PROVE  IsState(rows', Days, By)
  BY <1>4, WithFlagFacts
<1>5. ASSUME NEW drafts \in SUBSET Contacts, rows' = WithDrafts(copy, drafts, today)
      PROVE  IsState(rows', Days, By)
  BY <1>1, <1>5, WithDraftsFacts
<1> QED BY <1>3, <1>4, <1>5 DEF Changes

\* Requests.
LEMMA RequestTypes ==
  ASSUME TypeOK, Next
  PROVE  DOMAIN req' = Requests /\ \A r \in Requests : Asking(req'[r])
<1>1. DOMAIN req = Requests /\ \A r \in Requests : Asking(req[r])
  BY DEF TypeOK, Asking
<1>2. Asking(Fresh) /\ Asking(Ended)
  <2>1. IsState(<<>>, Days, By)
    BY NoRows
  <2>2. /\ Fresh \in [step : {"new"}, kind : {"open"}, to : {Fresh.to}, seen : {<<>>}]
        /\ Fresh.seen = <<>> /\ Fresh.step = "new"
    BY DEF Fresh
  <2>3. Ended = [Fresh EXCEPT !.step = "ended"]
    BY DEF Ended
  <2> HIDE DEF Fresh
  <2>4. /\ Ended \in [step : {"ended"}, kind : {"open"}, to : {Fresh.to}, seen : {<<>>}]
        /\ Ended.seen = <<>> /\ Ended.step = "ended"
    BY <2>2, <2>3
  <2> QED BY <2>1, <2>2, <2>4 DEF Asking, Kinds
<1>3. ASSUME NEW r \in Requests, NEW q, Asking(q), req' = [req EXCEPT ![r] = q]
      PROVE  DOMAIN req' = Requests /\ \A s \in Requests : Asking(req'[s])
  BY <1>1, <1>3
<1>4. CASE \E r \in Requests : Open(r) \/ NotOpened(r) \/ RecordByHand(r) \/ Mark(r)
  <2>1. PICK r \in Requests : Open(r) \/ NotOpened(r) \/ RecordByHand(r) \/ Mark(r)
    BY <1>4
  <2>2. req' = [req EXCEPT ![r] = Ended]
    BY <2>1 DEF Open, NotOpened, RecordByHand, Mark
  <2> QED BY <1>2, <1>3, <2>2
<1>5. CASE \E r \in Requests : \E kind \in Clicks, a \in Contacts : Arrive(r, kind, a)
  <2>1. PICK r \in Requests, kind \in Clicks, a \in Contacts : Arrive(r, kind, a)
    BY <1>5
  <2> DEFINE q == [step |-> "act", kind |-> kind, to |-> a, seen |-> rows]
  <2>2. req' = [req EXCEPT ![r] = q] /\ kind \in Kinds
    BY <2>1, LocalAssumption DEF Arrive
  <2>3. Asking(q)
    BY <2>2 DEF TypeOK, Asking
  <2> HIDE DEF q
  <2> QED BY <1>3, <2>2, <2>3
<1>6. CASE Stop
  <2>1. req' = [r \in Requests |->
                  IF req[r].step = "act" /\ req[r].kind # "manual" THEN Ended ELSE req[r]]
    BY <1>6 DEF Stop
  <2> QED BY <1>1, <1>2, <2>1
<1>7. CASE UNCHANGED req
  BY <1>1, <1>7
<1> QED BY <1>4, <1>5, <1>6, <1>7
        DEF Next, Request, Sender, StartBuild, EndBuild, WriteMbox, StartRefresh, EndRefresh,
            StartSender, Send, Save, EndSender, CrashSender, Unreported, NextDay

\* A card less, or an entry less.
LEMMA LessFacts ==
  ASSUME NEW f, IsBatch(f), NEW a
  PROVE  /\ IsBatch(Less(f, a)) /\ DOMAIN Less(f, a) = DOMAIN f \ {a}
         /\ \A c \in DOMAIN f \ {a} : Less(f, a)[c] = f[c]
BY DEF Less, IsBatch

\* Drafts bear the touch of their contact, which had not answered.
LEMMA BuiltFacts ==
  ASSUME NEW copy, IsState(copy, Days, By), NEW drafts \in SUBSET Offers(copy)
  PROVE  /\ IsBatch(Built(copy, drafts)) /\ DOMAIN Built(copy, drafts) = drafts
         /\ drafts \subseteq Contacts
         /\ \A a \in drafts : Built(copy, drafts)[a] = Touch(copy, a) /\ RowOf(copy, a).flags = {}
<1>1. DOMAIN copy \subseteq Contacts /\ \A a : Touch(copy, a) \in Nat
  BY StateRows, RowFields DEF Touch
<1>2. \A a \in Offers(copy) : a \in Contacts /\ RowOf(copy, a).flags = {}
  BY <1>1 DEF Offers, FollowUps, FirstTouches, Answered, RowOf
<1>3. DOMAIN Built(copy, drafts) = drafts /\ \A a \in drafts : Built(copy, drafts)[a] = Touch(copy, a)
  BY DEF Built, Touch
<1> QED BY <1>1, <1>2, <1>3 DEF IsBatch

\* A mail.
LEMMA MailFacts ==
  ASSUME TypeOK, NEW a \in Contacts, NEW from \in {"page", "sender"}, NEW of \in 0..MaxBuilds,
         MailTo(a, from, of)
  PROVE  /\ mails' \in Boxes
         /\ \A b \in Contacts : \A f, o :
              Count(b, f, o)' = Count(b, f, o) + (IF b = a /\ from = f /\ of = o THEN 1 ELSE 0)
         /\ \A b \in Contacts : \A i \in DOMAIN mails'[b] :
              \/ i \in DOMAIN mails[b] /\ mails'[b][i] = mails[b][i]
              \/ /\ b = a /\ mails'[b][i].day = today
                 /\ mails'[b][i].flagged = (RowOf(rows, a).flags # {})
         /\ \A day : MailsSince(day)' = MailsSince(day) + (IF today >= day THEN 1 ELSE 0)
         /\ \A day : ~(today <= day) => Rolling(day)' = Rolling(day)
<1> DEFINE flagged == RowOf(rows, a).flags # {}
           m == [from |-> from, of |-> of, day |-> today, flagged |-> flagged]
<1>1. mails \in Boxes /\ m \in Mail /\ flagged \in BOOLEAN
  BY DEF TypeOK, Boxes, Mail
<1>2. mails' = [mails EXCEPT ![a] = Append(@, m)]
  BY DEF MailTo
<1>3. m.from = from /\ m.of = of /\ m.day = today /\ m.flagged = flagged
  OBVIOUS
<1> HIDE DEF m, flagged
<1>9. mails' \in Boxes /\ mails'[a] = Append(mails[a], m)
      /\ \A b \in Contacts : b # a => mails'[b] = mails[b]
  <2>1. mails[a] \in Seq(Mail) /\ DOMAIN mails = Contacts
    BY <1>1 DEF Boxes
  <2>2. Append(mails[a], m) \in Seq(Mail)
    <3> DEFINE q == mails[a]
    <3>1. q \in Seq(Mail)
      BY <2>1
    <3> HIDE DEF q
    <3>2. Append(q, m) \in Seq(Mail)
      BY <1>1, <3>1
    <3> QED BY <3>2 DEF q
  <2> QED BY <1>1, <1>2, <2>1, <2>2 DEF Boxes
<1>4. /\ \A b \in Contacts : \A f, o :
           Cardinality(Alike(mails', b, f, o))
             = Cardinality(Alike(mails, b, f, o))
                 + (IF b = a /\ m.from = f /\ m.of = o THEN 1 ELSE 0)
      /\ \A b \in Contacts : \A i \in DOMAIN mails'[b] :
           \/ i \in DOMAIN mails[b] /\ mails'[b][i] = mails[b][i]
           \/ b = a /\ mails'[b][i] = m
      /\ \A day : Cardinality(MailsFrom(mails', day))
                    = Cardinality(MailsFrom(mails, day)) + (IF m.day >= day THEN 1 ELSE 0)
      /\ \A day : ~(m.day <= day) => Recent(mails', day) = Recent(mails, day)
  BY <1>1, <1>9, OneMoreMail
<1>5. ASSUME NEW b \in Contacts, NEW f, NEW o
      PROVE  Count(b, f, o)' = Count(b, f, o) + (IF b = a /\ from = f /\ of = o THEN 1 ELSE 0)
  <2>1. Count(b, f, o) = Cardinality(Alike(mails, b, f, o))
    BY DEF Count, Alike
  <2>2. Count(b, f, o)' = Cardinality(Alike(mails', b, f, o))
    BY DEF Count, Alike
  <2> QED BY <1>3, <1>4, <2>1, <2>2
<1>6. \A day : MailsSince(day)' = MailsSince(day) + (IF today >= day THEN 1 ELSE 0)
  BY <1>3, <1>4 DEF MailsSince, MailsFrom
<1>7. \A day : ~(today <= day) => Rolling(day)' = Rolling(day)
  BY <1>3, <1>4 DEF Rolling, Recent
<1>8. \A b \in Contacts : \A i \in DOMAIN mails'[b] :
        \/ i \in DOMAIN mails[b] /\ mails'[b][i] = mails[b][i]
        \/ /\ b = a /\ mails'[b][i].day = today
           /\ mails'[b][i].flagged = (RowOf(rows, a).flags # {})
  BY <1>3, <1>4 DEF flagged
<1> QED BY <1>5, <1>6, <1>7, <1>8, <1>9

LEMMA NextTypes == TypeOK /\ Refreshing /\ Next => TypeOK' /\ Refreshing'
<1> SUFFICES ASSUME TypeOK, Refreshing, Next PROVE TypeOK' /\ Refreshing'
  OBVIOUS
<1>1. IsState(rows', Days, By)
  <2>1. CASE rows' = rows
    BY <2>1 DEF TypeOK
  <2>2. CASE rows' # rows
    BY <2>2, RowsMove, ChangesType
  <2> QED BY <2>1, <2>2
<1>2. IsState(<<>>, Days, By) /\ IsBatch(<<>>) /\ IsState(rows, Days, By)
  BY NoRows DEF IsBatch, TypeOK
<1> DEFINE ProcTyped ==
             /\ Process(proc) /\ IsState(proc.copy, Days, By) /\ IsBatch(proc.cards)
             /\ \A copy \in proc.fresh : IsState(copy, Days, By)
             /\ Refreshing
           SenderTyped ==
             /\ Sending(sender) /\ IsBatch(sender.todo) /\ IsState(sender.copy, Days, By)
             /\ sender.step = "mailed" => sender.to \in Contacts /\ sender.left < Cap
<1>3. ProcTyped /\ SenderTyped
  BY DEF TypeOK, Process, Sending
<1>4. ProcTyped'
  <2>1. CASE UNCHANGED proc
    BY <1>3, <2>1 DEF Process, Refreshing
  <2>2. ASSUME NEW goal \in {"serve", "mbox"}, StartBuild(goal) PROVE ProcTyped'
    <3>1. Becomes("building", rows, <<>>, proc.of + 1, {})
      BY <2>2, ProcSteps
    <3> QED BY <1>2, <3>1 DEF Becomes, Process, Refreshing
  <2>3. ASSUME EndBuild PROVE ProcTyped'
    <3>1. PICK drafts \in SUBSET Offers(proc.copy) :
            \/ Becomes("up", <<>>, Built(proc.copy, drafts), proc.of, proc.fresh)
            \/ Becomes("sync", rows, Built(proc.copy, drafts), proc.of, proc.fresh)
      BY <2>3, ProcSteps
    <3>2. IsBatch(Built(proc.copy, drafts)) /\ proc.fresh = {}
      BY <1>3, <2>3, BuiltFacts DEF Refreshing, EndBuild
    <3> QED BY <1>2, <3>1, <3>2 DEF Becomes, Process, Refreshing
  <2>4. ASSUME WriteMbox \/ Stop PROVE ProcTyped'
    <3>1. Becomes("off", <<>>, <<>>, proc.of, {})
      BY <2>4, ProcSteps
    <3> QED BY <1>2, <3>1 DEF Becomes, Process, Refreshing
  <2>5. ASSUME StartRefresh PROVE ProcTyped'
    <3>1. Becomes("up", proc.copy, proc.cards, proc.of, proc.fresh \cup {rows})
      BY <2>5, ProcSteps
    <3> QED BY <1>2, <1>3, <3>1 DEF Becomes, Process, Refreshing
  <2>6. ASSUME EndRefresh PROVE ProcTyped'
    <3>1. PICK copy \in proc.fresh : \E drafts \in SUBSET Offers(copy),
                                       rest \in SUBSET proc.fresh :
            Becomes("up", proc.copy, Built(copy, drafts), proc.of + 1, rest)
      BY <2>6, ProcSteps
    <3>2. PICK drafts \in SUBSET Offers(copy), rest \in SUBSET proc.fresh :
            Becomes("up", proc.copy, Built(copy, drafts), proc.of + 1, rest)
      BY <3>1
    <3>3. IsBatch(Built(copy, drafts))
      BY <1>3, BuiltFacts
    <3> QED BY <1>2, <1>3, <3>2, <3>3 DEF Becomes, Process, Refreshing
  <2>7. ASSUME NEW r \in Requests, Open(r) \/ Mark(r) \/ RecordByHand(r) PROVE ProcTyped'
    <3>1. \/ Becomes(proc.step, proc.copy, Less(proc.cards, req[r].to), proc.of, proc.fresh)
          \/ Becomes(proc.step, proc.copy, proc.cards, proc.of, proc.fresh)
      BY <2>7, ProcSteps
    <3>2. IsBatch(Less(proc.cards, req[r].to))
      BY <1>3, LessFacts
    <3> QED BY <1>3, <3>1, <3>2 DEF Becomes, Process, Refreshing
  <2> QED BY <2>1, <2>2, <2>3, <2>4, <2>5, <2>6, <2>7
          DEF Next, Request, Sender, Arrive, NotOpened, StartSender, Send, Save, EndSender,
              CrashSender, Unreported, NextDay
<1>5. SenderTyped'
  <2>1. CASE UNCHANGED sender
    BY <1>3, <2>1 DEF Sending
  <2>2. ASSUME StartSender PROVE SenderTyped'
    <3>1. Turns("next", manifest.of, manifest.drafts, rows, Left)
      BY <2>2, SenderSteps
    <3> QED BY <1>2, <3>1 DEF Turns, Sending, TypeOK
  <2>3. ASSUME NEW a \in Contacts, Send(a) PROVE SenderTyped'
    <3>1. /\ Turns("mailed", sender.of, Less(sender.todo, a), sender.copy, sender.left - 1)
          /\ sender'.to = a
      BY <2>3, SenderSteps
    <3>2. IsBatch(Less(sender.todo, a))
      BY <1>3, LessFacts
    <3>3. sender.left - 1 < Cap
      BY CapAssumption DEF TypeOK
    <3> QED BY <1>3, <3>1, <3>2, <3>3 DEF Turns, Sending
  <2>4. ASSUME Save PROVE SenderTyped'
    <3> DEFINE new == WithSend(sender.copy, sender.to, [day |-> today, by |-> "sender"], today)
    <3>1. Turns("next", sender.of, sender.todo, new, sender.left)
      BY <2>4, SenderSteps
    <3>2. sender.to \in Contacts /\ today \in Nat
          /\ [day |-> today, by |-> "sender"] \in [day : Days, by : By]
      BY <2>4 DEF TypeOK, Save, By, Days
    <3>3. IsState(new, Days, By)
      BY <1>3, <3>2, WithSendFacts
    <3> HIDE DEF new
    <3> QED BY <1>3, <3>1, <3>3 DEF Turns, Sending
  <2>5. ASSUME Unreported PROVE SenderTyped'
    <3>1. Turns("next", sender.of, sender.todo, sender.copy, sender.left + 1)
      BY <2>5, SenderSteps
    <3> QED BY <1>3, <3>1 DEF Turns, Sending
  <2>6. ASSUME EndSender \/ CrashSender PROVE SenderTyped'
    <3>1. Turns("off", 0, <<>>, <<>>, 0)
      BY <2>6, SenderSteps
    <3> QED BY <1>2, <3>1 DEF Turns, Sending
  <2> QED BY <2>1, <2>2, <2>3, <2>4, <2>5, <2>6
          DEF Next, Request, Sender, StartBuild, EndBuild, WriteMbox, StartRefresh, EndRefresh,
              Stop, Arrive, Open, NotOpened, RecordByHand, Mark, NextDay
<1>6. mails' \in Boxes
  <2>1. CASE UNCHANGED mails
    BY <2>1 DEF TypeOK, Boxes, Mail
  <2>2. ASSUME NEW r \in Requests, Open(r) PROVE mails' \in Boxes
    <3>1. req[r].to \in Contacts /\ proc.of \in 0..MaxBuilds /\ MailTo(req[r].to, "page", proc.of)
      BY <2>2 DEF TypeOK, Open
    <3> QED BY <3>1, MailFacts
  <2>3. ASSUME NEW a \in Contacts, Send(a) PROVE mails' \in Boxes
    <3>1. sender.of \in 0..MaxBuilds /\ MailTo(a, "sender", sender.of)
      BY <2>3 DEF TypeOK, Send
    <3> QED BY <3>1, MailFacts
  <2> QED BY <2>1, <2>2, <2>3
          DEF Next, Request, Sender, StartBuild, EndBuild, WriteMbox, StartRefresh, EndRefresh,
              Stop, Arrive, NotOpened, RecordByHand, Mark, NextDay, StartSender, Save, EndSender,
              CrashSender, Unreported
<1>7. manifest' \in [of : 0..MaxBuilds, drafts : {manifest'.drafts}] /\ IsBatch(manifest'.drafts)
  <2>1. manifest' = manifest \/ manifest' = [of |-> proc.of, drafts |-> proc.cards]
    BY DEF Next, Request, Sender, StartBuild, EndBuild, WriteMbox, StartRefresh, EndRefresh,
           Stop, Arrive, Open, NotOpened, RecordByHand, Mark, NextDay, StartSender, Send, Save,
           EndSender, CrashSender, Unreported
  <2>2. proc.of \in 0..MaxBuilds
    BY DEF TypeOK
  <2> QED BY <1>3, <2>1, <2>2 DEF TypeOK
<1>8. runs' \in 0..MaxRuns /\ today' \in Days /\ cut' \in Nat
  <2>1. MaxRuns \in Nat /\ MaxDay \in Nat /\ runs \in 0..MaxRuns /\ today \in 0..MaxDay /\ cut \in Nat
    BY LocalAssumption DEF TypeOK, Days
  <2>2. \/ runs' = runs
        \/ runs' = runs + 1 /\ runs < MaxRuns
    BY DEF Next, Request, Sender, StartBuild, EndBuild, WriteMbox, StartRefresh, EndRefresh,
           Stop, Arrive, Open, NotOpened, RecordByHand, Mark, NextDay, StartSender, Send, Save,
           EndSender, CrashSender, Unreported
  <2>3. \/ today' = today
        \/ today' = today + 1 /\ today < MaxDay
    BY DEF Next, Request, Sender, StartBuild, EndBuild, WriteMbox, StartRefresh, EndRefresh,
           Stop, Arrive, Open, NotOpened, RecordByHand, Mark, NextDay, StartSender, Send, Save,
           EndSender, CrashSender, Unreported
  <2>4. cut' = cut \/ cut' = cut + 1
    BY DEF Next, Request, Sender, StartBuild, EndBuild, WriteMbox, StartRefresh, EndRefresh,
           Stop, Arrive, Open, NotOpened, RecordByHand, Mark, NextDay, StartSender, Send, Save,
           EndSender, CrashSender, Unreported
  <2> QED BY <2>1, <2>2, <2>3, <2>4 DEF Days
<1>9. DOMAIN req' = Requests /\ (\A r \in Requests : Asking(req'[r])) /\ raced' \in BOOLEAN
  BY RequestTypes, RowsMove
<1>10. ProcTyped' <=>
         /\ Process(proc') /\ IsState(proc'.copy, Days, By) /\ IsBatch(proc'.cards)
         /\ \A copy \in proc'.fresh : IsState(copy, Days, By)
         /\ Refreshing'
  OBVIOUS
<1>11. TypeOK'
  BY <1>1, <1>4, <1>5, <1>6, <1>7, <1>8, <1>9
     DEF TypeOK, Process, Asking, Sending, Boxes, Mail
<1> QED BY <1>4, <1>11

-----------------------------------------------------------------------------
(* What holds whatever races. *)

\* Counts are numbers.
LEMMA CountNat ==
  ASSUME TypeOK
  PROVE  /\ \A a \in Contacts : \A from, of : Count(a, from, of) \in Nat
         /\ \A day : MailsSince(day) \in Nat /\ Cardinality(Rolling(day)) \in Nat
<1>1. mails \in Boxes
  BY DEF TypeOK, Boxes, Mail
<1>2. \A a \in Contacts : \A from, of : Count(a, from, of) = Cardinality(Alike(mails, a, from, of))
  BY DEF Count, Alike
<1>3. \A day : MailsSince(day) = Cardinality(MailsFrom(mails, day)) /\ Rolling(day) = Recent(mails, day)
  BY DEF MailsSince, MailsFrom, Rolling, Recent
<1> QED BY <1>1, <1>2, <1>3, BoxFacts

\* The steps that send a mail.
LEMMA MailSteps ==
  ASSUME TypeOK, Next
  PROVE  \/ UNCHANGED mails
         \/ \E r \in Requests : Open(r)
         \/ \E a \in Contacts : Send(a)
BY DEF Next, Request, Sender, StartBuild, EndBuild, WriteMbox, StartRefresh, EndRefresh, Stop,
       Arrive, NotOpened, RecordByHand, Mark, NextDay, StartSender, Save, EndSender, CrashSender,
       Unreported

\* The mails of a card, and those of an entry.
LEMMA OpenMails ==
  ASSUME TypeOK, NEW r \in Requests, Open(r)
  PROVE  /\ req[r].to \in Contacts /\ req[r].to \in DOMAIN proc.cards
         /\ proc.of \in 0..MaxBuilds /\ MailTo(req[r].to, "page", proc.of)
         /\ \A b \in Contacts : \A of : Count(b, "sender", of)' = Count(b, "sender", of)
         /\ \A b \in Contacts : \A of :
              Count(b, "page", of)' = Count(b, "page", of)
                                        + (IF b = req[r].to /\ of = proc.of THEN 1 ELSE 0)
<1>1. /\ req[r].to \in Contacts /\ req[r].to \in DOMAIN proc.cards
      /\ proc.of \in 0..MaxBuilds /\ MailTo(req[r].to, "page", proc.of)
  BY DEF TypeOK, Open
<1>2. \A b \in Contacts : \A f, o :
        Count(b, f, o)' = Count(b, f, o)
                            + (IF b = req[r].to /\ "page" = f /\ proc.of = o THEN 1 ELSE 0)
  BY <1>1, MailFacts
<1> QED BY <1>1, <1>2, CountNat

LEMMA SendMails ==
  ASSUME TypeOK, NEW a \in Contacts, Send(a)
  PROVE  /\ sender.of \in 0..MaxBuilds /\ MailTo(a, "sender", sender.of)
         /\ \A b \in Contacts : \A of : Count(b, "page", of)' = Count(b, "page", of)
         /\ \A b \in Contacts : \A of :
              Count(b, "sender", of)' = Count(b, "sender", of)
                                          + (IF b = a /\ of = sender.of THEN 1 ELSE 0)
<1>1. sender.of \in 0..MaxBuilds /\ MailTo(a, "sender", sender.of)
  BY DEF TypeOK, Send
<1>2. \A b \in Contacts : \A f, o :
        Count(b, f, o)' = Count(b, f, o)
                            + (IF b = a /\ "sender" = f /\ sender.of = o THEN 1 ELSE 0)
  BY <1>1, MailFacts
<1> QED BY <1>1, <1>2, CountNat

LEMMA NextPaged == TypeOK /\ Refreshing /\ Paged /\ Next => Paged'
<1> SUFFICES ASSUME TypeOK, Refreshing, Paged, Next PROVE Paged'
  OBVIOUS
<1>1. /\ proc.step = "building" =>
           proc.cards = <<>> /\ \A a \in Contacts : Count(a, "page", proc.of) = 0
      /\ \A a \in DOMAIN proc.cards : Count(a, "page", proc.of) = 0
      /\ \A a \in Contacts : \A of \in (proc.of + 1)..MaxBuilds : Count(a, "page", of) = 0
      /\ \A a \in Contacts : \A of \in 1..MaxBuilds : Count(a, "page", of) <= 1
  BY DEF Paged, CardMailsOnce
<1>2. /\ proc.of \in 0..MaxBuilds /\ MaxBuilds \in Nat /\ DOMAIN proc.cards \subseteq Contacts
      /\ IsBatch(proc.cards) /\ IsState(proc.copy, Days, By)
      /\ \A copy \in proc.fresh : IsState(copy, Days, By)
  BY LocalAssumption DEF TypeOK, IsBatch
<1>3. DOMAIN <<>> = {}
  OBVIOUS
<1>4. CASE \E r \in Requests : Open(r)
  <2>1. PICK r \in Requests : Open(r)
    BY <1>4
  <2> DEFINE a == req[r].to
  <2>2. /\ Becomes(proc.step, proc.copy, Less(proc.cards, a), proc.of, proc.fresh)
        /\ a \in Contacts /\ a \in DOMAIN proc.cards
        /\ \A b \in Contacts : \A of :
             Count(b, "page", of)' = Count(b, "page", of) + (IF b = a /\ of = proc.of THEN 1 ELSE 0)
    BY <2>1, ProcSteps, OpenMails
  <2>3. DOMAIN proc'.cards = DOMAIN proc.cards \ {a} /\ proc'.of = proc.of /\ proc'.step = proc.step
    <3>1. proc'.cards = Less(proc.cards, a) /\ proc'.of = proc.of /\ proc'.step = proc.step
      BY <2>2 DEF Becomes
    <3> HIDE DEF a
    <3>2. DOMAIN Less(proc.cards, a) = DOMAIN proc.cards \ {a}
      BY <1>2, LessFacts
    <3> QED BY <3>1, <3>2
  <2>4. proc.step # "building"
    BY <1>1, <1>3, <2>2
  <2>5. \A b \in Contacts : \A of :
          Count(b, "page", of) \in Nat /\ (b # a \/ of # proc.of => Count(b, "page", of)' = Count(b, "page", of))
    BY <2>2, CountNat
  <2>6. \A b \in Contacts : \A of : b = a /\ of = proc.of => Count(b, "page", of)' = 1
    BY <1>1, <2>2
  <2> HIDE DEF a
  <2>7. \A b \in DOMAIN proc'.cards : \A of : of = proc.of => Count(b, "page", of)' = 0
    BY <1>1, <1>2, <2>3, <2>5
  <2>8. \A b \in Contacts : \A of \in (proc.of + 1)..MaxBuilds : Count(b, "page", of)' = 0
    BY <1>1, <1>2, <2>5
  <2>9. \A b \in Contacts : \A of \in 1..MaxBuilds : Count(b, "page", of)' <= 1
    <3>1. ASSUME NEW b \in Contacts, NEW of \in 1..MaxBuilds PROVE Count(b, "page", of)' <= 1
      <4>1. CASE b = a /\ of = proc.of
        BY <2>6, <4>1
      <4>2. CASE ~(b = a /\ of = proc.of)
        BY <1>1, <2>5, <4>2
      <4> QED BY <4>1, <4>2
    <3> QED BY <3>1
  <2> QED BY <2>3, <2>4, <2>7, <2>8, <2>9 DEF Paged, CardMailsOnce
<1>5. CASE ~\E r \in Requests : Open(r)
  <2>1. \A b \in Contacts : \A of : Count(b, "page", of)' = Count(b, "page", of)
    <3>1. CASE UNCHANGED mails
      BY <3>1 DEF Count
    <3>2. CASE \E a \in Contacts : Send(a)
      BY <3>2, SendMails
    <3> QED BY <1>5, <3>1, <3>2, MailSteps
  <2> DEFINE Goal == /\ proc'.step = "building" =>
                          proc'.cards = <<>> /\ \A a \in Contacts : Count(a, "page", proc'.of) = 0
                     /\ DOMAIN proc'.cards \subseteq Contacts
                     /\ \A a \in DOMAIN proc'.cards : Count(a, "page", proc'.of) = 0
                     /\ proc'.of \in {proc.of, proc.of + 1}
  <2>2. ASSUME Goal PROVE Paged'
    <3>1. CardMailsOnce'
      BY <1>1, <2>1 DEF CardMailsOnce
    <3>2. \A a \in Contacts : \A of \in (proc'.of + 1)..MaxBuilds : Count(a, "page", of) = 0
      BY <1>1, <1>2, <2>2
    <3>3. \A b \in Contacts : Count(b, "page", proc.of)' = Count(b, "page", proc'.of)
      <4>1. ASSUME NEW b \in Contacts, NEW of, of = proc'.of
            PROVE  Count(b, "page", proc.of)' = Count(b, "page", of)
        <5>1. Count(b, "page", proc.of)' = Count(b, "page", of)'
          BY <4>1 DEF Count
        <5> QED BY <2>1, <5>1
      <4> QED BY <4>1
    <3> QED BY <2>1, <2>2, <3>1, <3>2, <3>3 DEF Paged
  <2>3. CASE UNCHANGED proc
    <3>1. proc' = proc
      BY <2>3
    <3>2. /\ proc.step = "building" =>
               proc.cards = <<>> /\ \A a \in Contacts : Count(a, "page", proc.of) = 0
          /\ DOMAIN proc.cards \subseteq Contacts
          /\ \A a \in DOMAIN proc.cards : Count(a, "page", proc.of) = 0
          /\ proc.of \in {proc.of, proc.of + 1}
      BY <1>1, <1>2
    <3> QED BY <2>2, <3>1, <3>2
  <2>4. ASSUME NEW goal \in {"serve", "mbox"}, StartBuild(goal) PROVE Goal
    <3>1. Becomes("building", rows, <<>>, proc.of + 1, {})
      BY <2>4, ProcSteps
    <3>2. proc.of < MaxBuilds
      BY <2>4 DEF StartBuild
    <3>3. proc.of + 1 \in (proc.of + 1)..MaxBuilds
      BY <1>2, <3>2
    <3>4. \A a \in Contacts : Count(a, "page", proc.of + 1) = 0
      BY <1>1, <3>3
    <3>5. proc'.cards = <<>> /\ proc'.of = proc.of + 1
      BY <3>1 DEF Becomes
    <3> QED BY <1>3, <3>4, <3>5
  <2>5. ASSUME EndBuild PROVE Goal
    <3>1. PICK drafts \in SUBSET Offers(proc.copy) :
            \/ Becomes("up", <<>>, Built(proc.copy, drafts), proc.of, proc.fresh)
            \/ Becomes("sync", rows, Built(proc.copy, drafts), proc.of, proc.fresh)
      BY <2>5, ProcSteps
    <3>2. DOMAIN Built(proc.copy, drafts) \subseteq Contacts
      BY <1>2, BuiltFacts
    <3> QED BY <1>1, <2>5, <3>1, <3>2 DEF Becomes, EndBuild
  <2>6. ASSUME WriteMbox \/ Stop PROVE Goal
    <3>1. Becomes("off", <<>>, <<>>, proc.of, {})
      BY <2>6, ProcSteps
    <3> QED BY <1>3, <3>1 DEF Becomes
  <2>7. ASSUME StartRefresh PROVE Goal
    <3>1. Becomes("up", proc.copy, proc.cards, proc.of, proc.fresh \cup {rows})
      BY <2>7, ProcSteps
    <3> QED BY <1>1, <1>2, <3>1 DEF Becomes
  <2>8. ASSUME EndRefresh PROVE Goal
    <3>1. PICK copy \in proc.fresh : \E drafts \in SUBSET Offers(copy),
                                       rest \in SUBSET proc.fresh :
            Becomes("up", proc.copy, Built(copy, drafts), proc.of + 1, rest)
      BY <2>8, ProcSteps
    <3>2. PICK drafts \in SUBSET Offers(copy), rest \in SUBSET proc.fresh :
            Becomes("up", proc.copy, Built(copy, drafts), proc.of + 1, rest)
      BY <3>1
    <3>3. DOMAIN Built(copy, drafts) \subseteq Contacts
      BY <1>2, BuiltFacts
    <3>4. proc.of + 1 \in (proc.of + 1)..MaxBuilds
      BY <1>2, <3>2 DEF Becomes, Process
    <3> QED BY <1>1, <3>2, <3>3, <3>4 DEF Becomes
  <2>9. ASSUME NEW r \in Requests, Mark(r) \/ RecordByHand(r) PROVE Goal
    <3>1. \/ Becomes(proc.step, proc.copy, Less(proc.cards, req[r].to), proc.of, proc.fresh)
          \/ Becomes(proc.step, proc.copy, proc.cards, proc.of, proc.fresh)
      BY <2>9, ProcSteps
    <3>2. DOMAIN Less(proc.cards, req[r].to) = DOMAIN proc.cards \ {req[r].to}
      BY <1>2, LessFacts
    <3>3. proc.cards = <<>> => Less(proc.cards, req[r].to) = <<>>
      BY <1>3 DEF Less
    <3> QED BY <1>1, <1>2, <3>1, <3>2, <3>3 DEF Becomes
  <2> QED BY <1>5, <2>2, <2>3, <2>4, <2>5, <2>6, <2>7, <2>8, <2>9
          DEF Next, Request, Sender, Arrive, NotOpened, StartSender, Send, Save, EndSender,
              CrashSender, Unreported, NextDay
<1> QED BY <1>4, <1>5

\* Builds only go on, and one under way stays the one it is.
LEMMA ProcGoesOn ==
  ASSUME TypeOK, Refreshing, Next
  PROVE  /\ proc'.of >= proc.of
         /\ proc'.step \in {"building", "sync"} =>
              proc'.of > proc.of \/ (proc'.of = proc.of /\ proc.step \in {"building", "sync"})
<1>1. proc.of \in Nat
  BY LocalAssumption DEF TypeOK
<1> DEFINE Goal ==
      /\ proc'.of >= proc.of
      /\ proc'.step \in {"building", "sync"} =>
           proc'.of > proc.of \/ (proc'.of = proc.of /\ proc.step \in {"building", "sync"})
<1>2. CASE UNCHANGED proc
  BY <1>1, <1>2
<1>3. ASSUME NEW goal \in {"serve", "mbox"}, StartBuild(goal) PROVE Goal
  <2>1. Becomes("building", rows, <<>>, proc.of + 1, {})
    BY <1>3, ProcSteps
  <2> QED BY <1>1, <2>1 DEF Becomes
<1>4. ASSUME EndBuild PROVE Goal
  <2>1. PICK drafts \in SUBSET Offers(proc.copy) :
          \/ Becomes("up", <<>>, Built(proc.copy, drafts), proc.of, proc.fresh)
          \/ Becomes("sync", rows, Built(proc.copy, drafts), proc.of, proc.fresh)
    BY <1>4, ProcSteps
  <2> QED BY <1>1, <1>4, <2>1 DEF Becomes, EndBuild
<1>5. ASSUME WriteMbox \/ Stop PROVE Goal
  <2>1. Becomes("off", <<>>, <<>>, proc.of, {})
    BY <1>5, ProcSteps
  <2> QED BY <1>1, <2>1 DEF Becomes
<1>6. ASSUME StartRefresh PROVE Goal
  <2>1. Becomes("up", proc.copy, proc.cards, proc.of, proc.fresh \cup {rows})
    BY <1>6, ProcSteps
  <2> QED BY <1>1, <2>1 DEF Becomes
<1>7. ASSUME EndRefresh PROVE Goal
  <2>1. \E copy, cards, rest : Becomes("up", copy, cards, proc.of + 1, rest)
    BY <1>7, ProcSteps
  <2> QED BY <1>1, <2>1 DEF Becomes
<1>8. ASSUME NEW r \in Requests, Open(r) \/ Mark(r) \/ RecordByHand(r) PROVE Goal
  <2>1. \E cards : Becomes(proc.step, proc.copy, cards, proc.of, proc.fresh)
    BY <1>8, ProcSteps
  <2> QED BY <1>1, <2>1 DEF Becomes
<1> QED BY <1>2, <1>3, <1>4, <1>5, <1>6, <1>7, <1>8
        DEF Next, Request, Sender, Arrive, NotOpened, StartSender, Send, Save, EndSender,
            CrashSender, Unreported, NextDay

\* The directory changes as a whole, and nothing else then does but the file and the lock.
LEMMA ManifestSteps ==
  ASSUME Next
  PROVE  \/ UNCHANGED manifest
         \/ WriteMbox /\ manifest' = [of |-> proc.of, drafts |-> proc.cards]
                      /\ UNCHANGED <<sender, mails, cut, today>>
BY DEF Next, Request, Sender, StartBuild, EndBuild, WriteMbox, StartRefresh, EndRefresh, Stop,
       Arrive, Open, NotOpened, RecordByHand, Mark, NextDay, StartSender, Send, Save, EndSender,
       CrashSender, Unreported

LEMMA NextOrdered == TypeOK /\ Refreshing /\ Ordered /\ Next => Ordered'
<1> SUFFICES ASSUME TypeOK, Refreshing, Ordered, Next PROVE Ordered'
  OBVIOUS
<1>1. /\ sender.of <= manifest.of /\ manifest.of <= proc.of
      /\ proc.step \in {"building", "sync"} => manifest.of < proc.of
      /\ \A a \in Contacts : \A of \in (manifest.of + 1)..MaxBuilds : Count(a, "sender", of) = 0
  BY DEF Ordered
<1>2. sender.of \in Nat /\ manifest.of \in Nat /\ proc.of \in Nat /\ MaxBuilds \in Nat
  BY LocalAssumption DEF TypeOK
<1>3. /\ proc'.of >= proc.of /\ proc'.of \in Nat
      /\ proc'.step \in {"building", "sync"} =>
           proc'.of > proc.of \/ (proc'.of = proc.of /\ proc.step \in {"building", "sync"})
  <2>1. TypeOK'
    BY NextTypes
  <2>2. proc'.of \in 0..MaxBuilds
    BY <2>1 DEF TypeOK
  <2> QED BY <1>2, <2>2, ProcGoesOn
<1>4. CASE WriteMbox /\ manifest' = [of |-> proc.of, drafts |-> proc.cards]
                     /\ UNCHANGED <<sender, mails, cut, today>>
  <2>1. manifest'.of = proc.of /\ sender' = sender /\ mails' = mails
    BY <1>4
  <2>2. manifest.of < proc.of /\ proc'.step = "off" /\ proc'.of = proc.of
    BY <1>1, <1>4, ProcSteps DEF WriteMbox, Becomes
  <2>3. \A a \in Contacts : \A of : Count(a, "sender", of)' = Count(a, "sender", of)
    BY <2>1 DEF Count
  <2>4. \A of \in (manifest'.of + 1)..MaxBuilds : of \in (manifest.of + 1)..MaxBuilds
    BY <1>2, <2>1, <2>2
  <2>5. \A a \in Contacts : \A of \in (manifest'.of + 1)..MaxBuilds : Count(a, "sender", of)' = 0
    BY <1>1, <2>3, <2>4
  <2> QED BY <1>1, <1>2, <2>1, <2>2, <2>5 DEF Ordered
<1>5. CASE UNCHANGED manifest
  <2>1. \A a \in Contacts : \A of \in (manifest.of + 1)..MaxBuilds : Count(a, "sender", of)' = 0
    <3>1. CASE UNCHANGED mails
      BY <1>1, <3>1 DEF Count
    <3>2. CASE \E r \in Requests : Open(r)
      BY <1>1, <3>2, OpenMails
    <3>3. CASE \E a \in Contacts : Send(a)
      <4>1. PICK a \in Contacts : Send(a)
        BY <3>3
      <4>2. \A b \in Contacts : \A of :
              Count(b, "sender", of)' = Count(b, "sender", of)
                                          + (IF b = a /\ of = sender.of THEN 1 ELSE 0)
        BY <4>1, SendMails
      <4>3. \A of \in (manifest.of + 1)..MaxBuilds : of # sender.of
        BY <1>1, <1>2
      <4> QED BY <1>1, <4>2, <4>3
    <3> QED BY <3>1, <3>2, <3>3, MailSteps
  <2>2. sender'.of <= manifest.of
    <3>1. CASE UNCHANGED sender
      BY <1>1, <3>1
    <3>2. CASE StartSender
      BY <1>2, <3>2, SenderSteps DEF Turns
    <3>3. CASE Save \/ Unreported \/ \E a \in Contacts : Send(a)
      BY <1>1, <3>3, SenderSteps DEF Turns
    <3>4. CASE EndSender \/ CrashSender
      BY <1>2, <3>4, SenderSteps DEF Turns
    <3> QED BY <3>1, <3>2, <3>3, <3>4
            DEF Next, Request, Sender, StartBuild, EndBuild, WriteMbox, StartRefresh, EndRefresh,
                Stop, Arrive, Open, NotOpened, RecordByHand, Mark, NextDay
  <2> QED BY <1>1, <1>2, <1>3, <1>5, <2>1, <2>2 DEF Ordered
<1> QED BY <1>4, <1>5, ManifestSteps

LEMMA NextDated == TypeOK /\ Dated /\ Next => Dated'
<1> SUFFICES ASSUME TypeOK, Dated, Next PROVE Dated'
  OBVIOUS
<1>1. \A a \in Contacts : \A i \in DOMAIN mails[a] :
        mails[a][i].day <= today /\ mails[a][i].day \in Nat
  <2>1. mails \in Boxes
    BY DEF TypeOK, Boxes, Mail
  <2> QED BY <2>1, BoxFacts DEF Dated, Mail, Days
<1>2. today \in Nat
  BY DEF TypeOK, Days
<1>3. today' = today \/ today' = today + 1
  BY DEF Next, Request, Sender, StartBuild, EndBuild, WriteMbox, StartRefresh,
         EndRefresh, Stop, Arrive, Open, NotOpened, RecordByHand, Mark, NextDay, StartSender, Send,
         Save, EndSender, CrashSender, Unreported
<1>4. CASE UNCHANGED mails
  <2>1. \A a \in Contacts : \A i \in DOMAIN mails[a] : mails[a][i].day <= today'
    BY <1>1, <1>2, <1>3
  <2> QED BY <1>4, <2>1 DEF Dated
<1>5. ASSUME NEW a \in Contacts, NEW from \in {"page", "sender"}, NEW of \in 0..MaxBuilds,
             MailTo(a, from, of)
      PROVE  Dated'
  <2>1. \A b \in Contacts : \A i \in DOMAIN mails'[b] :
          \/ i \in DOMAIN mails[b] /\ mails'[b][i] = mails[b][i]
          \/ mails'[b][i].day = today
    BY <1>5, MailFacts
  <2> QED BY <1>1, <1>2, <1>3, <2>1 DEF Dated
<1>6. CASE \E r \in Requests : Open(r)
  BY <1>5, <1>6, OpenMails
<1>7. CASE \E a \in Contacts : Send(a)
  BY <1>5, <1>7, SendMails
<1> QED BY <1>4, <1>6, <1>7, MailSteps

\* The day a rolling day goes back to.
Yesterday(t) == IF t = 0 THEN 0 ELSE t - 1

\* The sender, or its day, moves by one of these.
LEMMA SenderMoves ==
  ASSUME Next
  PROVE  \/ UNCHANGED <<sender, today>>
         \/ StartSender \/ Save \/ EndSender \/ CrashSender \/ Unreported
         \/ \E a \in Contacts : Send(a)
         \/ NextDay
BY DEF Next, Request, Sender, StartBuild, EndBuild, WriteMbox, StartRefresh, EndRefresh, Stop,
       Arrive, Open, NotOpened, RecordByHand, Mark

LEMMA NextRoom == TypeOK /\ Room /\ Next => Room'
<1> SUFFICES ASSUME TypeOK, Room, Next PROVE Room'
  OBVIOUS
<1>1. /\ IsState(sender.copy, Days, By) /\ IsState(rows, Days, By) /\ Cap \in Nat
      /\ sender.left \in 0..Cap
  BY CapAssumption DEF TypeOK
<1>2. today \in Nat
  BY DEF TypeOK, Days
<1>3. /\ \A t \in Nat : Yesterday(t) \in Nat /\ Yesterday(t) <= t /\ Yesterday(t) <= Yesterday(t + 1)
      /\ \A copy, t : SentInLast24h(copy, t) = SentSince(copy, Yesterday(t))
  BY DEF Yesterday, SentInLast24h
<1>4. SentInLast24h(sender.copy, today) \in Nat /\ SentInLast24h(rows, today) \in Nat
  BY <1>1, <1>3, StampsFacts
<1>5. sender.left + Mailed > 0 => SentInLast24h(sender.copy, today) + sender.left + Mailed <= Cap
  BY DEF Room
<1>6. CASE UNCHANGED <<sender, today>>
  BY <1>5, <1>6 DEF Room, Mailed
<1>7. CASE StartSender
  <2>1. /\ sender'.step = "next" /\ sender'.copy = rows /\ sender'.left = Left /\ today' = today
    BY <1>7, SenderSteps DEF Turns, StartSender
  <2>2. Left > 0 => SentInLast24h(rows, today) + Left <= Cap
    BY <1>1, <1>4 DEF Left
  <2>3. Left \in Nat /\ Mailed' = 0
    BY <2>1, SenderSteps DEF Mailed
  <2> QED BY <1>4, <2>1, <2>2, <2>3 DEF Room
<1>8. CASE \E a \in Contacts : Send(a)
  <2>1. PICK a \in Contacts : Send(a)
    BY <1>8
  <2>2. /\ sender'.step = "mailed" /\ sender'.copy = sender.copy /\ sender'.left = sender.left - 1
        /\ today' = today /\ sender.step = "next" /\ sender.left > 0
    BY <2>1, SenderSteps DEF Turns, Send
  <2>3. Mailed = 0 /\ Mailed' = 1
    BY <2>2 DEF Mailed
  <2> QED BY <1>1, <1>4, <1>5, <2>2, <2>3 DEF Room
<1>9. CASE Save
  <2> DEFINE stamp == [day |-> today, by |-> "sender"]
             new == WithSend(sender.copy, sender.to, stamp, today)
  <2>1. /\ sender'.step = "next" /\ sender'.copy = new /\ sender'.left = sender.left
        /\ today' = today /\ sender.step = "mailed"
    BY <1>9, SenderSteps DEF Turns, Save
  <2>2. Mailed = 1 /\ Mailed' = 0
    BY <2>1 DEF Mailed
  <2>3. sender.to \in Contacts /\ stamp \in [day : Days, by : By] /\ stamp.day = today
    BY <2>1 DEF TypeOK, By
  <2> HIDE DEF stamp
  <2>4. SentSince(new, Yesterday(today)) = SentSince(sender.copy, Yesterday(today)) + 1
    <3>1. Yesterday(today) \in Nat /\ stamp.day >= Yesterday(today)
      BY <1>2, <1>3, <2>3
    <3>2. SentSince(new, Yesterday(today))
            = SentSince(sender.copy, Yesterday(today))
                + (IF stamp.day >= Yesterday(today) THEN 1 ELSE 0)
      BY <1>1, <1>2, <2>3, <3>1, SendCounts
    <3> QED BY <3>1, <3>2
  <2> HIDE DEF new
  <2>5. SentInLast24h(sender'.copy, today') = SentInLast24h(sender.copy, today) + 1
    BY <1>3, <2>1, <2>4
  <2> QED BY <1>1, <1>4, <1>5, <2>1, <2>2, <2>5 DEF Room
<1>10. CASE EndSender \/ CrashSender
  <2>1. sender'.step = "off" /\ sender'.left = 0
    BY <1>10, SenderSteps DEF Turns
  <2> QED BY <2>1 DEF Room, Mailed
<1>11. CASE NextDay
  <2>1. sender' = sender /\ today' = today + 1 /\ Mailed = 0 /\ Mailed' = 0
    BY <1>11 DEF NextDay, Mailed
  <2>2. SentSince(sender.copy, Yesterday(today + 1)) <= SentSince(sender.copy, Yesterday(today))
    BY <1>1, <1>2, <1>3, LaterCounts
  <2>3. SentInLast24h(sender'.copy, today') <= SentInLast24h(sender.copy, today)
    BY <1>3, <2>1, <2>2
  <2>4. SentInLast24h(sender'.copy, today') \in Nat
    BY <1>1, <1>3, <2>1, StampsFacts
  <2> QED BY <1>1, <1>4, <1>5, <2>1, <2>3, <2>4 DEF Room
<1>12. CASE Unreported
  <2>1. /\ sender'.step = "next" /\ sender'.copy = sender.copy /\ sender'.left = sender.left + 1
        /\ today' = today /\ sender.step = "mailed"
    BY <1>12, SenderSteps DEF Turns, Unreported
  <2>2. Mailed = 1 /\ Mailed' = 0
    BY <2>1 DEF Mailed
  <2> QED BY <1>1, <1>4, <1>5, <2>1, <2>2 DEF Room
<1> QED BY <1>6, <1>7, <1>8, <1>9, <1>10, <1>11, <1>12, SenderMoves

-----------------------------------------------------------------------------
(* What holds until copies race. *)

\* Who acts on a copy and races with nobody has the file.
LEMMA Current == \A copy : ActsOn(copy) /\ ~raced' => copy = rows
BY DEF ActsOn

\* Touches only grow, and only a mark touches the flags.
LEMMA RowsGrow ==
  ASSUME TypeOK, Next, ~raced'
  PROVE  /\ \A c : Touch(rows, c) \in Nat /\ Touch(rows', c) \in Nat /\ Touch(rows, c) <= Touch(rows', c)
         /\ \A c : (\A r \in Requests : Mark(r) => c # req[r].to) =>
              RowOf(rows', c).flags = RowOf(rows, c).flags
<1>1. IsState(rows, Days, By) /\ \A c : Touch(rows, c) \in Nat
  BY StateRows, RowFields DEF TypeOK, Touch
<1>2. today \in Nat /\ today \in Days /\ \A by \in By : [day |-> today, by |-> by] \in [day : Days, by : By]
  BY DEF TypeOK, Days
<1> DEFINE Same == \A c : RowOf(rows', c).flags = RowOf(rows, c).flags
           Grows == \A c : Touch(rows', c) \in Nat /\ Touch(rows, c) <= Touch(rows', c)
<1>3. CASE rows' = rows
  BY <1>1, <1>3
<1>4. ASSUME NEW a \in Contacts, NEW by \in By, NEW copy, ActsOn(copy),
             rows' = WithSend(copy, a, [day |-> today, by |-> by], today)
      PROVE  Same /\ Grows
  <2>1. rows' = WithSend(rows, a, [day |-> today, by |-> by], today)
    BY <1>4, Current
  <2>2. /\ \A c : c # a => RowOf(rows', c) = RowOf(rows, c)
        /\ Touch(rows', a) = Touch(rows, a) + 1 /\ RowOf(rows', a).flags = RowOf(rows, a).flags
    BY <1>1, <1>2, <2>1, WithSendFacts
  <2>3. \A c : c # a => Touch(rows', c) = Touch(rows, c)
    BY <2>2 DEF Touch
  <2>4. Grows
    BY <1>1, <2>2, <2>3
  <2> QED BY <2>2, <2>4
<1>5. ASSUME NEW r \in Requests, Open(r) \/ RecordByHand(r) PROVE Same /\ Grows
  <2>1. /\ rows' = WithSend(req[r].seen, req[r].to, [day |-> today, by |-> r], today)
        /\ ActsOn(req[r].seen) /\ r \in By /\ req[r].to \in Contacts
    BY <1>5 DEF Open, RecordByHand, Write, TypeOK, By
  <2> QED BY <1>4, <2>1
<1>6. ASSUME Save PROVE Same /\ Grows
  <2>1. /\ rows' = WithSend(sender.copy, sender.to, [day |-> today, by |-> "sender"], today)
        /\ ActsOn(sender.copy) /\ "sender" \in By /\ sender.to \in Contacts
    BY <1>6 DEF Save, Saved, TypeOK, By
  <2> QED BY <1>4, <2>1
<1>7. ASSUME WriteMbox PROVE Same /\ Grows
  <2>1. rows' = WithDrafts(proc.copy, DOMAIN proc.cards, today) /\ ActsOn(proc.copy)
        /\ DOMAIN proc.cards \in SUBSET Contacts
    BY <1>7 DEF WriteMbox, TypeOK, IsBatch
  <2>2. rows' = WithDrafts(rows, DOMAIN proc.cards, today)
    BY <2>1, Current
  <2>3. \A c : Touch(rows', c) = Touch(rows, c) /\ RowOf(rows', c).flags = RowOf(rows, c).flags
    BY <1>1, <1>2, <2>1, <2>2, WithDraftsFacts
  <2> QED BY <1>1, <2>3
<1>8. ASSUME NEW r \in Requests, Mark(r)
      PROVE  Grows /\ \A c : c # req[r].to => RowOf(rows', c).flags = RowOf(rows, c).flags
  <2>1. \/ rows' = WithFlag(req[r].seen, req[r].to, FlagOf(req[r].kind)) /\ ActsOn(req[r].seen)
        \/ rows' = rows
    BY <1>8 DEF Mark
  <2>2. FlagOf(req[r].kind) \in Flags
    BY DEF FlagOf, Flags
  <2>3. CASE rows' = WithFlag(req[r].seen, req[r].to, FlagOf(req[r].kind)) /\ ActsOn(req[r].seen)
    <3>1. rows' = WithFlag(rows, req[r].to, FlagOf(req[r].kind))
      BY <2>3, Current
    <3>2. \A c : /\ Touch(rows', c) = Touch(rows, c)
                 /\ (c # req[r].to => RowOf(rows', c) = RowOf(rows, c))
      BY <1>1, <2>2, <3>1, WithFlagFacts
    <3> QED BY <1>1, <3>2
  <2>4. CASE rows' = rows
    BY <1>1, <2>4
  <2> QED BY <2>1, <2>3, <2>4
<1> QED BY <1>1, <1>3, <1>5, <1>6, <1>7, <1>8
        DEF Next, Request, Sender, StartBuild, EndBuild, StartRefresh, EndRefresh, Stop, Arrive,
            NotOpened, StartSender, Send, EndSender, CrashSender, Unreported, NextDay

\* Cards leave the page, one of them with a mark, or are built from the file.
LEMMA CardsMove ==
  ASSUME TypeOK, Refreshing, Next, ~raced'
  PROVE  \/ \A a \in DOMAIN proc'.cards :
              /\ a \in DOMAIN proc.cards /\ proc'.cards[a] = proc.cards[a]
              /\ \A r \in Requests : Mark(r) => a # req[r].to
         \/ /\ rows' = rows
            /\ \E drafts \in SUBSET Offers(rows) : proc'.cards = Built(rows, drafts)
<1> DEFINE StillThere ==
             \A a \in DOMAIN proc'.cards : a \in DOMAIN proc.cards /\ proc'.cards[a] = proc.cards[a]
           JustBuilt ==
             /\ rows' = rows
             /\ \E drafts \in SUBSET Offers(rows) : proc'.cards = Built(rows, drafts)
<1>1. /\ DOMAIN <<>> = {}
      /\ \A to : \A a \in DOMAIN Less(proc.cards, to) :
           a \in DOMAIN proc.cards /\ Less(proc.cards, to)[a] = proc.cards[a] /\ a # to
  BY DEF Less
<1>2. ASSUME NEW r \in Requests, Mark(r)
      PROVE  \A a \in DOMAIN proc'.cards :
               a \in DOMAIN proc.cards /\ proc'.cards[a] = proc.cards[a] /\ a # req[r].to
  <2>1. proc'.cards = Less(proc.cards, req[r].to)
    BY <1>2, ProcSteps DEF Becomes
  <2> QED BY <1>1, <2>1
<1>3. ASSUME NEW r \in Requests, Open(r) \/ RecordByHand(r) PROVE StillThere
  <2>1. proc'.cards = Less(proc.cards, req[r].to) \/ proc'.cards = proc.cards
    BY <1>3, ProcSteps DEF Becomes
  <2> QED BY <1>1, <2>1
<1>4. CASE UNCHANGED proc \/ StartRefresh
  <2>1. proc'.cards = proc.cards
    BY <1>4, ProcSteps DEF Becomes
  <2> QED BY <1>2, <2>1
<1>5. ASSUME WriteMbox \/ Stop \/ \E goal \in {"serve", "mbox"} : StartBuild(goal) PROVE StillThere
  <2>1. proc'.cards = <<>>
    BY <1>5, ProcSteps DEF Becomes
  <2> QED BY <1>1, <2>1
<1>6. ASSUME EndBuild PROVE JustBuilt
  <2>1. rows' = rows /\ proc.copy = rows
    BY <1>6, Current DEF EndBuild
  <2>2. \E drafts \in SUBSET Offers(proc.copy) : proc'.cards = Built(proc.copy, drafts)
    BY <1>6, ProcSteps DEF Becomes
  <2> QED BY <2>1, <2>2
<1>7. ASSUME EndRefresh PROVE JustBuilt
  <2>1. rows' = rows
    BY <1>7 DEF EndRefresh
  <2>2. PICK copy \in proc.fresh : \E drafts \in SUBSET Offers(copy) :
          proc'.cards = Built(copy, drafts) /\ ActsOn(copy)
    BY <1>7, ProcSteps DEF Becomes
  <2>3. copy = rows
    BY <2>2, Current
  <2> QED BY <2>1, <2>2, <2>3
<1>8. ASSUME ~\E r \in Requests : Mark(r) PROVE StillThere \/ JustBuilt
  BY <1>3, <1>4, <1>5, <1>6, <1>7, <1>8
     DEF Next, Request, Sender, Arrive, NotOpened, StartSender, Send, Save, EndSender,
         CrashSender, Unreported, NextDay
<1>9. CASE \E r \in Requests : Mark(r)
  <2>1. PICK r \in Requests : Mark(r)
    BY <1>9
  <2>2. ASSUME NEW s \in Requests, Mark(s) PROVE \A a \in DOMAIN proc'.cards : a # req[s].to
    BY <1>2, <2>2
  <2> QED BY <1>2, <2>1, <2>2
<1> QED BY <1>8, <1>9

LEMMA NextOffered == TypeOK /\ Refreshing /\ Offered /\ Next /\ ~raced' => Offered'
<1> SUFFICES ASSUME TypeOK, Refreshing, Offered, Next, ~raced' PROVE Offered'
  OBVIOUS
<1>1. /\ \A a \in DOMAIN proc.cards : proc.cards[a] <= Touch(rows, a) /\ RowOf(rows, a).flags = {}
      /\ \A a \in DOMAIN manifest.drafts : manifest.drafts[a] <= Touch(rows, a)
  BY DEF Offered
<1>2. /\ \A a \in DOMAIN proc.cards : proc.cards[a] \in Nat
      /\ \A a \in DOMAIN manifest.drafts : manifest.drafts[a] \in Nat
  BY DEF TypeOK, IsBatch
<1>3. \A c : Touch(rows, c) \in Nat /\ Touch(rows', c) \in Nat /\ Touch(rows, c) <= Touch(rows', c)
  BY RowsGrow
<1>4. \A a \in DOMAIN proc'.cards : proc'.cards[a] <= Touch(rows', a) /\ RowOf(rows', a).flags = {}
  <2>1. CASE \A a \in DOMAIN proc'.cards :
               /\ a \in DOMAIN proc.cards /\ proc'.cards[a] = proc.cards[a]
               /\ \A r \in Requests : Mark(r) => a # req[r].to
    <3>1. ASSUME NEW a \in DOMAIN proc'.cards
          PROVE  proc'.cards[a] <= Touch(rows', a) /\ RowOf(rows', a).flags = {}
      <4>1. a \in DOMAIN proc.cards /\ proc'.cards[a] = proc.cards[a]
        BY <2>1
      <4>2. RowOf(rows', a).flags = RowOf(rows, a).flags
        BY <2>1, RowsGrow
      <4> QED BY <1>1, <1>2, <1>3, <4>1, <4>2
    <3> QED BY <3>1
  <2>2. CASE /\ rows' = rows
             /\ \E drafts \in SUBSET Offers(rows) : proc'.cards = Built(rows, drafts)
    <3>1. PICK drafts \in SUBSET Offers(rows) : proc'.cards = Built(rows, drafts)
      BY <2>2
    <3>2. IsState(rows, Days, By)
      BY DEF TypeOK
    <3>3. \A a \in DOMAIN proc'.cards : proc'.cards[a] = Touch(rows, a) /\ RowOf(rows, a).flags = {}
      BY <3>1, <3>2, BuiltFacts
    <3> QED BY <1>3, <2>2, <3>3
  <2> QED BY <2>1, <2>2, CardsMove
<1>5. \A a \in DOMAIN manifest'.drafts : manifest'.drafts[a] <= Touch(rows', a)
  <2>1. manifest'.drafts = manifest.drafts \/ manifest'.drafts = proc.cards
    BY ManifestSteps
  <2> QED BY <1>1, <1>2, <1>3, <2>1
<1> QED BY <1>4, <1>5 DEF Offered

\* What a step leaves of the sender's bookkeeping when it is not the sender's.
LEMMA SenderStays ==
  ASSUME Next
  PROVE  \/ UNCHANGED <<sender, cut>>
         \/ StartSender \/ Save \/ EndSender \/ CrashSender \/ Unreported
         \/ \E a \in Contacts : Send(a)
BY DEF Next, Request, Sender, StartBuild, EndBuild, WriteMbox, StartRefresh, EndRefresh, Stop,
       Arrive, Open, NotOpened, RecordByHand, Mark, NextDay

\* Only Send counts for the sender.
LEMMA SenderCounts ==
  ASSUME TypeOK, Next
  PROVE  \/ \E a \in Contacts : Send(a)
         \/ \A b \in Contacts : \A of : Count(b, "sender", of)' = Count(b, "sender", of)
<1>1. CASE UNCHANGED mails
  BY <1>1 DEF Count
<1>2. CASE \E r \in Requests : Open(r)
  BY <1>2, OpenMails
<1> QED BY <1>1, <1>2, MailSteps

\* Once, and the bound of reruns, in any state of the five variables.
Sum(box, a, of) == Cardinality(Alike(box, a, "sender", of))
SinceIn(state, a, t) == IF Touch(state, a) > t THEN 1 ELSE 0
To(s, a, of) == IF s.step = "mailed" /\ s.to = a /\ s.of = of THEN 1 ELSE 0

Reviewed(box, state, c, m, s) ==
  \A a \in DOMAIN m.drafts :
    Sum(box, a, m.of) <= c + SinceIn(state, a, m.drafts[a]) + To(s, a, m.of)
ToDo(box, state, c, s) ==
  \A a \in DOMAIN s.todo : Sum(box, a, s.of) <= c + SinceIn(state, a, s.todo[a])
OnItsWay(box, c, s) == s.step = "mailed" => Sum(box, s.to, s.of) <= c + 1
Again(box, c) == \A a \in Contacts : \A of \in 1..MaxBuilds : Sum(box, a, of) <= 1 + c

LEMMA OnceIs ==
  /\ Once <=> /\ Reviewed(mails, rows, cut, manifest, sender)
              /\ ToDo(mails, rows, cut, sender) /\ OnItsWay(mails, cut, sender)
  /\ ~raced => (RerunsSendOnce <=> Again(mails, cut))
<1>1. \A a, of : Count(a, "sender", of) = Sum(mails, a, of)
  BY DEF Count, Sum, Alike
<1>2. \A a, t : Since(a, t) = SinceIn(rows, a, t)
  BY DEF Since, SinceIn
<1>3. \A a, of : MailedTo(a, of) = To(sender, a, of)
  BY DEF MailedTo, To
<1> QED BY <1>1, <1>2, <1>3 DEF Once, Reviewed, ToDo, OnItsWay, RerunsSendOnce, Again

LEMMA NextOnce ==
  TypeOK /\ Refreshing /\ Ordered /\ Offered /\ Once /\ RerunsSendOnce /\ ~raced /\ Next /\ ~raced'
    => Once' /\ RerunsSendOnce'
<1> SUFFICES ASSUME TypeOK, Refreshing, Ordered, Offered, Once, RerunsSendOnce, ~raced, Next, ~raced'
             PROVE  Once' /\ RerunsSendOnce'
  OBVIOUS
<1> DEFINE Goal ==
      /\ Reviewed(mails', rows', cut', manifest', sender')
      /\ ToDo(mails', rows', cut', sender') /\ OnItsWay(mails', cut', sender')
      /\ Again(mails', cut')
<1> SUFFICES Goal
  <2>1. (Once <=> /\ Reviewed(mails, rows, cut, manifest, sender)
                  /\ ToDo(mails, rows, cut, sender) /\ OnItsWay(mails, cut, sender))'
        /\ (~raced => (RerunsSendOnce <=> Again(mails, cut)))'
    BY OnceIs, PTL
  <2> QED BY <2>1
<1>1. /\ Reviewed(mails, rows, cut, manifest, sender) /\ ToDo(mails, rows, cut, sender)
      /\ OnItsWay(mails, cut, sender) /\ Again(mails, cut)
  BY OnceIs
<1>2. /\ DOMAIN manifest.drafts \subseteq Contacts /\ DOMAIN sender.todo \subseteq Contacts
      /\ DOMAIN proc.cards \subseteq Contacts
      /\ cut \in Nat /\ (sender.step = "mailed" => sender.to \in Contacts)
      /\ IsBatch(sender.todo)
      /\ \A a \in DOMAIN manifest.drafts : manifest.drafts[a] \in Nat
      /\ \A a \in DOMAIN sender.todo : sender.todo[a] \in Nat
      /\ \A a \in DOMAIN proc.cards : proc.cards[a] \in Nat
  BY DEF TypeOK, IsBatch
<1>3. \A a \in Contacts : \A of : Sum(mails, a, of) \in Nat
  BY CountNat DEF Count, Sum, Alike
<1>4. \A a : Touch(rows, a) \in Nat /\ Touch(rows', a) \in Nat /\ Touch(rows, a) <= Touch(rows', a)
  BY RowsGrow
<1>5. \A a : \A t \in Nat : /\ SinceIn(rows, a, t) \in {0, 1} /\ SinceIn(rows', a, t) \in {0, 1}
                            /\ SinceIn(rows, a, t) <= SinceIn(rows', a, t)
  BY <1>4 DEF SinceIn
<1>6. \A s, a, of : To(s, a, of) \in {0, 1} /\ (s.step # "mailed" => To(s, a, of) = 0)
  BY DEF To
<1>7. CASE \E a \in Contacts : Send(a)
  <2>1. PICK a \in Contacts : Send(a)
    BY <1>7
  <2>2. /\ sender'.step = "mailed" /\ sender'.to = a /\ sender'.of = sender.of
        /\ sender'.todo = Less(sender.todo, a)
        /\ sender.step = "next" /\ a \in DOMAIN sender.todo
        /\ manifest' = manifest /\ cut' = cut /\ rows' = rows
    BY <2>1, SenderSteps DEF Send, Turns
  <2>3. SinceIn(rows, a, sender.todo[a]) = 0
    <3>1. sender.copy = rows /\ ~AlreadyRecorded(sender.copy, a, sender.todo[a])
      BY <2>1, Current DEF Send
    <3> QED BY <3>1 DEF AlreadyRecorded, SinceIn, Touch
  <2>4. Sum(mails, a, sender.of) <= cut
    BY <1>1, <1>2, <1>3, <2>2, <2>3 DEF ToDo
  <2>5. \A b \in Contacts : \A of :
          Sum(mails', b, of) = Sum(mails, b, of) + (IF b = a /\ of = sender.of THEN 1 ELSE 0)
    <3>1. \A b \in Contacts : \A of :
            Count(b, "sender", of)' = Count(b, "sender", of)
                                        + (IF b = a /\ of = sender.of THEN 1 ELSE 0)
      BY <2>1, SendMails
    <3>2. \A b, of : Count(b, "sender", of) = Sum(mails, b, of)
                     /\ Count(b, "sender", of)' = Sum(mails', b, of)
      BY DEF Count, Sum, Alike
    <3> QED BY <3>1, <3>2
  <2>6. /\ Sum(mails', a, sender.of) <= cut + 1
        /\ \A b \in Contacts : \A of : b # a \/ of # sender.of => Sum(mails', b, of) = Sum(mails, b, of)
    BY <1>2, <1>3, <2>4, <2>5
  <2>7. Reviewed(mails', rows', cut', manifest', sender')
    <3>1. ASSUME NEW b \in DOMAIN manifest.drafts
          PROVE  Sum(mails', b, manifest.of)
                   <= cut + SinceIn(rows, b, manifest.drafts[b]) + To(sender', b, manifest.of)
      <4>1. CASE b = a /\ manifest.of = sender.of
        <5>1. To(sender', b, manifest.of) = 1
          BY <2>2, <4>1 DEF To
        <5>2. Sum(mails', b, manifest.of) \in Nat
          BY <1>2, <1>3, <2>5
        <5>3. SinceIn(rows, b, manifest.drafts[b]) \in {0, 1}
          BY <1>2, <1>5
        <5> QED BY <1>2, <2>6, <4>1, <5>1, <5>2, <5>3
      <4>2. CASE ~(b = a /\ manifest.of = sender.of)
        <5>1. Sum(mails', b, manifest.of) = Sum(mails, b, manifest.of)
          BY <1>2, <2>6, <4>2
        <5>2. To(sender, b, manifest.of) = 0
          BY <1>6, <2>2
        <5>3. SinceIn(rows, b, manifest.drafts[b]) \in {0, 1} /\ To(sender', b, manifest.of) \in {0, 1}
          BY <1>2, <1>5, <1>6
        <5>4. Sum(mails, b, manifest.of)
                <= cut + SinceIn(rows, b, manifest.drafts[b]) + To(sender, b, manifest.of)
          BY <1>1 DEF Reviewed
        <5>5. Sum(mails, b, manifest.of) \in Nat
          BY <1>2, <1>3
        <5> QED BY <1>2, <5>1, <5>2, <5>3, <5>4, <5>5
      <4> QED BY <4>1, <4>2
    <3> QED BY <2>2, <3>1 DEF Reviewed
  <2>8. ToDo(mails', rows', cut', sender')
    <3>1. \A b \in DOMAIN sender'.todo :
            b \in DOMAIN sender.todo /\ b # a /\ sender'.todo[b] = sender.todo[b]
      BY <2>2 DEF Less
    <3>2. \A b \in DOMAIN sender'.todo : Sum(mails', b, sender.of) = Sum(mails, b, sender.of)
      BY <1>2, <2>6, <3>1
    <3> QED BY <1>1, <2>2, <3>1, <3>2 DEF ToDo
  <2>9. OnItsWay(mails', cut', sender')
    BY <2>2, <2>6 DEF OnItsWay
  <2>10. Again(mails', cut')
    <3>1. ASSUME NEW b \in Contacts, NEW of \in 1..MaxBuilds PROVE Sum(mails', b, of) <= 1 + cut
      <4>1. CASE b = a /\ of = sender.of
        BY <1>2, <2>6, <4>1
      <4>2. CASE ~(b = a /\ of = sender.of)
        BY <1>1, <2>6, <4>2 DEF Again
      <4> QED BY <4>1, <4>2
    <3> QED BY <2>2, <3>1 DEF Again
  <2> QED BY <2>7, <2>8, <2>9, <2>10
<1>8. ASSUME \A b \in Contacts : \A of : Sum(mails', b, of) = Sum(mails, b, of) PROVE Goal
  <2>1. CASE /\ WriteMbox /\ manifest' = [of |-> proc.of, drafts |-> proc.cards]
             /\ UNCHANGED <<sender, mails, cut, today>>
    <3>1. /\ manifest'.of = proc.of /\ manifest'.drafts = proc.cards
          /\ sender' = sender /\ mails' = mails /\ cut' = cut
      BY <2>1
    <3>2. proc.of \in (manifest.of + 1)..MaxBuilds
      <4>1. manifest.of < proc.of
        BY <2>1 DEF Ordered, WriteMbox
      <4>2. manifest.of \in Nat /\ proc.of \in 0..MaxBuilds /\ MaxBuilds \in Nat
        BY LocalAssumption DEF TypeOK
      <4> QED BY <4>1, <4>2
    <3>3. \A a \in Contacts : Sum(mails, a, proc.of) = 0
      BY <3>2 DEF Ordered, Count, Sum, Alike
    <3>4. Reviewed(mails', rows', cut', manifest', sender')
      BY <1>2, <1>5, <1>6, <3>1, <3>3 DEF Reviewed
    <3>5. ToDo(mails', rows', cut', sender')
      BY <1>1, <1>2, <1>3, <1>5, <3>1 DEF ToDo
    <3> QED BY <1>1, <3>1, <3>4, <3>5
  <2>2. ASSUME UNCHANGED manifest PROVE Goal
    <3>1. CASE UNCHANGED <<sender, cut>>
      <4>1. sender' = sender /\ cut' = cut /\ manifest' = manifest
        BY <2>2, <3>1
      <4>2. Reviewed(mails', rows', cut', manifest', sender')
        BY <1>1, <1>2, <1>3, <1>5, <1>6, <1>8, <4>1 DEF Reviewed
      <4>3. ToDo(mails', rows', cut', sender')
        BY <1>1, <1>2, <1>3, <1>5, <1>8, <4>1 DEF ToDo
      <4>4. OnItsWay(mails', cut', sender')
        BY <1>1, <1>2, <1>8, <4>1 DEF OnItsWay
      <4> QED BY <1>1, <1>8, <4>1, <4>2, <4>3, <4>4 DEF Again
    <3>2. CASE StartSender
      <4>1. /\ sender'.step = "next" /\ sender'.of = manifest.of /\ sender'.todo = manifest.drafts
            /\ sender.step = "off" /\ manifest' = manifest /\ cut' = cut
        BY <3>2, SenderSteps DEF StartSender, Turns
      <4>2. Reviewed(mails', rows', cut', manifest', sender')
        BY <1>1, <1>2, <1>3, <1>5, <1>6, <1>8, <4>1 DEF Reviewed
      <4>3. ToDo(mails', rows', cut', sender')
        BY <1>1, <1>2, <1>3, <1>5, <1>6, <1>8, <4>1 DEF ToDo, Reviewed
      <4> QED BY <1>1, <1>8, <4>1, <4>2, <4>3 DEF Again, OnItsWay
    <3>3. CASE EndSender
      <4>1. /\ sender'.step = "off" /\ sender'.todo = <<>> /\ sender.step = "next"
            /\ manifest' = manifest /\ cut' = cut
        BY <3>3, SenderSteps DEF EndSender, Turns
      <4>2. Reviewed(mails', rows', cut', manifest', sender')
        BY <1>1, <1>2, <1>3, <1>5, <1>6, <1>8, <4>1 DEF Reviewed
      <4> QED BY <1>1, <1>8, <4>1, <4>2 DEF Again, OnItsWay, ToDo
    <3>4. CASE CrashSender
      <4>1. /\ sender'.step = "off" /\ sender'.todo = <<>> /\ manifest' = manifest /\ cut' = cut + 1
        BY <3>4, SenderSteps DEF CrashSender, Turns
      <4>2. Reviewed(mails', rows', cut', manifest', sender')
        BY <1>1, <1>2, <1>3, <1>5, <1>6, <1>8, <4>1 DEF Reviewed
      <4>3. Again(mails', cut')
        BY <1>1, <1>2, <1>3, <1>8, <4>1 DEF Again
      <4> QED BY <4>1, <4>2, <4>3 DEF OnItsWay, ToDo
    <3>5. CASE Save
      <4> DEFINE b == sender.to
                 stamp == [day |-> today, by |-> "sender"]
      <4>1. /\ sender'.step = "next" /\ sender'.todo = sender.todo /\ sender'.of = sender.of
            /\ sender.step = "mailed" /\ manifest' = manifest /\ cut' = cut
            /\ rows' = WithSend(sender.copy, b, stamp, today) /\ sender.copy = rows
        BY <3>5, SenderSteps, Current DEF Save, Saved, Turns
      <4>2. b \in Contacts /\ stamp \in [day : Days, by : By] /\ today \in Nat
            /\ IsState(rows, Days, By)
        BY <4>1 DEF TypeOK, By, Days
      <4>3. rows' = WithSend(rows, b, stamp, today)
        BY <4>1
      <4> HIDE DEF stamp, b
      <4>4. Touch(rows', b) = Touch(rows, b) + 1
        BY <4>2, <4>3, WithSendFacts
      <4>5. \A a \in DOMAIN manifest.drafts : manifest.drafts[a] <= Touch(rows, a)
        BY DEF Offered
      <4>6. b \in DOMAIN manifest.drafts => SinceIn(rows', b, manifest.drafts[b]) = 1
        BY <1>2, <1>4, <4>4, <4>5 DEF SinceIn
      <4>7. Sum(mails, b, sender.of) <= cut + 1
        BY <1>1, <4>1 DEF OnItsWay, b
      <4>8. \A a : a # b \/ manifest.of # sender.of => To(sender, a, manifest.of) = 0
        BY DEF To, b
      <4>9. Reviewed(mails', rows', cut', manifest', sender')
        <5>1. ASSUME NEW a \in DOMAIN manifest.drafts
              PROVE  Sum(mails, a, manifest.of)
                       <= cut + SinceIn(rows', a, manifest.drafts[a]) + To(sender', a, manifest.of)
          <6>1. To(sender', a, manifest.of) = 0
            BY <1>6, <4>1
          <6>2. CASE a = b /\ manifest.of = sender.of
            BY <1>2, <1>3, <4>6, <4>7, <6>1, <6>2
          <6>3. CASE ~(a = b /\ manifest.of = sender.of)
            BY <1>1, <1>2, <1>3, <1>5, <4>8, <6>1, <6>3 DEF Reviewed
          <6> QED BY <6>2, <6>3
        <5> QED BY <1>2, <1>8, <4>1, <5>1 DEF Reviewed
      <4>10. ToDo(mails', rows', cut', sender')
        BY <1>1, <1>2, <1>3, <1>5, <1>8, <4>1 DEF ToDo
      <4> QED BY <1>1, <1>8, <4>1, <4>9, <4>10 DEF Again, OnItsWay
    <3>6. CASE \E a \in Contacts : Send(a)
      BY <1>7, <3>6
    <3>7. CASE Unreported
      <4>1. /\ sender'.step = "next" /\ sender'.todo = sender.todo /\ sender'.of = sender.of
            /\ manifest' = manifest /\ cut' = cut + 1
        BY <3>7, SenderSteps DEF Unreported, Turns
      <4>2. Reviewed(mails', rows', cut', manifest', sender')
        BY <1>1, <1>2, <1>3, <1>5, <1>6, <1>8, <4>1 DEF Reviewed
      <4>3. ToDo(mails', rows', cut', sender')
        BY <1>1, <1>2, <1>3, <1>5, <1>8, <4>1 DEF ToDo
      <4>4. Again(mails', cut')
        BY <1>1, <1>2, <1>3, <1>8, <4>1 DEF Again
      <4> QED BY <4>1, <4>2, <4>3, <4>4 DEF OnItsWay
    <3> QED BY <3>1, <3>2, <3>3, <3>4, <3>5, <3>6, <3>7, SenderStays
  <2> QED BY <2>1, <2>2, ManifestSteps
<1> QED
  <2>1. ASSUME \A b \in Contacts : \A of : Count(b, "sender", of)' = Count(b, "sender", of)
        PROVE  \A b \in Contacts : \A of : Sum(mails', b, of) = Sum(mails, b, of)
    <3>1. \A b, of : Count(b, "sender", of) = Sum(mails, b, of)
                     /\ Count(b, "sender", of)' = Sum(mails', b, of)
      BY DEF Count, Sum, Alike
    <3> QED BY <2>1, <3>1
  <2> QED BY <1>7, <1>8, <2>1, SenderCounts

\* What is on file and what was mailed, from a day on.
LEMMA NextOnFile ==
  TypeOK /\ Dated /\ OnFile /\ ~raced /\ Next /\ ~raced' => OnFile'
<1> SUFFICES ASSUME TypeOK, Dated, OnFile, ~raced, Next, ~raced' PROVE OnFile'
  OBVIOUS
<1> SUFFICES ASSUME NEW day \in Days
             PROVE  MailsSince(day)' <= SentSince(rows', day) + cut' + Mailed'
  BY DEF OnFile
<1>1. IsState(rows, Days, By) /\ day \in Nat /\ today \in Nat /\ today \in Days /\ cut \in Nat
  BY DEF TypeOK, Days
<1>2. \A by \in By : LET stamp == [day |-> today, by |-> by] IN
        stamp \in [day : Days, by : By] /\ stamp.day = today
  BY <1>1
<1>3. MailsSince(day) <= SentSince(rows, day) + cut + Mailed
  BY DEF OnFile
<1>4. MailsSince(day) \in Nat /\ SentSince(rows, day) \in Nat /\ Mailed \in {0, 1}
  BY <1>1, CountNat, StampsFacts DEF Mailed
<1>5. ASSUME NEW a \in Contacts, NEW by \in By, NEW copy, ActsOn(copy),
             rows' = WithSend(copy, a, [day |-> today, by |-> by], today)
      PROVE  SentSince(rows', day) = SentSince(rows, day) + (IF today >= day THEN 1 ELSE 0)
  <2> DEFINE stamp == [day |-> today, by |-> by]
  <2>1. rows' = WithSend(rows, a, stamp, today)
    BY <1>5, Current
  <2>2. stamp \in [day : Days, by : By] /\ stamp.day = today
    BY <1>2
  <2> HIDE DEF stamp
  <2> QED BY <1>1, <2>1, <2>2, SendCounts
<1>6. CASE \E r \in Requests : Open(r)
  <2>1. PICK r \in Requests : Open(r)
    BY <1>6
  <2>2. /\ rows' = WithSend(req[r].seen, req[r].to, [day |-> today, by |-> r], today)
        /\ ActsOn(req[r].seen) /\ r \in By /\ req[r].to \in Contacts
        /\ cut' = cut /\ sender' = sender
    BY <2>1 DEF Open, Write, TypeOK, By
  <2>3. SentSince(rows', day) = SentSince(rows, day) + (IF today >= day THEN 1 ELSE 0)
    BY <1>5, <2>2
  <2>4. MailsSince(day)' = MailsSince(day) + (IF today >= day THEN 1 ELSE 0)
    BY <2>1, OpenMails, MailFacts
  <2>5. Mailed' = Mailed
    BY <2>2 DEF Mailed
  <2> QED BY <1>1, <1>3, <1>4, <2>2, <2>3, <2>4, <2>5
<1>7. CASE \E a \in Contacts : Send(a)
  <2>1. PICK a \in Contacts : Send(a)
    BY <1>7
  <2>2. sender.step = "next" /\ sender'.step = "mailed" /\ rows' = rows /\ cut' = cut
    BY <2>1, SenderSteps DEF Send, Turns
  <2>3. MailsSince(day)' = MailsSince(day) + (IF today >= day THEN 1 ELSE 0)
    BY <2>1, SendMails, MailFacts
  <2>4. Mailed = 0 /\ Mailed' = 1
    BY <2>2 DEF Mailed
  <2> QED BY <1>1, <1>3, <1>4, <2>2, <2>3, <2>4
<1>8. ASSUME UNCHANGED mails PROVE MailsSince(day)' = MailsSince(day)
  BY <1>8 DEF MailsSince
<1>9. CASE \E r \in Requests : RecordByHand(r)
  <2>1. PICK r \in Requests : RecordByHand(r)
    BY <1>9
  <2>2. /\ rows' = WithSend(req[r].seen, req[r].to, [day |-> today, by |-> r], today)
        /\ ActsOn(req[r].seen) /\ r \in By /\ req[r].to \in Contacts
        /\ cut' = cut /\ sender' = sender /\ mails' = mails
    BY <2>1 DEF RecordByHand, Write, TypeOK, By
  <2>3. SentSince(rows', day) = SentSince(rows, day) + (IF today >= day THEN 1 ELSE 0)
    BY <1>5, <2>2
  <2>4. Mailed' = Mailed /\ MailsSince(day)' = MailsSince(day)
    BY <1>8, <2>2 DEF Mailed
  <2> QED BY <1>1, <1>3, <1>4, <2>2, <2>3, <2>4
<1>10. CASE Save
  <2>1. /\ rows' = WithSend(sender.copy, sender.to, [day |-> today, by |-> "sender"], today)
        /\ ActsOn(sender.copy) /\ "sender" \in By /\ sender.to \in Contacts
        /\ cut' = cut /\ mails' = mails /\ sender.step = "mailed" /\ sender'.step = "next"
    BY <1>10, SenderSteps DEF Save, Saved, TypeOK, By, Turns
  <2>2. SentSince(rows', day) = SentSince(rows, day) + (IF today >= day THEN 1 ELSE 0)
    BY <1>5, <2>1
  <2>3. Mailed = 1 /\ Mailed' = 0 /\ MailsSince(day)' = MailsSince(day)
    BY <1>8, <2>1 DEF Mailed
  <2>4. today < day => MailsSince(day) = 0
    <3>1. ASSUME today < day PROVE MailsSince(day) = 0
      <4>1. \A a \in Contacts : \A i \in DOMAIN mails[a] : ~(mails[a][i].day >= day)
        <5>1. \A a \in Contacts : \A i \in DOMAIN mails[a] :
                mails[a][i].day <= today /\ mails[a][i].day \in Nat
          <6>1. mails \in Boxes
            BY DEF TypeOK, Boxes, Mail
          <6> QED BY <6>1, BoxFacts DEF Dated, Mail, Days
        <5> QED BY <1>1, <3>1, <5>1
      <4>2. UNION {{<<a, i>> : i \in {k \in DOMAIN mails[a] : mails[a][k].day >= day}} :
                   a \in Contacts} = {}
        BY <4>1
      <4> QED BY <4>2, FS_EmptySet DEF MailsSince
    <3> QED BY <3>1
  <2> QED BY <1>1, <1>3, <1>4, <2>1, <2>2, <2>3, <2>4
<1>11. CASE CrashSender \/ Unreported
  <2>1. /\ rows' = rows /\ mails' = mails /\ cut' = cut + 1 /\ sender'.step # "mailed"
    BY <1>11, SenderSteps DEF CrashSender, Unreported, Turns
  <2>2. Mailed' = 0 /\ MailsSince(day)' = MailsSince(day)
    BY <1>8, <2>1 DEF Mailed
  <2> QED BY <1>1, <1>3, <1>4, <2>1, <2>2
<1>12. ASSUME mails' = mails, cut' = cut, Mailed' = Mailed, SentSince(rows', day) = SentSince(rows, day)
       PROVE  MailsSince(day)' <= SentSince(rows', day) + cut' + Mailed'
  BY <1>3, <1>8, <1>12
<1>13. CASE \E r \in Requests : Mark(r)
  <2>1. PICK r \in Requests : Mark(r)
    BY <1>13
  <2>2. /\ mails' = mails /\ cut' = cut /\ sender' = sender
        /\ \/ rows' = WithFlag(req[r].seen, req[r].to, FlagOf(req[r].kind)) /\ ActsOn(req[r].seen)
           \/ rows' = rows
    BY <2>1 DEF Mark
  <2>3. FlagOf(req[r].kind) \in Flags
    BY DEF FlagOf, Flags
  <2>4. SentSince(rows', day) = SentSince(rows, day)
    <3>1. CASE rows' = rows
      BY <3>1
    <3>2. CASE rows' = WithFlag(req[r].seen, req[r].to, FlagOf(req[r].kind)) /\ ActsOn(req[r].seen)
      <4>1. rows' = WithFlag(rows, req[r].to, FlagOf(req[r].kind))
        BY <3>2, Current
      <4>2. IsState(rows', Days, By) /\ \A c : RowOf(rows', c).sentAt = RowOf(rows, c).sentAt
        BY <1>1, <2>3, <4>1, WithFlagFacts
      <4> QED BY <1>1, <4>2, SameStamps
    <3> QED BY <2>2, <3>1, <3>2
  <2>5. Mailed' = Mailed
    BY <2>2 DEF Mailed
  <2> QED BY <1>12, <2>2, <2>4, <2>5
<1>14. CASE WriteMbox
  <2>1. /\ rows' = WithDrafts(proc.copy, DOMAIN proc.cards, today) /\ ActsOn(proc.copy)
        /\ DOMAIN proc.cards \in SUBSET Contacts
        /\ mails' = mails /\ cut' = cut /\ sender' = sender
    BY <1>14 DEF WriteMbox, TypeOK, IsBatch
  <2>2. rows' = WithDrafts(rows, DOMAIN proc.cards, today)
    BY <2>1, Current
  <2>3. IsState(rows', Days, By) /\ \A c : RowOf(rows', c).sentAt = RowOf(rows, c).sentAt
    BY <1>1, <2>1, <2>2, WithDraftsFacts
  <2>4. SentSince(rows', day) = SentSince(rows, day)
    BY <1>1, <2>3, SameStamps
  <2>5. Mailed' = Mailed
    BY <2>1 DEF Mailed
  <2> QED BY <1>12, <2>1, <2>4, <2>5
<1>15. CASE StartSender \/ EndSender
  <2>1. /\ rows' = rows /\ mails' = mails /\ cut' = cut
        /\ sender.step # "mailed" /\ sender'.step # "mailed"
    BY <1>15, SenderSteps DEF StartSender, EndSender, Turns
  <2>2. Mailed' = Mailed
    BY <2>1 DEF Mailed
  <2> QED BY <1>12, <2>1, <2>2
<1>16. CASE UNCHANGED <<rows, mails, cut, sender>>
  <2>1. Mailed' = Mailed
    BY <1>16 DEF Mailed
  <2> QED BY <1>12, <1>16, <2>1
<1> QED BY <1>6, <1>7, <1>9, <1>10, <1>11, <1>13, <1>14, <1>15, <1>16
        DEF Next, Request, Sender, StartBuild, EndBuild, StartRefresh, EndRefresh, Stop, Arrive,
            NotOpened, NextDay

\* The mails of a rolling day that is not over are on file since yesterday, or cut off,
\* or on their way.
RollingFiled ==
  \A day \in Days : today <= day =>
    Cardinality(Rolling(day)) <= SentInLast24h(rows, today) + cut + Mailed

LEMMA RollingOnFile == TypeOK /\ OnFile => RollingFiled
<1> SUFFICES ASSUME TypeOK, OnFile, NEW day \in Days, today <= day
             PROVE  Cardinality(Rolling(day)) <= SentInLast24h(rows, today) + cut + Mailed
  BY DEF RollingFiled
<1>1. mails \in Boxes
  BY DEF TypeOK, Boxes, Mail
<1>2. today \in Nat /\ day \in Nat /\ Yesterday(today) \in Days
  <2>1. today \in 0..MaxDay /\ MaxDay \in Nat
    BY LocalAssumption DEF TypeOK, Days
  <2> QED BY <2>1 DEF Days, Yesterday
<1>3. Cardinality(Recent(mails, day)) <= Cardinality(MailsFrom(mails, Yesterday(today)))
  BY <1>1, <1>2, RecentMails DEF Yesterday
<1>4. /\ Rolling(day) = Recent(mails, day)
      /\ MailsSince(Yesterday(today)) = Cardinality(MailsFrom(mails, Yesterday(today)))
  BY DEF Rolling, Recent, MailsSince, MailsFrom
<1>5. MailsSince(Yesterday(today)) <= SentSince(rows, Yesterday(today)) + cut + Mailed
  BY <1>2 DEF OnFile
<1>6. SentInLast24h(rows, today) = SentSince(rows, Yesterday(today))
  BY DEF SentInLast24h, Yesterday
<1>7. SentSince(rows, Yesterday(today)) \in Nat /\ cut \in Nat /\ Mailed \in Nat
  BY StampsFacts DEF TypeOK, Mailed
<1>8. MailsSince(Yesterday(today)) \in Nat /\ Cardinality(Rolling(day)) \in Nat
  BY CountNat
<1> QED BY <1>3, <1>4, <1>5, <1>6, <1>7, <1>8

LEMMA NextRolled ==
  TypeOK /\ TypeOK' /\ OnFile /\ OnFile' /\ Room /\ Rolled /\ ~raced /\ Next /\ ~raced' => Rolled'
<1> SUFFICES ASSUME TypeOK, TypeOK', OnFile, OnFile', Room, Rolled, ~raced, Next, ~raced'
             PROVE  Rolled'
  OBVIOUS
<1> SUFFICES ASSUME NEW day \in Days
             PROVE  Cardinality(Rolling(day)') <= Cap + cut' + (IF day < today' THEN 0 ELSE Mailed')
  BY DEF Rolled
<1>1. /\ IsState(rows, Days, By) /\ IsState(sender.copy, Days, By) /\ day \in Nat /\ today \in Nat
      /\ today \in Days /\ cut \in Nat /\ Cap \in Nat /\ sender.left \in Nat
  BY CapAssumption DEF TypeOK, Days
<1>2. Cardinality(Rolling(day)) <= Cap + cut + (IF day < today THEN 0 ELSE Mailed)
  BY DEF Rolled
<1>3. /\ Cardinality(Rolling(day)) \in Nat
      /\ SentInLast24h(rows, today) \in Nat /\ SentInLast24h(sender.copy, today) \in Nat
      /\ Mailed \in {0, 1}
  BY <1>1, CountNat, StampsFacts DEF SentInLast24h, Mailed
<1>4. Cardinality(Rolling(day)') \in Nat
  <2>1. mails' \in Boxes /\ Rolling(day)' = Recent(mails', day)
    BY DEF TypeOK, Boxes, Mail, Rolling, Recent
  <2> QED BY <2>1, BoxFacts
<1>5. today' <= day => Cardinality(Rolling(day)') <= SentInLast24h(rows', today') + cut' + Mailed'
  <2>1. RollingFiled'
    BY RollingOnFile, PTL
  <2> QED BY <2>1 DEF RollingFiled
<1>6. ASSUME NEW a \in Contacts, NEW from \in {"page", "sender"}, NEW of \in 0..MaxBuilds,
             MailTo(a, from, of), day < today
      PROVE  Rolling(day)' = Rolling(day)
  BY <1>1, <1>6, MailFacts
<1>7. ASSUME NEW a \in Contacts, NEW by \in By, NEW copy, ActsOn(copy),
             rows' = WithSend(copy, a, [day |-> today, by |-> by], today)
      PROVE  SentInLast24h(rows', today) = SentInLast24h(rows, today) + 1
  <2> DEFINE stamp == [day |-> today, by |-> by]
  <2>1. rows' = WithSend(rows, a, stamp, today)
    BY <1>7, Current
  <2>2. stamp \in [day : Days, by : By] /\ stamp.day = today
    BY <1>1
  <2>3. Yesterday(today) \in Nat /\ today >= Yesterday(today)
    BY <1>1 DEF Yesterday
  <2> HIDE DEF stamp
  <2>4. SentSince(rows', Yesterday(today))
          = SentSince(rows, Yesterday(today)) + (IF stamp.day >= Yesterday(today) THEN 1 ELSE 0)
    BY <1>1, <2>1, <2>2, <2>3, SendCounts
  <2>5. SentSince(rows', Yesterday(today)) = SentSince(rows, Yesterday(today)) + 1
    BY <2>2, <2>3, <2>4
  <2> QED BY <2>5 DEF SentInLast24h, Yesterday
<1>8. CASE \E r \in Requests : Open(r)
  <2>1. PICK r \in Requests : Open(r)
    BY <1>8
  <2>2. /\ rows' = WithSend(req[r].seen, req[r].to, [day |-> today, by |-> r], today)
        /\ ActsOn(req[r].seen) /\ r \in By /\ req[r].to \in Contacts
        /\ cut' = cut /\ sender' = sender /\ today' = today
        /\ SentInLast24h(req[r].seen, today) < Cap
    BY <2>1 DEF Open, Write, TypeOK, By
  <2>3. SentInLast24h(rows, today) < Cap
    BY <2>2, Current
  <2>4. SentInLast24h(rows', today) = SentInLast24h(rows, today) + 1
    BY <1>7, <2>2
  <2>5. Mailed' = Mailed
    BY <2>2 DEF Mailed
  <2>6. CASE day < today
    <3>1. Rolling(day)' = Rolling(day)
      BY <1>6, <2>1, <2>6, OpenMails
    <3> QED BY <1>2, <2>2, <2>6, <3>1
  <2>7. CASE ~(day < today)
    BY <1>1, <1>3, <1>4, <1>5, <2>2, <2>3, <2>4, <2>5, <2>7
  <2> QED BY <2>6, <2>7
<1>9. CASE \E a \in Contacts : Send(a)
  <2>1. PICK a \in Contacts : Send(a)
    BY <1>9
  <2>2. /\ sender.step = "next" /\ sender'.step = "mailed" /\ rows' = rows /\ cut' = cut
        /\ today' = today /\ sender.left > 0 /\ sender.copy = rows
    BY <2>1, SenderSteps, Current DEF Send, Turns
  <2>3. Mailed = 0 /\ Mailed' = 1
    BY <2>2 DEF Mailed
  <2>4. SentInLast24h(rows, today) + sender.left + Mailed <= Cap
    BY <1>1, <2>2, <2>3 DEF Room
  <2>5. CASE day < today
    <3>1. Rolling(day)' = Rolling(day)
      BY <1>6, <2>1, <2>5, SendMails
    <3> QED BY <1>2, <2>2, <2>5, <3>1
  <2>6. CASE ~(day < today)
    BY <1>1, <1>3, <1>4, <1>5, <2>2, <2>3, <2>4, <2>6
  <2> QED BY <2>5, <2>6
<1>10. ASSUME UNCHANGED mails PROVE Rolling(day)' = Rolling(day)
  BY <1>10 DEF Rolling
<1>11. CASE Save
  <2>1. /\ rows' = WithSend(sender.copy, sender.to, [day |-> today, by |-> "sender"], today)
        /\ ActsOn(sender.copy) /\ "sender" \in By /\ sender.to \in Contacts
        /\ cut' = cut /\ mails' = mails /\ sender.step = "mailed" /\ sender'.step = "next"
        /\ today' = today /\ sender.copy = rows
    BY <1>11, SenderSteps, Current DEF Save, Saved, TypeOK, By, Turns
  <2>2. SentInLast24h(rows', today) = SentInLast24h(rows, today) + 1
    BY <1>7, <2>1
  <2>3. Mailed = 1 /\ Mailed' = 0
    BY <2>1 DEF Mailed
  <2>4. SentInLast24h(rows, today) + sender.left + Mailed <= Cap
    BY <1>1, <2>1, <2>3 DEF Room
  <2>5. CASE day < today
    BY <1>2, <1>10, <2>1, <2>5
  <2>6. CASE ~(day < today)
    BY <1>1, <1>3, <1>4, <1>5, <2>1, <2>2, <2>3, <2>4, <2>6
  <2> QED BY <2>5, <2>6
<1>12. CASE CrashSender \/ Unreported
  <2>1. /\ mails' = mails /\ cut' = cut + 1 /\ today' = today /\ sender'.step # "mailed"
    BY <1>12, SenderSteps DEF CrashSender, Unreported, Turns
  <2>2. Mailed' = 0
    BY <2>1 DEF Mailed
  <2> QED BY <1>1, <1>2, <1>3, <1>10, <2>1, <2>2
<1>13. CASE StartSender \/ EndSender \/ NextDay
  <2>1. /\ mails' = mails /\ cut' = cut /\ (today' = today \/ today' = today + 1)
        /\ sender.step # "mailed" /\ sender'.step # "mailed"
    BY <1>13, SenderSteps DEF StartSender, EndSender, NextDay, Turns
  <2>2. Mailed = 0 /\ Mailed' = 0
    BY <2>1 DEF Mailed
  <2> QED BY <1>1, <1>2, <1>10, <2>1, <2>2
<1>14. CASE UNCHANGED <<mails, cut, sender, today>>
  <2>1. Mailed' = Mailed
    BY <1>14 DEF Mailed
  <2> QED BY <1>2, <1>10, <1>14, <2>1
<1> QED BY <1>8, <1>9, <1>11, <1>12, <1>13, <1>14
        DEF Next, Request, Sender, StartBuild, EndBuild, WriteMbox, StartRefresh, EndRefresh, Stop,
            Arrive, NotOpened, RecordByHand, Mark

LEMMA NextAnswered ==
  TypeOK /\ Offered /\ AnsweredNotMailed /\ ~raced /\ Next /\ ~raced' => AnsweredNotMailed'
<1> SUFFICES ASSUME TypeOK, Offered, AnsweredNotMailed, ~raced, Next, ~raced'
             PROVE  AnsweredNotMailed'
  OBVIOUS
<1>1. \A a \in Contacts : \A i \in DOMAIN mails[a] : ~mails[a][i].flagged
  BY DEF AnsweredNotMailed
<1>2. ASSUME NEW a \in Contacts, NEW from \in {"page", "sender"}, NEW of \in 0..MaxBuilds,
             MailTo(a, from, of), RowOf(rows, a).flags = {}
      PROVE  AnsweredNotMailed'
  <2>1. \A b \in Contacts : \A i \in DOMAIN mails'[b] :
          \/ i \in DOMAIN mails[b] /\ mails'[b][i] = mails[b][i]
          \/ mails'[b][i].flagged = (RowOf(rows, a).flags # {})
    BY <1>2, MailFacts
  <2>2. \A b \in Contacts : \A i \in DOMAIN mails'[b] : ~mails'[b][i].flagged
    BY <1>1, <1>2, <2>1
  <2> QED BY <2>2 DEF AnsweredNotMailed
<1>3. CASE UNCHANGED mails
  BY <1>1, <1>3 DEF AnsweredNotMailed
<1>4. CASE \E r \in Requests : Open(r)
  <2>1. PICK r \in Requests : Open(r)
    BY <1>4
  <2>2. RowOf(rows, req[r].to).flags = {}
    BY <2>1, OpenMails DEF Offered
  <2> QED BY <1>2, <2>1, <2>2, OpenMails
<1>5. CASE \E a \in Contacts : Send(a)
  <2>1. PICK a \in Contacts : Send(a)
    BY <1>5
  <2>2. RowOf(rows, a).flags = {}
    BY <2>1, Current DEF Send, Answered
  <2> QED BY <1>2, <2>1, <2>2, SendMails
<1> QED BY <1>3, <1>4, <1>5, MailSteps

-----------------------------------------------------------------------------
(* The invariant, and what it shows. *)

LEMMA InitInv == Init => IInv
<1> SUFFICES ASSUME Init PROVE IInv
  OBVIOUS
<1>1. IsState(<<>>, Days, By) /\ IsBatch(<<>>) /\ DOMAIN <<>> = {}
  BY NoRows DEF IsBatch
<1>2. MaxBuilds \in Nat /\ MaxRuns \in Nat /\ MaxDay \in Nat /\ Cap \in Nat
  BY LocalAssumption, CapAssumption
<1>3. /\ rows = <<>> /\ proc = Down(0) /\ req = [r \in Requests |-> Fresh] /\ sender = Idle
      /\ manifest = [of |-> 0, drafts |-> <<>>] /\ mails = [a \in Contacts |-> <<>>]
      /\ runs = 0 /\ today = 0 /\ cut = 0 /\ raced = FALSE
  BY DEF Init
<1>4. /\ Process(proc) /\ proc.step = "off" /\ proc.copy = <<>> /\ proc.cards = <<>>
      /\ proc.of = 0 /\ proc.fresh = {}
  BY <1>2, <1>3 DEF Down, Process
<1>5. \A r \in Requests : Asking(req[r])
  <2>1. /\ Fresh \in [step : {"new"}, kind : {"open"}, to : {Fresh.to}, seen : {<<>>}]
        /\ Fresh.seen = <<>> /\ Fresh.step = "new"
    BY DEF Fresh
  <2> HIDE DEF Fresh
  <2>2. Asking(Fresh)
    BY <1>1, <2>1 DEF Asking, Kinds
  <2> QED BY <1>3, <2>2
<1>6. /\ Sending(sender) /\ sender.step = "off" /\ sender.of = 0 /\ sender.todo = <<>>
      /\ sender.copy = <<>> /\ sender.left = 0
  <2>1. /\ Idle \in [step : {"off"}, of : {0}, todo : {<<>>}, copy : {<<>>}, left : {0}, to : {Idle.to}]
        /\ Idle.step = "off" /\ Idle.of = 0 /\ Idle.todo = <<>> /\ Idle.copy = <<>> /\ Idle.left = 0
    BY DEF Idle
  <2>2. 0 \in 0..MaxBuilds /\ 0 \in 0..Cap
    BY <1>2
  <2> HIDE DEF Idle
  <2>3. Sending(Idle)
    BY <2>1, <2>2 DEF Sending
  <2> QED BY <1>3, <2>1, <2>3
<1>7. mails \in Boxes /\ \A a \in Contacts : DOMAIN mails[a] = {}
  <2>1. <<>> \in Seq(Mail) /\ DOMAIN <<>> = {}
    OBVIOUS
  <2> QED BY <1>3, <2>1 DEF Boxes
<1>8. manifest \in [of : 0..MaxBuilds, drafts : {manifest.drafts}] /\ manifest.of = 0
      /\ manifest.drafts = <<>>
  BY <1>2, <1>3
<1>9. TypeOK
  <2>1. 0 \in 0..MaxRuns /\ 0 \in Days /\ 0 \in Nat
    BY <1>2 DEF Days
  <2>2. DOMAIN req = Requests /\ rows = <<>> /\ runs = 0 /\ today = 0 /\ cut = 0 /\ raced = FALSE
    BY <1>3
  <2>3. mails \in [Contacts -> Seq([from : {"page", "sender"}, of : 0..MaxBuilds, day : Days,
                                    flagged : BOOLEAN])]
    BY <1>7 DEF Boxes, Mail
  <2> QED BY <1>1, <1>4, <1>5, <1>6, <1>8, <2>1, <2>2, <2>3 DEF TypeOK, Process, Asking, Sending
<1>10. \A a \in Contacts : \A from, of : Count(a, from, of) = 0
  <2>1. ASSUME NEW a \in Contacts, NEW from, NEW of PROVE Count(a, from, of) = 0
    <3>1. {i \in DOMAIN mails[a] : mails[a][i].from = from /\ mails[a][i].of = of} = {}
      BY <1>7
    <3> QED BY <3>1, FS_EmptySet DEF Count
  <2> QED BY <2>1
<1>11. Refreshing /\ Paged /\ Ordered /\ Dated
  BY <1>1, <1>2, <1>4, <1>6, <1>7, <1>8, <1>10 DEF Refreshing, Paged, CardMailsOnce, Ordered, Dated
<1>12. Mailed = 0
  BY <1>6 DEF Mailed
<1>13. Room
  BY <1>6, <1>12 DEF Room
<1>14. Offered /\ Once
  BY <1>1, <1>4, <1>6, <1>8 DEF Offered, Once
<1>15. \A day : MailsSince(day) = 0 /\ Cardinality(Rolling(day)) = 0
  <2>1. ASSUME NEW day PROVE MailsSince(day) = 0 /\ Cardinality(Rolling(day)) = 0
    <3>1. UNION {{<<a, i>> : i \in {k \in DOMAIN mails[a] : mails[a][k].day >= day}} :
                 a \in Contacts} = {}
      BY <1>7
    <3>2. Rolling(day) = {}
      BY <1>7 DEF Rolling
    <3> QED BY <3>1, <3>2, FS_EmptySet DEF MailsSince
  <2> QED BY <2>1
<1>16. OnFile
  <2>1. \A day : SentSince(rows, day) \in Nat
    BY <1>1, <1>3, StampsFacts
  <2>2. cut = 0
    BY <1>3
  <2> QED BY <1>12, <1>15, <2>1, <2>2 DEF OnFile
<1>17. Rolled
  BY <1>2, <1>3, <1>12, <1>15 DEF Rolled
<1>18. RerunsSendOnce /\ AnsweredNotMailed
  BY <1>3, <1>7, <1>10 DEF RerunsSendOnce, AnsweredNotMailed
<1> QED BY <1>9, <1>11, <1>13, <1>14, <1>16, <1>17, <1>18 DEF IInv, Kept

LEMMA NextInv == IInv /\ [Next]_vars => IInv'
<1> SUFFICES ASSUME IInv, [Next]_vars PROVE IInv'
  OBVIOUS
<1>1. TypeOK /\ Refreshing /\ Paged /\ Ordered /\ Dated /\ Room
  BY DEF IInv
<1>2. CASE UNCHANGED vars
  <2>1. TypeOK'
    BY <1>1, <1>2 DEF vars, TypeOK
  <2>2. Refreshing' /\ Dated' /\ Room'
    BY <1>1, <1>2 DEF vars, Refreshing, Dated, Room, Mailed
  <2>3. Paged' /\ Ordered'
    <3>1. proc' = proc /\ manifest' = manifest /\ sender' = sender /\ mails' = mails
      BY <1>2 DEF vars
    <3>2. CardMailsOnce'
      BY <1>1, <3>1 DEF Paged, CardMailsOnce, Count
    <3>3. \A a \in Contacts : \A of : /\ Count(a, "page", of)' = Count(a, "page", of)
                                      /\ Count(a, "sender", of)' = Count(a, "sender", of)
      BY <3>1 DEF Count
    <3>4. \A a \in Contacts : Count(a, "page", proc.of)' = Count(a, "page", proc.of)
      BY <3>1 DEF Count
    <3>5. DOMAIN proc.cards \subseteq Contacts
      BY <1>1 DEF TypeOK, IsBatch
    <3>6. Paged'
      BY <1>1, <3>1, <3>2, <3>3, <3>4, <3>5 DEF Paged
    <3>7. Ordered'
      BY <1>1, <3>1, <3>3 DEF Ordered
    <3> QED BY <3>6, <3>7
  <2>4. ~raced' => Kept'
    BY <1>2 DEF IInv, vars, Kept, Offered, Once, OnFile, Rolled, RerunsSendOnce, AnsweredNotMailed,
                Count, Since, MailedTo, Mailed, MailsSince, Rolling
  <2> QED BY <2>1, <2>2, <2>3, <2>4 DEF IInv
<1>3. CASE Next
  <2>1. TypeOK' /\ Refreshing'
    BY <1>1, <1>3, NextTypes
  <2>2. Paged' /\ Ordered' /\ Dated' /\ Room'
    BY <1>1, <1>3, NextPaged, NextOrdered, NextDated, NextRoom
  <2>3. ASSUME ~raced' PROVE Kept'
    <3>1. ~raced
      BY <1>1, <1>3, <2>3, RowsMove
    <3>2. Offered /\ Once /\ OnFile /\ Rolled /\ RerunsSendOnce /\ AnsweredNotMailed
      BY <3>1 DEF IInv, Kept
    <3>3. Offered' /\ Once' /\ RerunsSendOnce' /\ OnFile' /\ AnsweredNotMailed'
      BY <1>1, <1>3, <2>3, <3>1, <3>2, NextOffered, NextOnce, NextOnFile, NextAnswered
    <3>4. Rolled'
      BY <1>1, <1>3, <2>1, <2>3, <3>1, <3>2, <3>3, NextRolled
    <3> QED BY <3>3, <3>4 DEF Kept
  <2> QED BY <2>1, <2>2, <2>3 DEF IInv
<1> QED BY <1>2, <1>3

\* The conjunction above holds in every reachable state.
THEOREM Invariance == Spec => []IInv
BY InitInv, NextInv, PTL DEF Spec

\* The variables stay within their types.
THEOREM TypeCorrect == Spec => []TypeOK
<1>1. IInv => TypeOK
  BY DEF IInv
<1> QED BY Invariance, <1>1, PTL DEF Spec

\* take() removes a card before anything is awaited, so a card leads to one mail whatever
\* copies of the file race.
THEOREM CardsMailOnce == Spec => []CardMailsOnce
<1>1. IInv => CardMailsOnce
  BY DEF IInv, Paged
<1> QED BY Invariance, <1>1, PTL DEF Spec

\* A directory sent again repeats a mail only for a record that a crash cut off: the copy
\* a run has read knows of every other one by its touch.
THEOREM RerunsRefused == Spec => []RerunsSendOnce
<1>1. IInv => RerunsSendOnce
  BY DEF IInv, Kept, RerunsSendOnce
<1> QED BY Invariance, <1>1, PTL DEF Spec

\* Page and sender together keep the cap of a rolling day: what a run may still send was
\* measured on the file that the page records in.
THEOREM CapKept == Spec => []CapShared
<1>1. IInv => CapShared
  <2> SUFFICES ASSUME IInv, ~raced, sender.step # "mailed", NEW day \in Days
               PROVE  Cardinality(Rolling(day)) <= Cap + cut
    BY DEF CapShared
  <2>1. Cardinality(Rolling(day)) <= Cap + cut + (IF day < today THEN 0 ELSE Mailed)
    BY DEF IInv, Kept, Rolled
  <2>2. Mailed = 0 /\ Cap \in Nat /\ cut \in Nat
    BY CapAssumption DEF IInv, TypeOK, Mailed
  <2> QED BY <2>1, <2>2
<1> QED BY Invariance, <1>1, PTL DEF Spec

\* Nobody whose reply, bounce or skip is on file is mailed: cards are dropped when one is
\* recorded, and the sender asks the file.
THEOREM AnsweredLeftAlone == Spec => []AnsweredNotMailed
<1>1. IInv => AnsweredNotMailed
  BY DEF IInv, Kept, AnsweredNotMailed
<1> QED BY Invariance, <1>1, PTL DEF Spec

=============================================================================
