---------------------------- MODULE OutreachRows ----------------------------
(***************************************************************************)
(* contacted.json, the memory of the cold mail (src/outreach.ts,            *)
(* src/publish-outreach.ts): one row per contact with the mails sent, the    *)
(* touch they make, the day the next one falls due and the flags that end   *)
(* the exchange; and what the hosted API, the local server and the batch    *)
(* builder compute from it.                                                 *)
(*                                                                          *)
(* A state is a function over the contacts that have a row.  A time stamp   *)
(* is a day and the request that took it: two requests never share one.     *)
(* Names, drafts, verdicts and the LinkedIn bookkeeping are left out.       *)
(***************************************************************************)
EXTENDS Naturals, FiniteSets, Sequences, SequencesExt

CONSTANTS
  Contacts,  \* addresses
  Gaps,      \* TOUCH_GAPS: days until the next mail, after the first, second, ...
  Cap        \* SEND_CAP: mails in 24 hours

ASSUME ContactsAssumption == IsFiniteSet(Contacts)
ASSUME GapsAssumption ==
  /\ Gaps \in Seq(Nat \ {0}) /\ Gaps # <<>>
  /\ \A i, j \in DOMAIN Gaps : i <= j => Gaps[i] <= Gaps[j]
ASSUME CapAssumption == Cap \in Nat

Flags == {"replied", "skipped", "bounced"}

\* The rows, and a state, whose stamps are of Days and By.
RowsOf(Days, By) == [touch : Nat, sentAt : Seq([day : Days, by : By]), due : Nat,
                     flags : SUBSET Flags]
IsState(state, Days, By) == \E D \in SUBSET Contacts : state \in [D -> RowsOf(Days, By)]

\* A contact without a row counts as one never mailed.
Blank == [touch |-> 0, sentAt |-> <<>>, due |-> 0, flags |-> {}]
RowOf(state, a) == IF a \in DOMAIN state THEN state[a] ELSE Blank

\* touchGap(), gapAfter(): by the touch just sent; the last gap serves later ones.
GapFor(touch) ==
  IF touch = 0 THEN 0 ELSE Gaps[IF touch < Len(Gaps) THEN touch ELSE Len(Gaps)]

\* Mutant of GapAfter: the slot before (the error its comment remembers).
GapAfterEarly(touch) == GapFor(touch - 1)

GapAfter(touch) == GapFor(touch)

\* One more send on file.
WithSend(state, a, stamp, today) ==
  LET prev == RowOf(state, a) IN
  [c \in DOMAIN state \cup {a} |->
     IF c # a THEN state[c]
     ELSE [touch  |-> prev.touch + 1,
           sentAt |-> Append(prev.sentAt, stamp),
           due    |-> today + GapAfter(prev.touch + 1),
           flags  |-> prev.flags]]

\* A flag on a row there is; a bounce also suppresses for good.
WithFlag(state, a, flag) ==
  IF a \notin DOMAIN state THEN state
  ELSE [state EXCEPT ![a].flags =
          @ \cup (IF flag = "bounced" THEN {"bounced", "skipped"} ELSE {flag})]

\* Mutant of AlreadyRecorded: a send of the draft is seen one touch late.
AlreadyRecordedLate(state, a, touch) == RowOf(state, a).touch > touch + 1

\* alreadyRecorded(), alreadySent(): more sends on file than when the draft was built.
AlreadyRecorded(state, a, touch) == RowOf(state, a).touch > touch

\* Mutant of Answered: only a reply ends the exchange.
AnsweredByReply(state, a) == "replied" \in RowOf(state, a).flags

Answered(state, a) == RowOf(state, a).flags # {}

\* The stamps of all rows from a day on.
SentSince(state, day) ==
  Cardinality(UNION {{<<a, i>> : i \in {k \in DOMAIN state[a].sentAt :
                                         state[a].sentAt[k].day >= day}} : a \in DOMAIN state})

\* Mutant of SentInLast24h: since midnight.
SentSinceMidnight(state, today) == SentSince(state, today)

\* sentInLast24h(): a rolling window.
SentInLast24h(state, today) == SentSince(state, IF today = 0 THEN 0 ELSE today - 1)

\* buildFollowUps(): an exchange under way whose next mail is due.
FollowUps(state, today) ==
  {a \in DOMAIN state : /\ state[a].flags = {}
                        /\ state[a].touch \in 1..Len(Gaps)
                        /\ state[a].due <= today}

\* mergePool(): contacts whose first mail may stay on offer.
FirstTouches(state) == {a \in Contacts : RowOf(state, a).touch = 0 /\ ~Answered(state, a)}

\* syncVerdicts(): every drafted address has a row.
WithDrafts(state, drafts, today) ==
  [a \in DOMAIN state \cup drafts |->
     IF a \in DOMAIN state THEN state[a] ELSE [Blank EXCEPT !.due = today]]

Larger(m, n) == IF m > n THEN m ELSE n

\* mergeState(): sends are united by stamp, touch follows them, the later due date
\* and the flags of either side win.
Merge(local, remote) ==
  [a \in DOMAIN local \cup DOMAIN remote |->
     IF a \notin DOMAIN local THEN remote[a]
     ELSE IF a \notin DOMAIN remote THEN local[a]
     ELSE LET l == local[a]
              r == remote[a]
              sent == ToSet(l.sentAt) \cup ToSet(r.sentAt)
          IN [touch  |-> Larger(Larger(l.touch, r.touch), Cardinality(sent)),
              sentAt |-> SetToSeq(sent),
              due    |-> Larger(l.due, r.due),
              flags  |-> l.flags \cup r.flags]]
=============================================================================
