---------------------------- MODULE OutreachLocal ----------------------------
(***************************************************************************)
(* Cold mail on the user's own machine: the served page of src/outreach.ts, *)
(* its command line, and the sender of reviewed mails src/outreach-send.ts. *)
(* They share contacted.json and nothing locks it: the lock of outreach.ts  *)
(* keeps a second build away, not --sent-manual and not the sender.  Every  *)
(* one of them reads the whole file, changes its copy and writes it back.   *)
(*                                                                          *)
(* Two builds never race for the lock's pid file here.                      *)
(*                                                                          *)
(* Left out: the page, the LinkedIn requests, two senders at once (their    *)
(* copies race at once) and a send that is dry (--dry-run goes through to    *)
(* git send-email, and its exit status 0 is recorded like a mail).          *)
(***************************************************************************)
EXTENDS OutreachRows

CONSTANTS
  Requests,   \* clicks and --sent-manual commands
  Clicks,     \* kinds of request tried
  MaxBuilds,  \* bound: batches built
  MaxRuns,    \* bound: starts of the sender
  MaxCut,     \* bound: mails of the sender that left and were not recorded
  MaxDay      \* bound: days

Kinds == {"open", "sent", "manual", "replied", "skip", "bounce"}
Marks == {"replied", "skip", "bounce"}
FlagOf(kind) ==
  IF kind = "skip" THEN "skipped" ELSE IF kind = "bounce" THEN "bounced" ELSE "replied"

ASSUME LocalAssumption ==
  /\ Clicks \subseteq Kinds
  /\ {MaxBuilds, MaxRuns, MaxCut, MaxDay} \subseteq Nat

VARIABLES
  rows,       \* contacted.json
  proc,       \* the one process that holds the lock: a build, then the server
  req,        \* the requests
  manifest,   \* out/outbox/<day>: the drafts written for review
  sender,     \* outreach-send
  runs,       \* starts of the sender
  today,
  mails,      \* history: the mails sent to each contact
  cut,        \* history: mails of the sender that left and were not recorded
  raced       \* history: something was decided on or written from a stale copy

vars == <<rows, proc, req, manifest, sender, runs, today, mails, cut, raced>>

\* goal: what the build is for; cards: the drafts, with the touch each was built at;
\* of: which build; fresh: the copies that refreshes under way have read.
Down(of) == [step |-> "off", goal |-> "serve", copy |-> <<>>, cards |-> <<>>, of |-> of,
             fresh |-> {}]

\* seen: the copy of the file this request has read.
Fresh == [step |-> "new", kind |-> "open", to |-> CHOOSE a \in Contacts : TRUE, seen |-> <<>>]
Ended == [Fresh EXCEPT !.step = "ended"]

\* todo: entries of the manifest not yet gone through; left: what the cap leaves.
Idle == [step |-> "off", of |-> 0, todo |-> <<>>, copy |-> <<>>, left |-> 0,
         to |-> CHOOSE a \in Contacts : TRUE]

Init ==
  /\ rows = <<>>
  /\ proc = Down(0)
  /\ req = [r \in Requests |-> Fresh]
  /\ manifest = [of |-> 0, drafts |-> <<>>]
  /\ sender = Idle
  /\ runs = 0
  /\ today = 0
  /\ mails = [a \in Contacts |-> <<>>]
  /\ cut = 0
  /\ raced = FALSE

Less(f, a) == [c \in DOMAIN f \ {a} |-> f[c]]

\* One more mail; what was known of the contact is remembered with it.
MailTo(a, from, of) ==
  mails' = [mails EXCEPT ![a] = Append(@,
    [from |-> from, of |-> of, day |-> today, flagged |-> RowOf(rows, a).flags # {}])]

\* Somebody acts on this copy of the file.
ActsOn(copy) == raced' = (raced \/ copy # rows)

\* Bound: nothing is built or sent any more once copies have raced.
Bounded == ~raced

-----------------------------------------------------------------------------
(* Builds: npm run outreach -- --serve, --mbox. *)

Offers(copy) == FollowUps(copy, today) \cup FirstTouches(copy)

\* acquireLock() and the read of buildBatch().
StartBuild(goal) ==
  /\ proc.step = "off" /\ proc.of < MaxBuilds /\ Bounded
  /\ proc' = [Down(proc.of + 1) EXCEPT !.step = "building", !.goal = goal, !.copy = rows]
  /\ UNCHANGED <<rows, req, manifest, sender, runs, today, mails, cut, raced>>

\* The batch, minutes later: follow-ups that are due and the first mails it found.
Built(copy, drafts) == [a \in drafts |-> RowOf(copy, a).touch]

\* serve(); or syncVerdicts(), which reads the file again.
EndBuild ==
  /\ proc.step = "building"
  /\ \E drafts \in SUBSET Offers(proc.copy) :
       proc' = [proc EXCEPT !.step = IF proc.goal = "serve" THEN "up" ELSE "sync",
                            !.cards = Built(proc.copy, drafts),
                            !.copy = IF proc.goal = "serve" THEN <<>> ELSE rows]
  /\ ActsOn(proc.copy)
  /\ UNCHANGED <<rows, req, manifest, sender, runs, today, mails, cut>>

\* syncVerdicts() writes, writeMbox() follows, and the process ends.
WriteMbox ==
  /\ proc.step = "sync"
  /\ rows' = WithDrafts(proc.copy, DOMAIN proc.cards, today)
  /\ manifest' = [of |-> proc.of, drafts |-> proc.cards]
  /\ proc' = Down(proc.of)
  /\ ActsOn(proc.copy)
  /\ UNCHANGED <<req, sender, runs, today, mails, cut>>

\* /refresh: the same build inside the server, which goes on answering, also to the
\* next /refresh.
StartRefresh ==
  /\ proc.step = "up" /\ proc.of < MaxBuilds /\ Bounded
  /\ proc' = [proc EXCEPT !.fresh = @ \cup {rows}]
  /\ UNCHANGED <<rows, req, manifest, sender, runs, today, mails, cut, raced>>

EndRefresh ==
  /\ proc.step = "up" /\ proc.of < MaxBuilds
  /\ \E copy \in proc.fresh : \E drafts \in SUBSET Offers(copy),
                                 rest \in {proc.fresh, proc.fresh \ {copy}} :
       /\ proc' = [proc EXCEPT !.cards = Built(copy, drafts), !.of = @ + 1, !.fresh = rest]
       /\ ActsOn(copy)
  /\ UNCHANGED <<rows, req, manifest, sender, runs, today, mails, cut>>

\* The process is stopped: its cards are in memory, its requests go unanswered.
Stop ==
  /\ proc.step # "off"
  /\ proc' = Down(proc.of)
  /\ req' = [r \in Requests |->
               IF req[r].step = "act" /\ req[r].kind # "manual" THEN Ended ELSE req[r]]
  /\ UNCHANGED <<rows, manifest, sender, runs, today, mails, cut, raced>>

-----------------------------------------------------------------------------
(* Requests: each reads the file first and awaits once more, at its write. *)

Arrive(r, kind, a) ==
  /\ req[r].step = "new"
  /\ kind # "manual" => proc.step = "up"
  /\ req' = [req EXCEPT ![r] = [step |-> "act", kind |-> kind, to |-> a, seen |-> rows]]
  /\ UNCHANGED <<rows, proc, manifest, sender, runs, today, mails, cut, raced>>

\* Mutant of Take: the card stays.
TakeNothing(a) == proc.cards

\* take(): the card leaves the batch before anything is awaited.
Take(a) == Less(proc.cards, a)

\* markSent(), markSentManual() on the request's own copy.
Write(r) == rows' = WithSend(req[r].seen, req[r].to, [day |-> today, by |-> r], today)

\* /open, /mailapp with room under the cap and a card: record, then on to the draft.
Open(r) ==
  LET a == req[r].to IN
  /\ req[r].step = "act" /\ req[r].kind = "open"
  /\ SentInLast24h(req[r].seen, today) < Cap
  /\ a \in DOMAIN proc.cards
  /\ proc' = [proc EXCEPT !.cards = Take(a)]
  /\ Write(r)
  /\ MailTo(a, "page", proc.of)
  /\ ActsOn(req[r].seen)
  /\ req' = [req EXCEPT ![r] = Ended]
  /\ UNCHANGED <<manifest, sender, runs, today, cut>>

\* Over the cap, or the card is gone.
NotOpened(r) ==
  /\ req[r].step = "act" /\ req[r].kind = "open"
  /\ SentInLast24h(req[r].seen, today) >= Cap \/ req[r].to \notin DOMAIN proc.cards
  /\ req' = [req EXCEPT ![r] = Ended]
  /\ UNCHANGED <<rows, proc, manifest, sender, runs, today, mails, cut, raced>>

\* /sent, and --sent-manual, which knows nothing of the cards served.
RecordByHand(r) ==
  /\ req[r].step = "act" /\ req[r].kind \in {"sent", "manual"}
  /\ proc' = IF req[r].kind = "sent" THEN [proc EXCEPT !.cards = Take(req[r].to)] ELSE proc
  /\ Write(r)
  /\ ActsOn(req[r].seen)
  /\ req' = [req EXCEPT ![r] = Ended]
  /\ UNCHANGED <<manifest, sender, runs, today, mails, cut>>

\* /replied, /skip, /bounce: the card goes; flag() marks the row, if there is one.
Mark(r) ==
  LET a == req[r].to IN
  /\ req[r].step = "act" /\ req[r].kind \in Marks
  /\ proc' = [proc EXCEPT !.cards = Take(a)]
  /\ IF a \in DOMAIN req[r].seen
       THEN rows' = WithFlag(req[r].seen, a, FlagOf(req[r].kind)) /\ ActsOn(req[r].seen)
       ELSE UNCHANGED <<rows, raced>>
  /\ req' = [req EXCEPT ![r] = Ended]
  /\ UNCHANGED <<manifest, sender, runs, today, mails, cut>>

-----------------------------------------------------------------------------
(* npm run outreach:send: one read of the file for the whole directory. *)

\* Mutant of Left: this run's own allowance.
LeftPerRun == Cap

\* Mutant of Left: not cut off at zero.
LeftOver == Cap - SentInLast24h(rows, today)

\* What the mails on file leave of the cap.
Left == LET already == SentInLast24h(rows, today) IN IF already < Cap THEN Cap - already ELSE 0

StartSender ==
  /\ sender.step = "off" /\ runs < MaxRuns /\ manifest.of # 0 /\ Bounded
  /\ runs' = runs + 1
  /\ sender' = [Idle EXCEPT !.step = "next", !.of = manifest.of, !.todo = manifest.drafts,
                            !.copy = rows, !.left = Left]
  /\ UNCHANGED <<rows, proc, req, manifest, today, mails, cut, raced>>

\* git send-email sends an entry that no guard holds back.
Send(a) ==
  /\ sender.step = "next" /\ a \in DOMAIN sender.todo
  /\ ~AlreadyRecorded(sender.copy, a, sender.todo[a])
  /\ ~Answered(sender.copy, a)
  /\ sender.left > 0
  /\ MailTo(a, "sender", sender.of)
  /\ sender' = [sender EXCEPT !.step = "mailed", !.to = a, !.left = @ - 1,
                              !.todo = Less(@, a)]
  /\ ActsOn(sender.copy)
  /\ UNCHANGED <<rows, proc, req, manifest, runs, today, cut>>

\* Mutant of Saved: the record waits for the end of the run.
SavedLater(old, new) == old

\* What the file holds after a mail.
Saved(old, new) == new

\* saveState() after every mail, of the copy read at the start.
Save ==
  /\ sender.step = "mailed"
  /\ LET new == WithSend(sender.copy, sender.to, [day |-> today, by |-> "sender"], today) IN
       /\ sender' = [sender EXCEPT !.step = "next", !.copy = new]
       /\ rows' = Saved(rows, new)
  /\ ActsOn(sender.copy)
  /\ UNCHANGED <<proc, req, manifest, runs, today, mails, cut>>

\* The end of the directory, or of the process.  Entries without a mail leave no trace:
\* the file deleted, held back by a guard, or git send-email failed.
EndSender ==
  /\ sender.step = "next"
  /\ sender' = Idle
  /\ UNCHANGED <<rows, proc, req, manifest, runs, today, mails, cut, raced>>

CrashSender ==
  /\ sender.step = "mailed"
  /\ cut < MaxCut /\ cut' = cut + 1
  /\ sender' = Idle
  /\ UNCHANGED <<rows, proc, req, manifest, runs, today, mails, raced>>

\* git send-email exits with an error although the mail left: not marked sent, and
\* not counted by this run either.
Unreported ==
  /\ sender.step = "mailed"
  /\ cut < MaxCut /\ cut' = cut + 1
  /\ sender' = [sender EXCEPT !.step = "next", !.left = @ + 1]
  /\ UNCHANGED <<rows, proc, req, manifest, runs, today, mails, raced>>

\* Requests, and a mail and its record, are over in seconds.
NextDay ==
  /\ today < MaxDay /\ Bounded
  /\ \A r \in Requests : req[r].step # "act"
  /\ sender.step # "mailed"
  /\ today' = today + 1
  /\ UNCHANGED <<rows, proc, req, manifest, sender, runs, mails, cut, raced>>

Request(r) ==
  \/ \E kind \in Clicks, a \in Contacts : Arrive(r, kind, a)
  \/ Open(r) \/ NotOpened(r) \/ RecordByHand(r) \/ Mark(r)

Sender ==
  \/ StartSender \/ Save \/ EndSender \/ CrashSender \/ Unreported
  \/ \E a \in Contacts : Send(a)

Next ==
  \/ \E goal \in {"serve", "mbox"} : StartBuild(goal)
  \/ EndBuild \/ WriteMbox \/ StartRefresh \/ EndRefresh \/ Stop
  \/ \E r \in Requests : Request(r)
  \/ Sender
  \/ NextDay

Spec == Init /\ [][Next]_vars

-----------------------------------------------------------------------------
(* Properties. *)

Days == 0..MaxDay
By == Requests \cup {"sender"}
IsBatch(drafts) == DOMAIN drafts \subseteq Contacts /\ \A a \in DOMAIN drafts : drafts[a] \in Nat

\* The variables stay within their types.
TypeOK ==
  /\ IsState(rows, Days, By)
  /\ proc \in [step : {"off", "building", "sync", "up"}, goal : {"serve", "mbox"},
               copy : {proc.copy}, cards : {proc.cards}, of : 0..MaxBuilds, fresh : {proc.fresh}]
  /\ IsState(proc.copy, Days, By) /\ IsBatch(proc.cards)
  /\ \A copy \in proc.fresh : IsState(copy, Days, By)
  /\ DOMAIN req = Requests
  /\ \A r \in Requests :
       /\ req[r] \in [step : {"new", "act", "ended"}, kind : Kinds, to : Contacts \cup {Fresh.to},
                      seen : {req[r].seen}]
       /\ IsState(req[r].seen, Days, By)
       /\ req[r].step = "act" => req[r].to \in Contacts
  /\ manifest \in [of : 0..MaxBuilds, drafts : {manifest.drafts}] /\ IsBatch(manifest.drafts)
  /\ sender \in [step : {"off", "next", "mailed"}, of : 0..MaxBuilds, todo : {sender.todo},
                 copy : {sender.copy}, left : 0..Cap, to : Contacts \cup {Idle.to}]
  /\ IsBatch(sender.todo) /\ IsState(sender.copy, Days, By)
  /\ sender.step = "mailed" => sender.to \in Contacts /\ sender.left < Cap
  /\ mails \in [Contacts -> Seq([from : {"page", "sender"}, of : 0..MaxBuilds, day : Days,
                                 flagged : BOOLEAN])]
  /\ runs \in 0..MaxRuns /\ today \in Days /\ cut \in Nat /\ raced \in BOOLEAN

\* Mails to a from one build by one way.
Count(a, from, of) ==
  Cardinality({i \in DOMAIN mails[a] : mails[a][i].from = from /\ mails[a][i].of = of})

\* The mails of a day and the day before.
Rolling(day) ==
  UNION {{<<a, i>> : i \in {k \in DOMAIN mails[a] :
                              mails[a][k].day <= day /\ mails[a][k].day + 1 >= day}} : a \in Contacts}

\* A card leads to one mail however many requests for it interleave, also when their
\* records overwrite one another.
CardMailsOnce == \A a \in Contacts : \A of \in 1..MaxBuilds : Count(a, "page", of) <= 1

\* A directory sent again, after a crash or for what the cap held back, mails nobody
\* twice but for a mail whose record a crash or a false exit status cut off.
RerunsSendOnce ==
  ~raced => \A a \in Contacts : \A of \in 1..MaxBuilds : Count(a, "sender", of) <= 1 + cut

\* Page and sender together stay under the cap of a rolling day, whichever of them
\* sent before, again but for records cut off or on their way.
CapShared ==
  ~raced /\ sender.step # "mailed" =>
    \A day \in Days : Cardinality(Rolling(day)) <= Cap + cut

\* Neither a card, a card a refresh offers again nor an entry reviewed days ago leads
\* to a mail to a contact whose reply, bounce or skip is on file.
AnsweredNotMailed ==
  ~raced => \A a \in Contacts : \A i \in DOMAIN mails[a] : ~mails[a][i].flagged
=============================================================================
