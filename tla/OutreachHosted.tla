--------------------------- MODULE OutreachHosted ---------------------------
(***************************************************************************)
(* The hosted outreach page: click requests at the web API                  *)
(* (web/app/api/outreach/[action]/[[...id]]/route.ts) and the workflow that *)
(* rebuilds the page (.github/workflows/outreach.yml, publish-outreach.ts), *)
(* over one private repository that holds the rows and the published batch. *)
(*                                                                          *)
(* Nothing but the repository is shared.  A request reads it, decides, and  *)
(* commits with the sha of a second read, so that a write is a compare and  *)
(* swap on the contents; the workflow reads it at its start, minutes before *)
(* it writes.  A mail is sent by hand from the draft an open request leads  *)
(* to, so a redirect stands for a mail.  Any read of the API may fail, and   *)
(* one of a file over 1 MB, which takes a second call, may come back empty. *)
(*                                                                          *)
(* Left out: the page itself, the rebuild button, the LinkedIn requests.    *)
(***************************************************************************)
EXTENDS OutreachRows

CONSTANTS
  Requests,   \* click requests
  Clicks,     \* kinds of click tried
  Tries,      \* commitState(): attempts
  MaxDay      \* bound: days

Kinds == {"open", "sent", "replied", "skip", "bounce"}
FlagOf(kind) ==
  IF kind = "skip" THEN "skipped" ELSE IF kind = "bounce" THEN "bounced" ELSE "replied"

ASSUME HostedAssumption ==
  Clicks \subseteq Kinds /\ Tries \in Nat \ {0} /\ MaxDay \in Nat

VARIABLES
  rows,       \* contacted.json in the repository
  batch,      \* batch.json: published drafts, with the touch each was built at
  req,        \* the requests
  build,      \* the workflow: its step, its copy of the rows, its drafts
  today,
  lost        \* history: a publication has dropped something recorded, or a click
              \* wrote a state made from an empty read

vars == <<rows, batch, req, build, today, lost>>

\* step: where the request is; to: its contact; draft: the touch of its draft, if it
\* has one; seen: the rows whose sha its last read gave, blank: it got no text with it;
\* tries: commits tried; made: the touch its send makes.  answered, blind and before are
\* history: whether a flag was on file when an open came in, whether its gates did not see the
\* rows, and the requests whose sends were recorded when it was let through.
Fresh == [step |-> "new", kind |-> "open", to |-> CHOOSE a \in Contacts : TRUE, draft |-> {},
          seen |-> <<>>, blank |-> FALSE, tries |-> 0, day |-> 0, made |-> 0,
          answered |-> FALSE, blind |-> FALSE, before |-> {}]

\* A request that ended with nothing opened and nothing more to remember.
Ended == [Fresh EXCEPT !.step = "ended"]

Off == [step |-> "off", local |-> <<>>, drafts |-> <<>>]

Init ==
  /\ rows = <<>>
  /\ batch = <<>>
  /\ req = [r \in Requests |-> Fresh]
  /\ build = Off
  /\ today = 0
  /\ lost = FALSE

Step(r) == req[r].step

\* A request whose send was recorded, and one that led on to its draft.
Recorded(r) == Step(r) = "done"
Opened(r) == Recorded(r) /\ req[r].kind = "open"

-----------------------------------------------------------------------------
(* A click. *)

\* A request comes in; a send route looks for its draft in the published batch.
\* Recording a mail sent by hand needs no draft: it may not be in the batch, or the
\* batch not be read.
Arrive(r, kind, a) ==
  /\ Step(r) = "new"
  /\ \E draft \in {{}, {batch[b] : b \in DOMAIN batch \cap {a}}} :
       /\ kind = "open" => draft # {}
       /\ kind \notin {"open", "sent"} => draft = {}
       /\ req' = [req EXCEPT ![r] =
            [Fresh EXCEPT !.step = IF kind \in {"open", "sent"} THEN "gate" ELSE "read",
                          !.kind = kind, !.to = a, !.day = today, !.draft = draft,
                          !.answered = (kind = "open" /\ RowOf(rows, a).flags # {})]]
  /\ UNCHANGED <<rows, batch, build, today, lost>>

Refused(r, state) ==
  \/ \E touch \in req[r].draft : AlreadyRecorded(state, req[r].to, touch)
  \/ req[r].kind = "open" /\ (Answered(state, req[r].to) \/ SentInLast24h(state, today) >= Cap)

LetThrough(r, blind) ==
  [req[r] EXCEPT !.step = "read", !.blind = blind, !.before = {s \in Requests : Recorded(s)}]

\* The gates read the rows as they are now, not as the page was rendered.  getFile()
\* answers a failed second call with an empty text, which they take for no rows.  When
\* the read itself fails, an open ends and a record of a mail goes on without its gate.
Gate(r) ==
  /\ Step(r) = "gate"
  /\ \/ \E state \in {rows, <<>>} :
          req' = [req EXCEPT ![r] = IF Refused(r, state) THEN Ended
                                    ELSE LetThrough(r, state # rows)]
     \/ req' = [req EXCEPT ![r] = IF @.kind = "open" THEN Ended ELSE LetThrough(r, TRUE)]
  /\ UNCHANGED <<rows, batch, build, today, lost>>

\* commitState(): a fresh read, which may fail, or give the sha without the text.
Read(r) ==
  /\ Step(r) = "read"
  /\ \/ \E blank \in {FALSE, rows # <<>>} :
          req' = [req EXCEPT ![r] = [@ EXCEPT !.step = "put", !.seen = rows, !.blank = blank]]
     \/ req' = [req EXCEPT ![r] = Ended]
  /\ UNCHANGED <<rows, batch, build, today, lost>>

\* The rows a request took its last read for.
Text(r) == IF req[r].blank THEN <<>> ELSE req[r].seen

\* The change a request makes to what it read.
Changed(r) ==
  IF req[r].kind \in {"open", "sent"}
    THEN WithSend(Text(r), req[r].to, [day |-> req[r].day, by |-> r], today)
    ELSE WithFlag(Text(r), req[r].to, FlagOf(req[r].kind))

\* Mutant of Matches: the write names no sha, so the host never refuses it.
MatchesAlways(r) == TRUE

\* The host takes a write that names the sha of the contents it replaces.
Matches(r) == rows = req[r].seen

\* Mutant of Again: no last try.
AgainForever(r) ==
  [req[r] EXCEPT !.tries = @ + 1, !.seen = <<>>, !.blank = FALSE, !.step = "read"]

Again(r) ==
  IF req[r].tries + 1 = Tries THEN Ended
  ELSE [req[r] EXCEPT !.tries = @ + 1, !.seen = <<>>, !.blank = FALSE, !.step = "read"]

\* The write: taken, taken with the answer lost on its way, or refused.
Put(r) ==
  /\ Step(r) = "put"
  /\ \/ /\ Matches(r)
        /\ rows' = Changed(r)
        /\ lost' = (lost \/ req[r].blank)
        /\ \/ req' = [req EXCEPT ![r] =
                IF @.kind \notin {"open", "sent"} THEN Ended
                ELSE [@ EXCEPT !.step = "done", !.seen = <<>>, !.blank = FALSE,
                               !.made = RowOf(rows', req[r].to).touch]]
           \/ req' = [req EXCEPT ![r] = Again(r)]
     \/ /\ req' = [req EXCEPT ![r] = Again(r)]
        /\ UNCHANGED <<rows, lost>>
  /\ UNCHANGED <<batch, build, today>>

-----------------------------------------------------------------------------
(* The workflow; its concurrency group lets one run at a time. *)

\* publish-outreach --pull.
Pull ==
  /\ build.step = "off"
  /\ build' = [Off EXCEPT !.step = "building", !.local = rows]
  /\ UNCHANGED <<rows, batch, req, today, lost>>

\* outreach --static: follow-ups that are due, first mails as far as they were found,
\* kept in the pool and told apart, or, behind the bounce gate, none at all.
Build ==
  /\ build.step = "building"
  /\ \E drafts \in SUBSET (FollowUps(build.local, today) \cup FirstTouches(build.local)) :
       build' = [step   |-> "merging",
                 local  |-> WithDrafts(build.local, drafts, today),
                 drafts |-> [a \in drafts |-> RowOf(build.local, a).touch]]
  /\ UNCHANGED <<rows, batch, req, today, lost>>

\* publish-outreach --push reads the rows and merges them with its own.
MergeRows ==
  /\ build.step = "merging"
  /\ build' = [build EXCEPT !.step = "pushing", !.local = Merge(@, rows)]
  /\ UNCHANGED <<rows, batch, req, today, lost>>

\* Everything the state old records is in the state new.
Within(old, new) ==
  \A a \in DOMAIN old :
    /\ a \in DOMAIN new
    /\ old[a].touch <= new[a].touch /\ old[a].flags \subseteq new[a].flags
    /\ ToSet(old[a].sentAt) \subseteq ToSet(new[a].sentAt)

\* push() asks for the sha again right before its write, so the write is taken
\* whatever was committed since the merge.
PushRows ==
  /\ build.step = "pushing"
  /\ rows' = build.local
  /\ build' = [build EXCEPT !.step = "publishing", !.local = <<>>]
  /\ lost' = (lost \/ ~Within(rows, rows'))
  /\ UNCHANGED <<batch, req, today>>

PushBatch ==
  /\ build.step = "publishing"
  /\ batch' = build.drafts
  /\ build' = Off
  /\ UNCHANGED <<rows, req, today, lost>>

\* A step of the workflow fails and ends it.
Abort ==
  /\ build.step # "off"
  /\ build' = Off
  /\ UNCHANGED <<rows, batch, req, today, lost>>

\* Requests are over in seconds, a build in minutes.
NextDay ==
  /\ today < MaxDay
  /\ \A r \in Requests : Step(r) \in {"new", "done", "ended"}
  /\ today' = today + 1
  /\ UNCHANGED <<rows, batch, req, build, lost>>

Click(r) ==
  \/ \E kind \in Clicks, a \in Contacts : Arrive(r, kind, a)
  \/ Gate(r)
  \/ Read(r)
  \/ Put(r)

Next ==
  \/ \E r \in Requests : Click(r)
  \/ Pull \/ Build \/ MergeRows \/ PushRows \/ PushBatch \/ Abort
  \/ NextDay

Spec == Init /\ [][Next]_vars

-----------------------------------------------------------------------------
(* Properties. *)

Days == 0..MaxDay
IsBatch(drafts) == DOMAIN drafts \subseteq Contacts /\ \A a \in DOMAIN drafts : drafts[a] \in Nat

\* Requests that have read one of the given states.
ClicksOn(states) ==
  [step : {"new", "gate", "read", "put", "done", "ended"}, kind : Kinds,
   to : Contacts \cup {Fresh.to}, draft : SUBSET Nat, seen : states, blank : BOOLEAN,
   tries : 0..(Tries - 1), day : Days, made : Nat, answered : BOOLEAN, blind : BOOLEAN,
   before : SUBSET Requests]

\* The variables stay within their types.
TypeOK ==
  /\ IsState(rows, Days, Requests) /\ IsBatch(batch)
  /\ DOMAIN req = Requests
  /\ \A r \in Requests :
       /\ req[r] \in ClicksOn({req[r].seen}) /\ IsState(req[r].seen, Days, Requests)
       /\ Step(r) \notin {"new", "ended"} => req[r].to \in Contacts
  /\ build \in [step : {"off", "building", "merging", "pushing", "publishing"},
               local : {build.local}, drafts : {build.drafts}]
  /\ IsState(build.local, Days, Requests) /\ IsBatch(build.drafts)
  /\ today \in Days /\ lost \in BOOLEAN

\* A click erases what another recorded only if it was given the sha of the rows without
\* their text, however clicks and publications interleave: the host refuses a write that
\* names an older sha, and the retry of commitState() starts from a fresh read.
ClicksKeepClicks ==
  [][\A r \in Requests : req'[r] # req[r] /\ ~req[r].blank => Within(rows, rows')]_vars

\* Short of a write that drops rows, nobody gets a mail from a card clicked after their
\* reply, bounce or skip was on file, however old the page is, unless the gate was
\* given an empty state.
AnsweredNotMailed ==
  ~lost => \A r \in Requests : Opened(r) /\ ~req[r].blind => ~req[r].answered

\* Of two sends of one published draft neither was on file when the other was let
\* through by a gate that saw the rows: a repeated click is refused, over rebuilds and
\* lost answers.
RepeatRefused ==
  ~lost => \A r, s \in Requests :
    r # s /\ Recorded(r) /\ Recorded(s) /\ req[r].to = req[s].to
      /\ req[r].draft = req[s].draft /\ req[s].draft # {} /\ ~req[s].blind
      => r \notin req[s].before

\* A follow-up is opened only when the gap after each send on file is over, unless the
\* gate was given an empty state.
FollowUpsWait ==
  ~lost => \A r, s \in Requests :
    Recorded(r) /\ Opened(s) /\ ~req[s].blind /\ req[r].to = req[s].to /\ r \in req[s].before
      => req[s].day >= req[r].day + GapFor(req[r].made)

\* The cap counts the mails of all contacts that were on file, whoever sent them, unless
\* the gate was given an empty state.
CapHeld ==
  ~lost => \A s \in Requests : Opened(s) /\ ~req[s].blind =>
    Cardinality({r \in req[s].before : Recorded(r) /\ req[r].day + 1 >= req[s].day}) < Cap

=============================================================================
