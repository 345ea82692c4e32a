---------------------------- MODULE PostingAlerts ----------------------------
(***************************************************************************)
(* What the hourly hunt tells, once and of whom (src/index.ts, src/state.ts, *)
(* src/catalog.ts), run by run of .github/workflows/hunt.yml.               *)
(*                                                                          *)
(* A posting that is new to state/seen.json is judged once: if it matches,  *)
(* it goes into the catalogue and into the mail of that run.  The seen file *)
(* travels in the Actions cache, the catalogue on the data branch, and they *)
(* part ways: the cache is saved whatever becomes of the hunt, the mail is  *)
(* sent after it and the catalogue is published after the mail.             *)
(*                                                                          *)
(* A tenant may have several sites, which are boards of their own and share *)
(* one space of ids.  A run polls some of the boards, one after the other,  *)
(* while the employers put postings up, move and take them down.            *)
(***************************************************************************)
EXTENDS Naturals, FiniteSets

CONSTANTS
  Sites,            \* boards of the roster
  TenantOf,         \* the tenant of a site
  Postings,         \* ids of postings that pass preScreen()
  EmployerOf,       \* the tenant an id names
  Colons,           \* tenants whose token has a colon in it (Zoho Recruit)
  Retention,        \* SEEN_RETENTION_DAYS
  ClosedRetention,  \* CLOSED_RETENTION_DAYS
  Healthy,          \* size from which the published catalogue is protected
  Unreachable,      \* whether a fetch from the data branch may fail
  MaxTime           \* bound: the last instant

Never == 0
Times == 1 .. MaxTime
Stamps == {Never} \cup Times

Tenants == {TenantOf[s] : s \in Sites}
SitesOf(t) == {s \in Sites : TenantOf[s] = t}

ASSUME TenantsAssumption ==
  /\ Colons \subseteq Tenants
  /\ EmployerOf \in [Postings -> Tenants]
ASSUME BoundsAssumption ==
  /\ Retention \in Nat /\ ClosedRetention \in Nat /\ Healthy \in Nat
  /\ MaxTime \in Nat \ {0, 1}
  /\ Unreachable \in BOOLEAN

VARIABLES
  now,       \* nowIso of the current or last run
  live,      \* what each site lists
  cache,     \* the saved seen.json: when an id was stamped
  published, \* jobs.json on the data branch
  job,       \* the run under way
  mailed,    \* history: when a posting was last mailed
  forgotten, \* history: what a run knew nothing of when it started cold
  steady     \* history: where a posting stood during the whole of this run, no answer
             \* having been cut off before it

vars == <<now, live, cache, published, job, mailed, forgotten, steady>>

\* The entry of a posting in the catalogue: absent, open, or closed at a time.
None == [status |-> "none", closed |-> Never]
Open == [status |-> "open", closed |-> Never]
Closed(t) == [status |-> "closed", closed |-> t]
Entries == {None, Open} \cup {Closed(t) : t \in Times}
Catalogs == [Postings -> Entries]
Empty == [p \in Postings |-> None]
Listing(catalog) == {p \in Postings : catalog[p] # None}

Unseen == [p \in Postings |-> Never]

Steps == {"idle", "polling", "seen", "hunted", "saved", "mailed"}

Idle == [step |-> "idle", seen |-> Unseen, cold |-> FALSE, catalog |-> Empty, todo |-> {},
         answered |-> {}, present |-> {}, matches |-> {}, mail |-> {}, failed |-> FALSE,
         fetched |-> TRUE]

-----------------------------------------------------------------------------
(* The employers.  A run reads their boards while it polls; what they do after *)
(* its polls they may as well do before the next run.                          *)

\* Two runs, silent or not, are the oldest that the seen file reaches back to.
Init ==
  /\ now = 2
  /\ live \in [Sites -> SUBSET Postings]
  /\ \A s \in Sites : \A p \in live[s] : EmployerOf[p] = TenantOf[s]
  /\ cache \in [Postings -> {Never, 1, 2}]
  /\ \E matches \in SUBSET {p \in Postings : cache[p] # Never} :
       /\ published = [p \in Postings |-> IF p \in matches THEN Open ELSE None]
       /\ \E mail \in {{}, matches} :
            mailed = [p \in Postings |-> IF p \in mail THEN cache[p] ELSE Never]
  /\ job = Idle
  /\ forgotten = {}
  /\ steady = {}

Changing == job.step \in {"idle", "polling"}

PutUp(s, p) ==
  /\ Changing
  /\ EmployerOf[p] = TenantOf[s] /\ p \notin live[s]
  /\ live' = [live EXCEPT ![s] = @ \cup {p}]
  /\ UNCHANGED <<now, cache, published, job, mailed, forgotten, steady>>

TakeDown(s, p) ==
  /\ Changing
  /\ p \in live[s]
  /\ live' = [live EXCEPT ![s] = @ \ {p}]
  /\ steady' = steady \ {<<s, p>>}
  /\ UNCHANGED <<now, cache, published, job, mailed, forgotten>>

\* The Actions cache holds no seen file any more.
CacheEvicted ==
  /\ job = Idle
  /\ cache # Unseen /\ cache' = Unseen
  /\ UNCHANGED <<now, live, published, job, mailed, forgotten, steady>>

-----------------------------------------------------------------------------
(* The hunt. *)

\* A run without a seen file takes the ids of the catalogue as seen.
Seeded(catalog, time) ==
  [p \in Postings |-> IF catalog[p] # None THEN time ELSE Never]

\* The seen file is restored from the cache and the catalogue from the data branch;
\* if that fetch fails, the file of the checkout stands in, which predates every
\* posting here.  A board that selectBoards() leaves out is one that does not answer.
Begin ==
  /\ job = Idle
  /\ now < MaxTime /\ now' = now + 1
  /\ \E fetched \in {TRUE, ~Unreachable} :
       LET catalog == IF fetched THEN published ELSE Empty
           cold == cache = Unseen
           seen == IF cold THEN Seeded(catalog, now') ELSE cache
       IN /\ job' = [Idle EXCEPT !.step = "polling", !.cold = cold, !.catalog = catalog,
                                 !.fetched = fetched, !.todo = Sites, !.seen = seen]
          /\ forgotten' = IF cold THEN forgotten \cup (Postings \ Listing(catalog))
                          ELSE forgotten
  /\ steady' = {at \in Sites \X Postings : at[2] \in live[at[1]]}
  /\ UNCHANGED <<live, cache, published, mailed>>

\* Mutant of Poll: a board that answered stays to be polled.
PollAgain(s) ==
  /\ job.step = "polling" /\ s \in job.todo
  /\ job' = [job EXCEPT !.answered = @ \cup {s}, !.present = @ \cup live[s]]
  /\ UNCHANGED <<now, live, cache, published, mailed, forgotten, steady>>

\* A board answers with what it lists at that moment, which the adapters cut off after
\* so many pages, or fails.
Poll(s) ==
  /\ job.step = "polling" /\ s \in job.todo
  /\ \/ \E page \in SUBSET live[s] :
          /\ job' = [job EXCEPT !.todo = @ \ {s}, !.answered = @ \cup {s},
                                !.present = @ \cup page]
          /\ steady' = steady \ ({s} \X (live[s] \ page))
     \/ job' = [job EXCEPT !.todo = @ \ {s}] /\ UNCHANGED steady
  /\ UNCHANGED <<now, live, cache, published, mailed, forgotten>>

\* Mutant of Pruned: half of the retention is kept.
PrunedEarly(seen) ==
  [p \in Postings |-> IF 2 * (now - seen[p]) >= Retention THEN Never ELSE seen[p]]

\* saveSeen() forgets what was stamped longer ago than the retention.
Pruned(seen) ==
  [p \in Postings |-> IF seen[p] + Retention < now THEN Never ELSE seen[p]]

\* The ids that are new are stamped, whatever becomes of them; classify(),
\* shouldAlert() and the collapsing of duplicates keep some of them.  The seen
\* file is written.
WriteSeen ==
  /\ job.step = "polling" /\ job.todo = {}
  /\ LET new == {p \in job.present : job.seen[p] = Never}
         stamped == [p \in Postings |-> IF p \in new THEN now ELSE job.seen[p]]
     IN \E matches \in SUBSET new :
          job' = [job EXCEPT !.step = "seen", !.seen = Pruned(stamped),
                             !.matches = matches]
  /\ UNCHANGED <<now, live, cache, published, mailed, forgotten, steady>>

\* Mutant of PolledTenants: one site that answered speaks for its tenant.
PolledAnySite == {t \in Tenants : job.answered \cap SitesOf(t) # {}}

\* A tenant counts as polled when every row it has succeeded in this run.
PolledTenants == {t \in Tenants : SitesOf(t) \subseteq job.answered}

\* tenantKey() takes what stands between the first two colons of an id, and so
\* finds no tenant whose token has one.
KeyedTenants == PolledTenants \ Colons

\* Mutant of Updated: the entry is dropped when the posting is gone.
UpdatedGone(p) ==
  IF p \in job.matches THEN Open
  ELSE IF EmployerOf[p] \in KeyedTenants /\ p \notin job.present THEN None
  ELSE job.catalog[p]

\* The entry of p after updateCatalog(): closed by absence, reopened by presence,
\* renewed by a match; a closed entry is dropped in time.
Updated(p) ==
  LET entry == job.catalog[p]
      judged == IF EmployerOf[p] \notin KeyedTenants \/ entry = None THEN entry
                ELSE IF p \in job.present THEN Open
                ELSE IF entry = Open THEN Closed(now) ELSE entry
      renewed == IF p \in job.matches THEN Open ELSE judged
  IN IF renewed.status = "closed" /\ renewed.closed + ClosedRetention < now
     THEN None ELSE renewed

\* The catalogue is written, then the mail; a cold run renders none.
WriteCatalog ==
  /\ job.step = "seen"
  /\ job' = [job EXCEPT !.step = "hunted", !.catalog = [p \in Postings |-> Updated(p)],
                        !.mail = IF job.cold THEN {} ELSE job.matches]
  /\ steady' = {}
  /\ UNCHANGED <<now, live, cache, published, mailed, forgotten>>

\* The hunt throws: while it polls, it has written nothing; later, what it stamped
\* is in the seen file.
HuntFails ==
  /\ job.step \in {"polling", "seen"}
  /\ job' = [Idle EXCEPT !.step = "hunted", !.failed = TRUE,
                         !.seen = IF job.step = "polling" THEN cache ELSE job.seen]
  /\ steady' = {}
  /\ UNCHANGED <<now, live, cache, published, mailed, forgotten>>

-----------------------------------------------------------------------------
(* The steps of the workflow after the hunt. *)

\* "Save seen state", if: always().  A failed hunt ends the job there.
SaveCache ==
  /\ job.step = "hunted"
  /\ cache' = job.seen
  /\ job' = IF job.failed THEN Idle ELSE [job EXCEPT !.step = "saved"]
  /\ UNCHANGED <<now, live, published, mailed, forgotten, steady>>

\* "Email new roles": without new roles it is skipped; if it fails, so does the job.
Mail ==
  /\ job.step = "saved"
  /\ \/ /\ job' = [job EXCEPT !.step = "mailed"]
        /\ mailed' = [p \in Postings |-> IF p \in job.mail THEN now ELSE mailed[p]]
        /\ forgotten' = forgotten \ job.mail
     \/ job.mail # {} /\ job' = Idle /\ UNCHANGED <<mailed, forgotten>>
  /\ UNCHANGED <<now, live, cache, published, steady>>

\* The guard of "Publish catalog": no healthy catalogue is replaced by one of less
\* than half its size.
Collapsed(catalog) ==
  /\ Cardinality(Listing(published)) >= Healthy
  /\ 2 * Cardinality(Listing(catalog)) < Cardinality(Listing(published))

\* The guard refuses, or cannot fetch what it compares with; the push may fail.
Publish ==
  /\ job.step = "mailed"
  /\ job' = Idle
  /\ \/ (~Collapsed(job.catalog) \/ Unreachable) /\ published' = job.catalog
     \/ UNCHANGED published
  /\ UNCHANGED <<now, live, cache, mailed, forgotten, steady>>

RunnerLost ==
  /\ job # Idle /\ job' = Idle
  /\ steady' = {}
  /\ UNCHANGED <<now, live, cache, published, mailed, forgotten>>

-----------------------------------------------------------------------------
Next ==
  \/ \E s \in Sites, p \in Postings : PutUp(s, p) \/ TakeDown(s, p)
  \/ CacheEvicted \/ Begin \/ \E s \in Sites : Poll(s)
  \/ WriteSeen \/ WriteCatalog \/ HuntFails
  \/ SaveCache \/ Mail \/ Publish \/ RunnerLost

Spec == Init /\ [][Next]_vars

-----------------------------------------------------------------------------
(* Properties. *)

\* Every variable keeps its shape, and only a run under way holds data.
TypeOK ==
  /\ now \in Times
  /\ live \in [Sites -> SUBSET Postings]
  /\ cache \in [Postings -> Stamps]
  /\ published \in Catalogs
  /\ job.step \in Steps
  /\ job.seen \in [Postings -> Stamps] /\ job.catalog \in Catalogs
  /\ job.todo \subseteq Sites /\ job.answered \subseteq Sites \ job.todo
  /\ job.mail \subseteq job.matches /\ job.matches \subseteq job.present
  /\ job.present \subseteq Postings
  /\ {job.cold, job.failed, job.fetched} \subseteq BOOLEAN
  /\ mailed \in [Postings -> Stamps]
  /\ forgotten \subseteq Postings
  /\ steady \subseteq {at \in Sites \X Postings : at[2] \in live[at[1]]}

\* A posting is not mailed again while its stamp is kept, whatever failed, was
\* evicted or closed and came back in between, unless a run had to start cold
\* and did not find it in the catalogue either.
MailedOnce ==
  [][\A p \in Postings :
       mailed'[p] # mailed[p] /\ mailed[p] # Never /\ p \notin forgotten
         => now > mailed[p] + Retention]_vars

\* A run does not close a posting that some site lists during the whole of it,
\* whichever of its tenant's sites it polls and whichever of them fail, unless that
\* site's answer was cut off before it.
OpenWhileListed ==
  [][\A p \in Postings :
       job.step = "seen" /\ job'.step = "hunted" /\ ~job'.failed
         /\ job.catalog[p] = Open /\ job'.catalog[p] # Open
         => \A s \in Sites : <<s, p>> \notin steady]_vars

\* What leaves the published catalogue was closed in it for the retention: no run
\* that failed, was lost or was not published in between takes an entry along, save
\* one that could not fetch the catalogue and publishes what it had instead.
DroppedWhenLongClosed ==
  [][\A p \in Postings :
       published[p] # None /\ published'[p] = None
         => \/ published[p].status = "closed" /\ published[p].closed + ClosedRetention < now
            \/ ~job.fetched]_vars

=============================================================================
