------------------------ MODULE PostingAlerts_proofs ------------------------
(***************************************************************************)
(* What the hourly hunt promises for every number of sites, postings and    *)
(* runs and every retention: a posting is mailed once, what is listed is    *)
(* not closed, and the published catalogue loses only what was long closed. *)
(***************************************************************************)
EXTENDS PostingAlerts, TLAPS

-----------------------------------------------------------------------------
(* The inductive invariant, on top of the types. *)

\* The whole of a run's own data.
Jobs == [step : Steps, seen : [Postings -> Stamps], cold : BOOLEAN, catalog : Catalogs,
         todo : SUBSET Sites, answered : SUBSET Sites, present : SUBSET Postings,
         matches : SUBSET Postings, mail : SUBSET Postings, failed : BOOLEAN,
         fetched : BOOLEAN]

\* Sites list postings of their own tenant; what a site that answered lists during
\* the whole run was found.
Found ==
  /\ \A s \in Sites : \A p \in live[s] : EmployerOf[p] = TenantOf[s]
  /\ \A s \in job.answered, p \in Postings : <<s, p>> \in steady => p \in job.present

\* The run has judged its postings and goes on to publish.
Judged ==
  \/ job.step \in {"saved", "mailed"}
  \/ job.step = "hunted" /\ ~job.failed

\* A run works on the published catalogue, if it could fetch it, and drops from it
\* what was long closed.
Carried ==
  job.fetched =>
    /\ job.step \in {"polling", "seen"} => job.catalog = published
    /\ Judged => \A p \in Postings :
         published[p] # None /\ job.catalog[p] = None =>
           published[p].status = "closed" /\ published[p].closed + ClosedRetention < now

\* A posting that may be mailed without being mailed twice.
Due(p) == mailed[p] = Never \/ p \in forgotten \/ now > mailed[p] + Retention

\* What was mailed is stamped, in the cache and in the copy of the run, as long as the
\* stamps are kept; what a run is about to mail is due and stamped.
Stamped ==
  /\ \A p \in Postings : mailed[p] <= now
  /\ cache # Unseen => \A p \in Postings : Due(p) \/ cache[p] >= mailed[p]
  /\ job.step \in {"polling", "seen", "hunted"} =>
       \/ (job.failed /\ job.seen = Unseen)
       \/ \A p \in Postings : Due(p) \/ job.seen[p] >= mailed[p]
  /\ job.step \in {"polling", "seen"} => ~job.failed
  /\ job.step = "polling" => job.matches = {}
  /\ job.step \in {"seen", "hunted"} => \A p \in job.matches : Due(p) /\ job.seen[p] = now
  /\ job.step = "saved" => \A p \in job.matches : Due(p) /\ cache[p] = now

IInv == TypeOK /\ job \in Jobs /\ Found /\ Carried /\ Stamped

-----------------------------------------------------------------------------
(* Stamps and entries. *)

\* Instants are natural numbers, and so is what is kept of them.
LEMMA Instants ==
  ASSUME TypeOK, job \in Jobs
  PROVE  /\ now \in Nat /\ now \in Stamps /\ Never \in Stamps /\ Never = 0 /\ now >= 1
         /\ Retention \in Nat /\ ClosedRetention \in Nat
         /\ \A t \in Stamps : t \in Nat
         /\ \A p \in Postings : /\ mailed[p] \in Nat /\ cache[p] \in Nat /\ job.seen[p] \in Nat
                                /\ mailed[p] \in Stamps
<1>1. \A t \in Stamps : t \in Nat
  BY DEF Stamps, Times, Never
<1>2. now \in Times /\ now \in Nat /\ now >= 1
  BY BoundsAssumption DEF TypeOK, Times
<1>3. \A p \in Postings : mailed[p] \in Stamps /\ cache[p] \in Stamps /\ job.seen[p] \in Stamps
  BY DEF TypeOK
<1> QED BY <1>1, <1>2, <1>3, BoundsAssumption DEF Stamps, Never

\* No file: nothing is stamped, nothing is listed.
LEMMA NoFiles ==
  /\ Unseen \in [Postings -> Stamps] /\ Empty \in Catalogs
  /\ Idle \in Jobs
  /\ \A t \in Times : Closed(t) \in Entries
  /\ None \in Entries /\ Open \in Entries
<1>1. None \in Entries /\ Open \in Entries /\ \A t \in Times : Closed(t) \in Entries
  BY DEF Entries
<1>2. Unseen \in [Postings -> Stamps]
  BY DEF Unseen, Stamps
<1>3. Empty \in Catalogs
  BY <1>1 DEF Empty, Catalogs
<1>4. "idle" \in Steps
  BY DEF Steps
<1> HIDE DEF Unseen, Empty, Steps
<1>5. Idle \in Jobs
  BY <1>2, <1>3, <1>4 DEF Idle, Jobs
<1> QED BY <1>1, <1>2, <1>3, <1>5

\* The three kinds of entry differ.
LEMMA EntryKinds ==
  /\ None.status = "none" /\ Open.status = "open"
  /\ \A t : Closed(t).status = "closed" /\ Closed(t).closed = t
  /\ None # Open /\ \A t : Closed(t) # None /\ Closed(t) # Open
BY DEF None, Open, Closed

\* An entry is brought up to date: it stays one; an entry that is dropped was closed
\* long ago; one that is closed had no site of its tenant unanswered and was not found.
LEMMA UpdatedEntry ==
  ASSUME TypeOK, job \in Jobs, NEW p \in Postings
  PROVE  /\ Updated(p) \in Entries
         /\ Updated(p) = None /\ job.catalog[p] # None =>
              job.catalog[p].status = "closed" /\ job.catalog[p].closed + ClosedRetention < now
         /\ job.catalog[p] = Open /\ Updated(p) # Open =>
              EmployerOf[p] \in KeyedTenants /\ p \notin job.present
<1> DEFINE entry == job.catalog[p]
           judged == IF EmployerOf[p] \notin KeyedTenants \/ entry = None THEN entry
                     ELSE IF p \in job.present THEN Open
                     ELSE IF entry = Open THEN Closed(now) ELSE entry
           renewed == IF p \in job.matches THEN Open ELSE judged
           gone == renewed.status = "closed" /\ renewed.closed + ClosedRetention < now
<1>1. Updated(p) = IF gone THEN None ELSE renewed
  BY DEF Updated
<1>2. entry \in Entries /\ now \in Times /\ Closed(now) \in Entries
  BY NoFiles DEF TypeOK, Catalogs
<1>3. Closed(now).closed = now /\ ~(now + ClosedRetention < now)
  BY EntryKinds, Instants
<1>4. renewed \in {entry, Open, Closed(now)}
  OBVIOUS
<1>5. renewed = Closed(now) => ~gone
  BY <1>3
<1>6. renewed = Open => ~gone
  BY EntryKinds
<1>7. Updated(p) \in Entries
  BY <1>1, <1>2, <1>4, NoFiles
<1>8. ASSUME Updated(p) = None, entry # None
      PROVE  entry.status = "closed" /\ entry.closed + ClosedRetention < now
  <2>1. CASE gone
    <3>1. renewed = entry
      BY <1>4, <1>5, <1>6, <2>1
    <3> QED BY <2>1, <3>1
  <2>2. CASE ~gone
    <3>1. renewed = None
      BY <1>1, <1>8, <2>2
    <3>2. renewed # Open /\ renewed # Closed(now)
      BY <3>1, EntryKinds
    <3> QED BY <1>4, <1>8, <3>1, <3>2
  <2> QED BY <2>1, <2>2
<1>9. ASSUME entry = Open, Updated(p) # Open
      PROVE  EmployerOf[p] \in KeyedTenants /\ p \notin job.present
  <2>1. renewed # Open
    BY <1>1, <1>6, <1>9
  <2> QED BY <2>1, <1>9, EntryKinds
<1> QED BY <1>7, <1>8, <1>9

-----------------------------------------------------------------------------
(* Every variable keeps its shape. *)

\* A field of the job is replaced.
LEMMA NextTypes ==
  TypeOK /\ job \in Jobs /\ Stamped /\ [Next]_vars => TypeOK' /\ (job \in Jobs)'
<1> SUFFICES ASSUME TypeOK, job \in Jobs, Stamped, [Next]_vars PROVE TypeOK' /\ job' \in Jobs
  OBVIOUS
<1>0. Idle.step \in Steps /\ Idle \in Jobs /\ Idle.answered = {} /\ Idle.todo = {}
      /\ Idle.mail = {} /\ Idle.matches = {} /\ Idle.present = {}
  BY NoFiles DEF Idle, Steps
<1>1. ASSUME NEW s \in Sites, NEW p \in Postings, PutUp(s, p) PROVE TypeOK' /\ job' \in Jobs
  BY <1>1 DEF PutUp, TypeOK
<1>2. ASSUME NEW s \in Sites, NEW p \in Postings, TakeDown(s, p) PROVE TypeOK' /\ job' \in Jobs
  BY <1>2 DEF TakeDown, TypeOK
<1>3. CASE CacheEvicted
  BY <1>3, NoFiles DEF CacheEvicted, TypeOK
<1>4. CASE Begin
  <2>1. now' \in Times /\ UNCHANGED <<live, cache, published, mailed>>
    BY <1>4, BoundsAssumption DEF Begin, TypeOK, Times
  <2>2. PICK fetched \in {TRUE, ~Unreachable} :
       LET catalog == IF fetched THEN published ELSE Empty
           cold == cache = Unseen
           seen == IF cold THEN Seeded(catalog, now') ELSE cache
       IN /\ job' = [Idle EXCEPT !.step = "polling", !.cold = cold, !.catalog = catalog,
                                 !.fetched = fetched, !.todo = Sites, !.seen = seen]
          /\ forgotten' = IF cold THEN forgotten \cup (Postings \ Listing(catalog))
                          ELSE forgotten
    BY <1>4 DEF Begin
  <2> DEFINE catalog == IF fetched THEN published ELSE Empty
             cold == cache = Unseen
             seen == IF cold THEN Seeded(catalog, now') ELSE cache
  <2>3. catalog \in Catalogs /\ cold \in BOOLEAN /\ fetched \in BOOLEAN
    BY BoundsAssumption, NoFiles DEF TypeOK
  <2>4. seen \in [Postings -> Stamps]
    <3>1. now' \in Stamps /\ Never \in Stamps
      BY <2>1 DEF Stamps
    <3> QED BY <3>1 DEF Seeded, TypeOK
  <2> HIDE DEF catalog, cold, seen
  <2>5. job' = [Idle EXCEPT !.step = "polling", !.cold = cold, !.catalog = catalog,
                            !.fetched = fetched, !.todo = Sites, !.seen = seen]
    BY <2>2 DEF catalog, cold, seen
  <2>6. job' \in Jobs /\ job'.answered = {} /\ job'.mail = {} /\ job'.matches = {}
    BY <1>0, <2>3, <2>4, <2>5 DEF Jobs, Steps
  <2>7. forgotten' \subseteq Postings
    BY <2>2 DEF TypeOK
  <2>8. steady' \subseteq {at \in Sites \X Postings : at[2] \in live'[at[1]]}
    BY <1>4 DEF Begin
  <2> QED BY <2>1, <2>6, <2>7, <2>8 DEF TypeOK, Jobs
<1>5. ASSUME NEW s \in Sites, Poll(s) PROVE TypeOK' /\ job' \in Jobs
  <2>0. PICK page \in SUBSET live[s] :
          \/ /\ job' = [job EXCEPT !.todo = @ \ {s}, !.answered = @ \cup {s},
                                   !.present = @ \cup page]
             /\ steady' = steady \ ({s} \X (live[s] \ page))
          \/ job' = [job EXCEPT !.todo = @ \ {s}] /\ UNCHANGED steady
    BY <1>5 DEF Poll
  <2> DEFINE todo == job.todo \ {s}
             answered == job.answered \cup {s}
             present == job.present \cup page
  <2>1. /\ todo \subseteq Sites /\ answered \subseteq Sites /\ present \subseteq Postings
        /\ answered \subseteq Sites \ todo /\ job.answered \subseteq Sites \ todo
        /\ job.matches \subseteq present
    BY DEF TypeOK, Jobs
  <2>2. \/ job' = [job EXCEPT !.todo = todo, !.answered = answered, !.present = present]
        \/ job' = [job EXCEPT !.todo = todo]
    BY <2>0
  <2>3. job.mail \subseteq job.matches /\ job.matches \subseteq job.present
    BY DEF TypeOK
  <2> HIDE DEF todo, answered, present
  <2>4. job' \in Jobs
    BY <2>1, <2>2 DEF Jobs
  <2>5. /\ job'.answered \subseteq Sites \ job'.todo /\ job'.mail \subseteq job'.matches
        /\ job'.matches \subseteq job'.present
    BY <2>1, <2>2, <2>3 DEF Jobs
  <2>6. steady' \subseteq {at \in Sites \X Postings : at[2] \in live[at[1]]}
    BY <2>0 DEF TypeOK
  <2> QED BY <1>5, <2>4, <2>5, <2>6 DEF Poll, TypeOK, Jobs
<1>6. CASE WriteSeen
  <2> DEFINE new == {p \in job.present : job.seen[p] = Never}
             stamped == [p \in Postings |-> IF p \in new THEN now ELSE job.seen[p]]
  <2>1. PICK matches \in SUBSET new :
          job' = [job EXCEPT !.step = "seen", !.seen = Pruned(stamped), !.matches = matches]
    BY <1>6 DEF WriteSeen
  <2>2. stamped \in [Postings -> Stamps] /\ Never \in Stamps
    BY Instants DEF TypeOK
  <2>3. Pruned(stamped) \in [Postings -> Stamps]
    BY <2>2 DEF Pruned
  <2>4. new \subseteq job.present /\ new \subseteq Postings
    BY DEF Jobs
  <2> HIDE DEF new, stamped
  <2>5. job' \in Jobs /\ job'.matches = matches /\ job'.present = job.present
        /\ job'.answered = job.answered /\ job'.todo = job.todo /\ job'.mail = job.mail
    BY <2>1, <2>3, <2>4 DEF Jobs, Steps
  <2>6. job.mail \subseteq matches
    BY <1>6 DEF TypeOK, Stamped, WriteSeen
  <2> QED BY <1>6, <2>4, <2>5, <2>6 DEF WriteSeen, TypeOK, Jobs
<1>7. CASE WriteCatalog
  <2>1. [p \in Postings |-> Updated(p)] \in Catalogs
    BY UpdatedEntry DEF Catalogs
  <2>2. job' \in Jobs /\ job'.matches = job.matches /\ job'.present = job.present
        /\ job'.answered = job.answered /\ job'.todo = job.todo
        /\ job'.mail \subseteq job'.matches
    <3> DEFINE catalog == [p \in Postings |-> Updated(p)]
               mail == IF job.cold THEN {} ELSE job.matches
    <3>1. mail \subseteq job.matches /\ mail \subseteq Postings
      BY DEF Jobs
    <3>2. job' = [job EXCEPT !.step = "hunted", !.catalog = catalog, !.mail = mail]
      BY <1>7 DEF WriteCatalog
    <3> HIDE DEF catalog, mail
    <3>3. catalog \in Catalogs
      BY <2>1 DEF catalog
    <3> QED BY <3>1, <3>2, <3>3 DEF Jobs, Steps
  <2> QED BY <1>7, <2>2 DEF WriteCatalog, TypeOK, Jobs
<1>8. CASE HuntFails
  <2>1. job' \in Jobs /\ job'.answered = {} /\ job'.mail = {} /\ job'.matches = {}
    <3> DEFINE seen == IF job.step = "polling" THEN cache ELSE job.seen
    <3>1. seen \in [Postings -> Stamps]
      BY DEF TypeOK
    <3>2. job' = [Idle EXCEPT !.step = "hunted", !.failed = TRUE, !.seen = seen]
      BY <1>8 DEF HuntFails
    <3> HIDE DEF seen
    <3> QED BY <1>0, <3>1, <3>2 DEF Jobs, Steps
  <2> QED BY <1>8, <2>1 DEF HuntFails, TypeOK, Jobs
<1>9. CASE SaveCache
  <2>1. job' \in Jobs /\ (job' = Idle \/ job' = [job EXCEPT !.step = "saved"])
    BY <1>0, <1>9 DEF SaveCache, Jobs, Steps
  <2>2. job'.mail \subseteq job'.matches /\ job'.matches \subseteq job'.present
        /\ job'.answered \subseteq Sites \ job'.todo
    BY <1>0, <2>1 DEF TypeOK, Jobs
  <2> QED BY <1>9, <2>1, <2>2 DEF SaveCache, TypeOK, Jobs
<1>10. CASE Mail
  <2>1. job' \in Jobs /\ (job' = Idle \/ job' = [job EXCEPT !.step = "mailed"])
    BY <1>0, <1>10 DEF Mail, Jobs, Steps
  <2>2. job'.mail \subseteq job'.matches /\ job'.matches \subseteq job'.present
        /\ job'.answered \subseteq Sites \ job'.todo
    BY <1>0, <2>1 DEF TypeOK, Jobs
  <2>3. mailed' \in [Postings -> Stamps] /\ forgotten' \subseteq Postings
    BY <1>10, Instants DEF Mail, TypeOK
  <2> QED BY <1>10, <2>1, <2>2, <2>3 DEF Mail, TypeOK, Jobs
<1>11. CASE Publish
  <2>1. published' \in Catalogs
    BY <1>11 DEF Publish, TypeOK
  <2> QED BY <1>0, <1>11, <2>1 DEF Publish, TypeOK, Jobs
<1>12. CASE RunnerLost
  BY <1>0, <1>12 DEF RunnerLost, TypeOK, Jobs
<1>13. CASE UNCHANGED vars
  BY <1>13 DEF vars, TypeOK
<1> QED
  BY <1>1, <1>2, <1>3, <1>4, <1>5, <1>6, <1>7, <1>8, <1>9, <1>10, <1>11, <1>12, <1>13
  DEF Next

-----------------------------------------------------------------------------
(* What a run found, what it works on. *)

\* No run is under way.
LEMMA IdleJob ==
  /\ Idle.step = "idle" /\ Idle.answered = {} /\ Idle.matches = {} /\ Idle.mail = {}
  /\ ~Idle.failed
BY DEF Idle

\* What stood during the whole run was seen by the site that answered.
LEMMA NextFound == TypeOK /\ job \in Jobs /\ Found /\ [Next]_vars => Found'
<1> SUFFICES ASSUME TypeOK, job \in Jobs, Found, [Next]_vars PROVE Found'
  OBVIOUS
<1>1. ASSUME NEW s \in Sites, NEW p \in Postings, PutUp(s, p) PROVE Found'
  BY <1>1 DEF PutUp, Found, TypeOK
<1>2. ASSUME NEW s \in Sites, NEW p \in Postings, TakeDown(s, p) PROVE Found'
  BY <1>2 DEF TakeDown, Found, TypeOK
<1>3. CASE CacheEvicted
  BY <1>3 DEF CacheEvicted, Found
<1>4. CASE Begin
  <2>1. UNCHANGED live /\ job'.answered = {}
    BY <1>4, NoFiles DEF Begin, Idle
  <2> QED BY <2>1 DEF Found
<1>5. ASSUME NEW s \in Sites, Poll(s) PROVE Found'
  <2>0. PICK page \in SUBSET live[s] :
          \/ /\ job' = [job EXCEPT !.todo = @ \ {s}, !.answered = @ \cup {s},
                                   !.present = @ \cup page]
             /\ steady' = steady \ ({s} \X (live[s] \ page))
          \/ job' = [job EXCEPT !.todo = @ \ {s}] /\ UNCHANGED steady
    BY <1>5 DEF Poll
  <2> DEFINE todo == job.todo \ {s}
             answered == job.answered \cup {s}
             present == job.present \cup page
  <2>1. \/ /\ job' = [job EXCEPT !.todo = todo, !.answered = answered, !.present = present]
           /\ steady' = steady \ ({s} \X (live[s] \ page))
        \/ job' = [job EXCEPT !.todo = todo] /\ steady' = steady
    BY <2>0
  <2>2. ASSUME NEW r \in answered, NEW p \in Postings,
               <<r, p>> \in steady \ ({s} \X (live[s] \ page))
        PROVE p \in present
    <3>1. <<r, p>>[1] = r /\ <<r, p>>[2] = p
      OBVIOUS
    <3>2. p \in live[r]
      BY <2>2, <3>1 DEF TypeOK
    <3>3. CASE r = s
      BY <2>2, <3>2, <3>3
    <3>4. CASE r # s
      BY <2>2, <3>4 DEF Found
    <3> QED BY <3>3, <3>4
  <2> HIDE DEF todo, answered, present
  <2>3. \/ /\ job'.answered = answered /\ job'.present = present
           /\ steady' = steady \ ({s} \X (live[s] \ page))
        \/ job'.answered = job.answered /\ job'.present = job.present /\ steady' = steady
    BY <2>1 DEF Jobs
  <2>4. ASSUME NEW r \in job'.answered, NEW p \in Postings, <<r, p>> \in steady'
        PROVE p \in job'.present
    <3>1. CASE job'.answered = answered /\ job'.present = present
                 /\ steady' = steady \ ({s} \X (live[s] \ page))
      BY <2>2, <2>4, <3>1
    <3>2. CASE job'.answered = job.answered /\ job'.present = job.present /\ steady' = steady
      BY <2>4, <3>2 DEF Found
    <3> QED BY <2>3, <3>1, <3>2
  <2> QED BY <1>5, <2>4 DEF Poll, Found
<1>6. CASE WriteSeen
  <2>1. job'.answered = job.answered /\ job'.present = job.present
    BY <1>6 DEF WriteSeen, Jobs
  <2> QED BY <1>6, <2>1 DEF WriteSeen, Found
<1>7. CASE WriteCatalog
  BY <1>7 DEF WriteCatalog, Found
<1>8. CASE HuntFails
  BY <1>8 DEF HuntFails, Found
<1>9. CASE SaveCache
  <2>1. CASE job' = Idle
    BY <1>9, <2>1, IdleJob DEF SaveCache, Found
  <2>2. CASE job' = [job EXCEPT !.step = "saved"]
    <3>1. job'.answered = job.answered /\ job'.present = job.present
      BY <2>2 DEF Jobs
    <3> QED BY <1>9, <3>1 DEF SaveCache, Found
  <2> QED BY <1>9, <2>1, <2>2 DEF SaveCache
<1>10. CASE Mail
  <2>1. CASE job' = Idle
    BY <1>10, <2>1, IdleJob DEF Mail, Found
  <2>2. CASE job' = [job EXCEPT !.step = "mailed"]
    <3>1. job'.answered = job.answered /\ job'.present = job.present
      BY <2>2 DEF Jobs
    <3> QED BY <1>10, <3>1 DEF Mail, Found
  <2> QED BY <1>10, <2>1, <2>2 DEF Mail
<1>11. CASE Publish
  BY <1>11, IdleJob DEF Publish, Found
<1>12. CASE RunnerLost
  BY <1>12, IdleJob DEF RunnerLost, Found
<1>13. CASE UNCHANGED vars
  BY <1>13 DEF vars, Found
<1> QED
  BY <1>1, <1>2, <1>3, <1>4, <1>5, <1>6, <1>7, <1>8, <1>9, <1>10, <1>11, <1>12, <1>13
  DEF Next

\* The catalogue on the data branch moves at the end of a job alone, so a run that
\* fetched it judges what is still there.
LEMMA NextCarried == TypeOK /\ job \in Jobs /\ Carried /\ [Next]_vars => Carried'
<1> SUFFICES ASSUME TypeOK, job \in Jobs, Carried, [Next]_vars PROVE Carried'
  OBVIOUS
<1>0. ASSUME job' = Idle PROVE Carried'
  BY <1>0, IdleJob DEF Carried, Judged
<1>1. ASSUME NEW s \in Sites, NEW p \in Postings, PutUp(s, p) \/ TakeDown(s, p) PROVE Carried'
  BY <1>1 DEF PutUp, TakeDown, Carried, Judged
<1>2. CASE CacheEvicted
  BY <1>2 DEF CacheEvicted, Carried, Judged
<1>3. CASE Begin
  <2>1. job'.step = "polling" /\ (job'.fetched => job'.catalog = published)
        /\ UNCHANGED published
    BY <1>3 DEF Begin, Idle
  <2> QED BY <2>1 DEF Carried, Judged
<1>4. ASSUME NEW s \in Sites, Poll(s) PROVE Carried'
  <2>1. /\ job'.step = job.step /\ job'.fetched = job.fetched
        /\ job'.catalog = job.catalog /\ job'.failed = job.failed
        /\ UNCHANGED <<published, now>>
    BY <1>4 DEF Poll, Jobs
  <2> QED BY <2>1 DEF Carried, Judged
<1>5. CASE WriteSeen
  <2>1. /\ job.step = "polling" /\ job'.step = "seen" /\ job'.fetched = job.fetched
        /\ job'.catalog = job.catalog /\ UNCHANGED <<published, now>>
    BY <1>5 DEF WriteSeen, Jobs
  <2> QED BY <2>1 DEF Carried, Judged
<1>6. CASE WriteCatalog
  <2> DEFINE catalog == [p \in Postings |-> Updated(p)]
             mail == IF job.cold THEN {} ELSE job.matches
  <2>1. job' = [job EXCEPT !.step = "hunted", !.catalog = catalog, !.mail = mail]
    BY <1>6 DEF WriteCatalog
  <2>2. \A p \in Postings : catalog[p] = Updated(p)
    OBVIOUS
  <2> HIDE DEF catalog, mail
  <2>3. job'.step = "hunted" /\ job'.catalog = catalog /\ job'.fetched = job.fetched
    BY <2>1 DEF Jobs
  <2>4. job.step = "seen" /\ UNCHANGED <<published, now>>
    BY <1>6 DEF WriteCatalog
  <2>5. ASSUME job.fetched, NEW p \in Postings, published[p] # None, catalog[p] = None
        PROVE  published[p].status = "closed" /\ published[p].closed + ClosedRetention < now
    <3>1. job.catalog = published
      BY <2>4, <2>5 DEF Carried
    <3> QED BY <2>2, <2>5, <3>1, UpdatedEntry
  <2> QED BY <2>3, <2>4, <2>5 DEF Carried, Judged
<1>7. CASE HuntFails
  <2>1. job'.step = "hunted" /\ job'.failed
    BY <1>7 DEF HuntFails, Idle
  <2> QED BY <2>1 DEF Carried, Judged
<1>8. CASE SaveCache
  <2>1. ASSUME job' # Idle PROVE Carried'
    <3>1. /\ Judged /\ job'.step = "saved" /\ job'.fetched = job.fetched
          /\ job'.catalog = job.catalog /\ UNCHANGED <<published, now>>
      BY <1>8, <2>1 DEF SaveCache, Jobs, Judged
    <3> QED BY <3>1 DEF Carried
  <2> QED BY <1>0, <2>1
<1>9. CASE Mail
  <2>1. ASSUME job' # Idle PROVE Carried'
    <3>1. /\ job.step = "saved" /\ job'.step = "mailed" /\ job'.fetched = job.fetched
          /\ job'.catalog = job.catalog /\ job'.failed = job.failed
          /\ UNCHANGED <<published, now>>
      BY <1>9, <2>1 DEF Mail, Jobs
    <3> QED BY <3>1 DEF Carried, Judged
  <2> QED BY <1>0, <2>1
<1>10. CASE Publish \/ RunnerLost
  BY <1>0, <1>10 DEF Publish, RunnerLost
<1>11. CASE UNCHANGED vars
  BY <1>11 DEF vars, Carried, Judged
<1> QED BY <1>1, <1>2, <1>3, <1>4, <1>5, <1>6, <1>7, <1>8, <1>9, <1>10, <1>11 DEF Next

-----------------------------------------------------------------------------
(* What is stamped and what is due. *)

\* A stamp survives the pruning as long as it counts, and a posting whose stamp does
\* not survive is due.
LEMMA PrunedStamp ==
  ASSUME TypeOK, job \in Jobs, NEW stamped \in [Postings -> Stamps], NEW p \in Postings
  PROVE  /\ stamped[p] = now => Pruned(stamped)[p] = now
         /\ (Due(p) \/ stamped[p] >= mailed[p]) => (Due(p) \/ Pruned(stamped)[p] >= mailed[p])
<1>1. stamped[p] \in Nat /\ now \in Nat /\ Retention \in Nat /\ mailed[p] \in Nat
  BY Instants
<1>2. Pruned(stamped)[p] = IF stamped[p] + Retention < now THEN Never ELSE stamped[p]
  BY DEF Pruned
<1>3. ASSUME stamped[p] + Retention < now, stamped[p] >= mailed[p] PROVE Due(p)
  BY <1>1, <1>3 DEF Due
<1> QED BY <1>1, <1>2, <1>3

\* Nothing that Stamped speaks of moves.
LEMMA StillStamped ==
  Stamped
  /\ UNCHANGED <<now, mailed, forgotten, cache>>
  /\ (job'.step \notin {"polling", "seen", "hunted", "saved"}
      \/ /\ job'.step = job.step /\ job'.failed = job.failed /\ job'.seen = job.seen
         /\ job'.matches = job.matches)
  => Stamped'
BY DEF Stamped, Due

\* The stamps of the run reach the cache before its mail does.
LEMMA NextStamped == TypeOK /\ job \in Jobs /\ Stamped /\ [Next]_vars => Stamped'
<1> SUFFICES ASSUME TypeOK, job \in Jobs, Stamped, [Next]_vars PROVE Stamped'
  OBVIOUS
<1>0. ASSUME job' = Idle, UNCHANGED <<now, mailed, forgotten, cache>> PROVE Stamped'
  BY <1>0, IdleJob, StillStamped
<1>1. ASSUME NEW s \in Sites, NEW p \in Postings, PutUp(s, p) \/ TakeDown(s, p) PROVE Stamped'
  BY <1>1, StillStamped DEF PutUp, TakeDown
<1>2. CASE CacheEvicted
  BY <1>2, IdleJob DEF CacheEvicted, Stamped, Due
<1>3. CASE Begin
  <2>1. PICK fetched \in {TRUE, ~Unreachable} :
       LET catalog == IF fetched THEN published ELSE Empty
           cold == cache = Unseen
           seen == IF cold THEN Seeded(catalog, now') ELSE cache
       IN /\ job' = [Idle EXCEPT !.step = "polling", !.cold = cold, !.catalog = catalog,
                                 !.fetched = fetched, !.todo = Sites, !.seen = seen]
          /\ forgotten' = IF cold THEN forgotten \cup (Postings \ Listing(catalog))
                          ELSE forgotten
    BY <1>3 DEF Begin
  <2> DEFINE catalog == IF fetched THEN published ELSE Empty
             cold == cache = Unseen
             seen == IF cold THEN Seeded(catalog, now') ELSE cache
  <2>2. forgotten' = IF cold THEN forgotten \cup (Postings \ Listing(catalog)) ELSE forgotten
    BY <2>1
  <2>3. now' = now + 1 /\ UNCHANGED <<mailed, cache>>
    BY <1>3 DEF Begin
  <2>4. \A p \in Postings : Due(p) => Due(p)'
    BY <2>2, <2>3, Instants DEF Due
  <2>5. \A p \in Postings : mailed'[p] <= now'
    BY <2>3, Instants DEF Stamped
  <2>6. \A p \in Postings : Due(p)' \/ seen[p] >= mailed'[p]
    <3>1. CASE cold
      <4>1. ASSUME NEW p \in Postings PROVE Due(p)' \/ seen[p] >= mailed'[p]
        <5>1. CASE p \in Listing(catalog)
          <6>1. seen[p] = now'
            BY <3>1, <5>1 DEF Seeded, Listing
          <6> QED BY <2>5, <6>1, <2>3, Instants
        <5>2. CASE p \notin Listing(catalog)
          BY <2>2, <3>1, <5>2 DEF Due
        <5> QED BY <5>1, <5>2
      <4> QED BY <4>1
    <3>2. CASE ~cold
      BY <2>3, <2>4, <3>2 DEF Stamped
    <3> QED BY <3>1, <3>2
  <2>7. job' = [Idle EXCEPT !.step = "polling", !.cold = cold, !.catalog = catalog,
                            !.fetched = fetched, !.todo = Sites, !.seen = seen]
    BY <2>1
  <2> HIDE DEF catalog, cold, seen
  <2>8. job'.step = "polling" /\ job'.seen = seen /\ job'.matches = {} /\ ~job'.failed
    BY <2>7 DEF Idle
  <2>9. (cache # Unseen => \A p \in Postings : Due(p) \/ cache[p] >= mailed[p])'
    BY <2>3, <2>4 DEF Stamped, Unseen
  <2> QED BY <2>5, <2>6, <2>8, <2>9 DEF Stamped
<1>4. ASSUME NEW s \in Sites, Poll(s) PROVE Stamped'
  <2>1. /\ job'.step = job.step /\ job'.failed = job.failed /\ job'.seen = job.seen
        /\ job'.matches = job.matches /\ UNCHANGED <<now, mailed, forgotten, cache>>
    BY <1>4 DEF Poll, Jobs
  <2> QED BY <2>1, StillStamped
<1>5. CASE WriteSeen
  <2> DEFINE new == {p \in job.present : job.seen[p] = Never}
             stamped == [p \in Postings |-> IF p \in new THEN now ELSE job.seen[p]]
  <2>1. PICK matches \in SUBSET new :
          job' = [job EXCEPT !.step = "seen", !.seen = Pruned(stamped), !.matches = matches]
    BY <1>5 DEF WriteSeen
  <2>2. job.step = "polling" /\ UNCHANGED <<now, mailed, forgotten, cache>>
    BY <1>5 DEF WriteSeen
  <2>3. stamped \in [Postings -> Stamps]
    BY Instants DEF TypeOK
  <2>4. \A p \in Postings : Due(p) \/ job.seen[p] >= mailed[p]
    BY <2>2 DEF Stamped
  <2>5. \A p \in Postings : Due(p) \/ stamped[p] >= mailed[p]
    BY <2>4, Instants DEF Stamped
  <2>6. \A p \in matches : p \in Postings /\ stamped[p] = now /\ Due(p)
    <3>1. ASSUME NEW p \in matches PROVE p \in Postings /\ stamped[p] = now /\ Due(p)
      <4>1. p \in new /\ p \in Postings /\ job.seen[p] = Never
        BY DEF Jobs
      <4>2. Due(p)
        BY <2>4, <4>1, Instants DEF Due
      <4> QED BY <4>1, <4>2
    <3> QED BY <3>1
  <2> HIDE DEF new, stamped
  <2>7. \A p \in Postings : Due(p) \/ Pruned(stamped)[p] >= mailed[p]
    BY <2>3, <2>5, PrunedStamp
  <2>8. \A p \in matches : Pruned(stamped)[p] = now
    BY <2>3, <2>6, PrunedStamp
  <2>9. /\ job'.step = "seen" /\ job'.seen = Pruned(stamped) /\ job'.matches = matches
        /\ job'.failed = job.failed
    BY <2>1 DEF Jobs
  <2> HIDE DEF Pruned
  <2> QED BY <2>2, <2>6, <2>7, <2>8, <2>9 DEF Stamped, Due
<1>6. CASE WriteCatalog
  <2> DEFINE catalog == [p \in Postings |-> Updated(p)]
             mail == IF job.cold THEN {} ELSE job.matches
  <2>1. job' = [job EXCEPT !.step = "hunted", !.catalog = catalog, !.mail = mail]
    BY <1>6 DEF WriteCatalog
  <2> HIDE DEF catalog, mail
  <2>2. job'.step = "hunted" /\ job'.seen = job.seen /\ job'.matches = job.matches
    BY <2>1 DEF Jobs
  <2>3. job.step = "seen" /\ UNCHANGED <<now, mailed, forgotten, cache>>
    BY <1>6 DEF WriteCatalog
  <2> QED BY <2>2, <2>3 DEF Stamped, Due
<1>7. CASE HuntFails
  <2>1. /\ job'.step = "hunted" /\ job'.failed /\ job'.matches = {}
        /\ job'.seen = IF job.step = "polling" THEN cache ELSE job.seen
    BY <1>7 DEF HuntFails, Idle
  <2>2. job.step \in {"polling", "seen"} /\ UNCHANGED <<now, mailed, forgotten, cache>>
    BY <1>7 DEF HuntFails
  <2>3. job'.seen = Unseen \/ \A p \in Postings : Due(p) \/ job'.seen[p] >= mailed[p]
    BY <2>1, <2>2 DEF Stamped
  <2>4. ((job.failed /\ job.seen = Unseen)
         \/ \A p \in Postings : Due(p) \/ job.seen[p] >= mailed[p])'
    BY <2>1, <2>2, <2>3 DEF Due, Unseen
  <2> QED BY <2>1, <2>2, <2>4 DEF Stamped, Due
<1>8. CASE SaveCache
  <2>1. /\ job.step = "hunted" /\ cache' = job.seen /\ UNCHANGED <<now, mailed, forgotten>>
        /\ job' = IF job.failed THEN Idle ELSE [job EXCEPT !.step = "saved"]
    BY <1>8 DEF SaveCache
  <2>2. cache' # Unseen => \A p \in Postings : Due(p) \/ cache'[p] >= mailed[p]
    BY <2>1 DEF Stamped
  <2>3. \A p \in job.matches : Due(p) /\ cache'[p] = now
    BY <2>1 DEF Stamped
  <2>4. CASE job' = Idle
    BY <2>1, <2>2, <2>4, IdleJob DEF Stamped, Due, Unseen
  <2>5. CASE job' = [job EXCEPT !.step = "saved"]
    <3>1. job'.step = "saved" /\ job'.matches = job.matches
      BY <2>5 DEF Jobs
    <3> QED BY <2>1, <2>2, <2>3, <3>1 DEF Stamped, Due, Unseen
  <2> QED BY <2>1, <2>4, <2>5
<1>9. CASE Mail
  <2>1. job.step = "saved" /\ UNCHANGED <<now, cache>>
    BY <1>9 DEF Mail
  <2>2. CASE job' = Idle /\ UNCHANGED <<mailed, forgotten>>
    BY <1>0, <2>1, <2>2
  <2>3. CASE /\ job' = [job EXCEPT !.step = "mailed"]
             /\ mailed' = [p \in Postings |-> IF p \in job.mail THEN now ELSE mailed[p]]
             /\ forgotten' = forgotten \ job.mail
    <3>1. job'.step = "mailed"
      BY <2>3 DEF Jobs
    <3>2. \A p \in job.mail : p \in Postings /\ cache[p] = now
      BY <2>1 DEF Stamped, TypeOK, Jobs
    <3>3. \A p \in Postings : mailed'[p] = IF p \in job.mail THEN now ELSE mailed[p]
      BY <2>3
    <3>4. \A p \in Postings : mailed'[p] <= now'
      BY <2>1, <3>3, Instants DEF Stamped
    <3>5. ASSUME cache # Unseen, NEW p \in Postings PROVE Due(p)' \/ cache[p] >= mailed'[p]
      <4>1. CASE p \in job.mail
        BY <3>2, <3>3, <4>1, Instants
      <4>2. CASE p \notin job.mail
        <5>1. Due(p) \/ cache[p] >= mailed[p]
          BY <3>5 DEF Stamped
        <5> QED BY <2>1, <2>3, <3>3, <4>2, <5>1 DEF Due
      <4> QED BY <4>1, <4>2
    <3> QED BY <2>1, <3>1, <3>4, <3>5 DEF Stamped, Unseen
  <2> QED BY <1>9, <2>2, <2>3 DEF Mail
<1>10. CASE Publish \/ RunnerLost
  BY <1>0, <1>10 DEF Publish, RunnerLost
<1>11. CASE UNCHANGED vars
  BY <1>11, StillStamped DEF vars
<1> QED BY <1>1, <1>2, <1>3, <1>4, <1>5, <1>6, <1>7, <1>8, <1>9, <1>10, <1>11 DEF Next

-----------------------------------------------------------------------------
(* The theorems. *)

\* The program starts with two silent or telling runs behind it.
LEMMA InitInv == Init => IInv
<1> SUFFICES ASSUME Init PROVE IInv
  OBVIOUS
<1>1. job = Idle /\ now = 2 /\ steady = {} /\ forgotten = {} /\ {1, 2} \subseteq Times
  BY BoundsAssumption DEF Init, Times
<1>2. cache \in [Postings -> {Never, 1, 2}]
  BY DEF Init
<1>3. cache \in [Postings -> Stamps]
  BY <1>1, <1>2 DEF Stamps
<1>4. PICK matches \in SUBSET {p \in Postings : cache[p] # Never} :
       /\ published = [p \in Postings |-> IF p \in matches THEN Open ELSE None]
       /\ \E mail \in {{}, matches} :
            mailed = [p \in Postings |-> IF p \in mail THEN cache[p] ELSE Never]
  BY DEF Init
<1>5. PICK mail \in {{}, matches} :
         mailed = [p \in Postings |-> IF p \in mail THEN cache[p] ELSE Never]
  BY <1>4
<1>6. published \in Catalogs
  BY <1>4, NoFiles DEF Catalogs
<1>7. mailed \in [Postings -> Stamps]
  BY <1>3, <1>5 DEF Stamps
<1>8. \A p \in Postings : mailed[p] <= 2 /\ cache[p] >= mailed[p]
  BY <1>2, <1>5 DEF Never
<1>9. TypeOK
  <2>1. live \in [Sites -> SUBSET Postings]
    BY DEF Init
  <2>2. /\ Idle.step \in Steps /\ Idle.seen \in [Postings -> Stamps] /\ Idle.catalog \in Catalogs
        /\ Idle.todo = {} /\ Idle.answered = {} /\ Idle.mail = {} /\ Idle.matches = {}
        /\ Idle.present = {} /\ {Idle.cold, Idle.failed, Idle.fetched} \subseteq BOOLEAN
    BY NoFiles DEF Idle, Steps
  <2> QED BY <1>1, <1>3, <1>6, <1>7, <2>1, <2>2 DEF TypeOK
<1>10. job \in Jobs
  BY <1>1, NoFiles
<1>11. Found
  BY <1>1, IdleJob DEF Found, Init
<1>12. Carried
  BY <1>1, IdleJob DEF Carried, Judged
<1>13. Stamped
  BY <1>1, <1>8, IdleJob DEF Stamped
<1> QED BY <1>9, <1>10, <1>11, <1>12, <1>13 DEF IInv

\* Types, what a run found and works on, and what is stamped hold together, for every
\* roster, every number of postings and runs, and every retention.
THEOREM Invariance == Spec => []IInv
<1>1. IInv /\ [Next]_vars => IInv'
  BY NextTypes, NextFound, NextCarried, NextStamped DEF IInv
<1> QED BY InitInv, <1>1, PTL DEF Spec

\* Every file and every run under way keeps its shape.
THEOREM TypeCorrect == Spec => []TypeOK
<1>1. IInv => TypeOK
  BY DEF IInv
<1> QED BY Invariance, <1>1, PTL

\* The mail of a run names a posting again only when its stamp has expired or a run
\* before it started without the seen file: the cache is saved before the mail is sent
\* and whatever becomes of the run.
THEOREM MailsOnce == Spec => MailedOnce
<1> DEFINE Step == \A p \in Postings :
             mailed'[p] # mailed[p] /\ mailed[p] # Never /\ p \notin forgotten
               => now > mailed[p] + Retention
<1>1. IInv /\ [Next]_vars => [Step]_vars
  <2> SUFFICES ASSUME IInv, Next PROVE Step
    BY DEF vars
  <2>1. CASE Mail
    <3>1. \A p \in job.mail : Due(p)
      BY <2>1 DEF Mail, IInv, Stamped, TypeOK
    <3>2. \A p \in Postings : p \in job.mail \/ mailed'[p] = mailed[p]
      BY <2>1 DEF Mail, IInv, TypeOK
    <3> QED BY <3>1, <3>2 DEF Due
  <2>2. CASE ~Mail
    <3>1. UNCHANGED mailed
      BY <2>2 DEF Next, PutUp, TakeDown, CacheEvicted, Begin, Poll, WriteSeen, WriteCatalog,
                  HuntFails, SaveCache, Publish, RunnerLost
    <3> QED BY <3>1
  <2> QED BY <2>1, <2>2
<1> QED BY Invariance, <1>1, PTL DEF Spec, MailedOnce

\* A posting that stood on some site during the whole run is not closed by it: its
\* tenant counts as polled only when all its sites answered, and then it was found.
THEOREM StaysOpen == Spec => OpenWhileListed
<1> DEFINE Step == \A p \in Postings :
             job.step = "seen" /\ job'.step = "hunted" /\ ~job'.failed
               /\ job.catalog[p] = Open /\ job'.catalog[p] # Open
               => \A s \in Sites : <<s, p>> \notin steady
<1>1. IInv /\ [Next]_vars => [Step]_vars
  <2> SUFFICES ASSUME IInv, Next, NEW p \in Postings,
                      job.step = "seen", job'.step = "hunted", ~job'.failed,
                      job.catalog[p] = Open, job'.catalog[p] # Open,
                      NEW s \in Sites, <<s, p>> \in steady
               PROVE  FALSE
    BY DEF vars
  <2>1. WriteCatalog
    <3>1. ~Mail /\ ~Publish /\ ~SaveCache /\ ~WriteSeen /\ ~CacheEvicted /\ ~Begin
      BY IdleJob DEF Mail, Publish, SaveCache, WriteSeen, CacheEvicted, Begin
    <3>2. \A r \in Sites, q \in Postings : ~PutUp(r, q) /\ ~TakeDown(r, q) /\ ~Poll(r)
      BY DEF PutUp, TakeDown, Poll, Changing
    <3>3. ~RunnerLost
      BY IdleJob DEF RunnerLost
    <3>4. ~HuntFails
      BY DEF HuntFails, Idle
    <3> QED BY <3>1, <3>2, <3>3, <3>4 DEF Next
  <2>2. job'.catalog = [q \in Postings |-> Updated(q)]
    <3> DEFINE catalog == [q \in Postings |-> Updated(q)]
               mail == IF job.cold THEN {} ELSE job.matches
    <3>1. job' = [job EXCEPT !.step = "hunted", !.catalog = catalog, !.mail = mail]
      BY <2>1 DEF WriteCatalog
    <3> HIDE DEF catalog, mail
    <3>2. job'.catalog = catalog
      BY <3>1 DEF IInv, Jobs
    <3> QED BY <3>2 DEF catalog
  <2>3. EmployerOf[p] \in KeyedTenants /\ p \notin job.present
    BY <2>2, UpdatedEntry DEF IInv
  <2>4. <<s, p>>[1] = s /\ <<s, p>>[2] = p
    OBVIOUS
  <2>5. p \in live[s]
    BY <2>4 DEF IInv, TypeOK
  <2>6. s \in SitesOf(EmployerOf[p])
    BY <2>5 DEF IInv, Found, SitesOf
  <2>7. s \in job.answered
    BY <2>3, <2>6 DEF KeyedTenants, PolledTenants
  <2> QED BY <2>3, <2>7 DEF IInv, Found
<1> QED BY Invariance, <1>1, PTL DEF Spec, OpenWhileListed

\* A run that could fetch the published catalogue takes nothing from it but what was
\* closed in it for the retention, whatever became of the runs before.
THEOREM LeavesWhenLongClosed == Spec => DroppedWhenLongClosed
<1> DEFINE Step == \A p \in Postings :
             published[p] # None /\ published'[p] = None
               => \/ published[p].status = "closed"
                     /\ published[p].closed + ClosedRetention < now
                  \/ ~job.fetched
<1>1. IInv /\ [Next]_vars => [Step]_vars
  <2> SUFFICES ASSUME IInv, Next PROVE Step
    BY DEF vars
  <2>1. CASE Publish
    <3>1. Judged
      BY <2>1 DEF Publish, Judged
    <3>2. published' = job.catalog \/ published' = published
      BY <2>1 DEF Publish
    <3> QED BY <3>1, <3>2 DEF IInv, Carried
  <2>2. CASE ~Publish
    <3>1. UNCHANGED published
      BY <2>2 DEF Next, PutUp, TakeDown, CacheEvicted, Begin, Poll, WriteSeen, WriteCatalog,
                  HuntFails, SaveCache, Mail, RunnerLost
    <3> QED BY <3>1
  <2> QED BY <2>1, <2>2
<1> QED BY Invariance, <1>1, PTL DEF Spec, DroppedWhenLongClosed

=============================================================================
