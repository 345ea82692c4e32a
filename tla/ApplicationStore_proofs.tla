----------------------- MODULE ApplicationStore_proofs -----------------------
(***************************************************************************)
(* What TLAPS proves about ApplicationStore for any set of managers and     *)
(* queue ids.  Two inductive invariants.  GInv holds whatever managers      *)
(* share the file: a registered owner leaves the table workers only by its  *)
(* own close() or when its process is dead, so the worker lock cannot be    *)
(* taken over from a live process.  EInv holds when every manager takes the *)
(* lock: then only the lock holder claims and writes, every claim in the    *)
(* file is its own, recover() has nothing to release, and its cache is the  *)
(* file whenever it writes.                                                 *)
(***************************************************************************)
EXTENDS ApplicationStore, TLAPS

-----------------------------------------------------------------------------
(* The invariant of any set of managers. *)

\* A live manager that finished its constructor is registered ...
RegisteredListed == \A o \in Owners : phase[o] \in Registered => o \in workers

\* ... and a registered owner is alive or died without close().
ListedKnown ==
  \A o \in Owners :
    o \in workers => phase[o] \in Registered \cup {"crashed", "recycled"}

\* A worker past acquireWorkerLock is the one the metadata row names.
LockHeld == \A o \in Owners : phase[o] = "locked" => lock = o

\* A claim is released no later than the registration of its owner.
OwnerListed == \A j \in Jobs : row[j].owner # NoOne => row[j].owner \in workers

\* Only a working manager is in the middle of a call.
CallServed == \A o \in Owners : call[o] # Idle => Working(o)

\* Rows are never deleted: what a manager knows of has a row.
KnownStored ==
  \A o \in Owners, j \in Jobs :
    cache[o][j] # "none" \/ running[o] = j \/ call[o] = [kind |-> "persist", job |-> j]
      => row[j].status # "none"

GInv ==
  /\ TypeOK /\ RegisteredListed /\ ListedKnown /\ LockHeld /\ OwnerListed
  /\ CallServed /\ KnownStored /\ OneRowPerRequisition

-----------------------------------------------------------------------------
(* recover(). *)

\* A row either survives recover() or was a claim and is parked.
LEMMA RecoveredRows ==
  ASSUME TypeOK, NEW expired \in SUBSET Jobs
  PROVE  /\ Recovered(expired) \in [Jobs -> Rows]
         /\ \A j \in Jobs :
              \/ Recovered(expired)[j] = row[j]
              \/ /\ row[j].status = "applying"
                 /\ Recovered(expired)[j].status = "paused_for_review"
                 /\ Recovered(expired)[j].owner = NoOne
  <1>1. ASSUME NEW r \in Rows
        PROVE  /\ Paused(r) \in Rows
               /\ Paused(r).status = "paused_for_review" /\ Paused(r).owner = NoOne
    BY DEF Rows, Paused, Statuses
  <1>2. \A j \in Jobs : row[j] \in Rows
    BY DEF TypeOK
  <1>3. \A j \in Jobs :
          \/ Recovered(expired)[j] = row[j]
          \/ row[j].status = "applying" /\ Recovered(expired)[j] = Paused(row[j])
    BY DEF Recovered
  <1>4. Recovered(expired) = [j \in Jobs |-> Recovered(expired)[j]]
    BY DEF Recovered
  <1>5. \A j \in Jobs : Recovered(expired)[j] \in Rows
    BY <1>1, <1>2, <1>3
  <1> QED BY <1>1, <1>2, <1>3, <1>4, <1>5

\* No claim of a worker that recover() deletes is left.
LEMMA RecoveredOwners ==
  ASSUME TypeOK, OwnerListed, NEW expired \in SUBSET Jobs, NEW j \in Jobs,
         Recovered(expired)[j].owner # NoOne
  PROVE  /\ Recovered(expired)[j] = row[j]
         /\ row[j].owner \in workers \ Dead
  <1>1. Recovered(expired)[j] = row[j]
    BY RecoveredRows
  <1>2. row[j].status = "applying" /\ row[j].owner \in workers
    BY <1>1 DEF TypeOK, OwnerListed
  <1>3. row[j].owner \notin Dead
    <2>1. ASSUME row[j].owner \in Dead PROVE FALSE
      <3>1. Recovered(expired)[j] = Paused(row[j])
        BY <1>2, <2>1 DEF Recovered
      <3>2. Paused(row[j]).status = "paused_for_review"
        BY DEF Paused, TypeOK, Rows
      <3> QED BY <1>1, <1>2, <3>1, <3>2
    <2> QED BY <2>1
  <1> QED BY <1>1, <1>2, <1>3

\* recover() takes no claim from a registered owner that is not dead.
LEMMA RecoveredAlive ==
  ASSUME OwnerListed, NEW expired \in SUBSET Jobs, NEW j \in Jobs,
         row[j].owner # NoOne, row[j].owner \notin Dead
  PROVE  Recovered(expired)[j] = row[j]
  BY DEF OwnerListed, Recovered

-----------------------------------------------------------------------------
LEMMA IdleStores == \A j : Idle # [kind |-> "persist", job |-> j]
  <1>1. \A j : [kind |-> "persist", job |-> j].kind # Idle.kind
    BY DEF Idle
  <1> QED BY <1>1

\* A step that learns of no job but those that have a row.
LEMMA KnowledgeKept ==
  ASSUME KnownStored,
         \A j \in Jobs : row[j].status # "none" => row'[j].status # "none",
         \A p \in Owners, j \in Jobs :
           cache'[p][j] # "none" => cache[p][j] # "none" \/ row'[j].status # "none",
         \A p \in Owners, j \in Jobs :
           running'[p] = j => running[p] = j \/ row'[j].status # "none",
         \A p \in Owners : call'[p] = Idle \/ call'[p] = call[p]
  PROVE  KnownStored'
  <1> SUFFICES ASSUME NEW p \in Owners, NEW j \in Jobs,
                      \/ cache'[p][j] # "none" \/ running'[p] = j
                      \/ call'[p] = [kind |-> "persist", job |-> j]
               PROVE  row'[j].status # "none"
    BY DEF KnownStored
  <1>1. CASE cache'[p][j] # "none" \/ running'[p] = j
    BY <1>1 DEF KnownStored
  <1>2. CASE call'[p] = [kind |-> "persist", job |-> j]
    <2>1. call[p] = [kind |-> "persist", job |-> j]
      BY <1>2, IdleStores
    <2> QED BY <2>1 DEF KnownStored
  <1> QED BY <1>1, <1>2

LEMMA InitG == Init => GInv
  BY OwnersAssumption
  DEF Init, GInv, TypeOK, RegisteredListed, ListedKnown, LockHeld, OwnerListed,
      CallServed, KnownStored, OneRowPerRequisition, Phases, Statuses, Rows, Empty, Calls,
      Idle, Registered

\* recover() alone: what Open, Refresh and Begin have in common.
LEMMA RecoverG ==
  ASSUME GInv, NEW expired \in SUBSET Jobs, row' = Recovered(expired),
         workers' = workers \ Dead
  PROVE  /\ row' \in [Jobs -> Rows]
         /\ \A j \in Jobs : row'[j].status # "applying" => row'[j].owner = NoOne
         /\ workers' \subseteq Owners
         /\ OwnerListed'
         /\ OneRowPerRequisition'
         /\ \A j \in Jobs : row[j].status # "none" => row'[j].status # "none"
  <1>1. TypeOK /\ OwnerListed
    BY DEF GInv
  <1>2. OneRowPerRequisition'
    BY <1>1, RecoveredRows DEF GInv, OneRowPerRequisition
  <1>3. \A j \in Jobs : row'[j].status # "applying" => row'[j].owner = NoOne
    BY <1>1, RecoveredRows DEF TypeOK
  <1>4. OwnerListed'
    BY <1>1, RecoveredOwners DEF OwnerListed
  <1> QED BY <1>1, <1>2, <1>3, <1>4, RecoveredRows DEF TypeOK

LEMMA OpenG ==
  ASSUME GInv, NEW o \in Owners, Open(o)
  PROVE  GInv'
  <1>1. PICK expired \in SUBSET Jobs : row' = Recovered(expired)
    BY DEF Open
  <1>2. /\ row' \in [Jobs -> Rows] /\ workers' \subseteq Owners
        /\ \A j \in Jobs : row'[j].status # "applying" => row'[j].owner = NoOne
        /\ OwnerListed' /\ OneRowPerRequisition'
        /\ \A j \in Jobs : row[j].status # "none" => row'[j].status # "none"
    BY <1>1, RecoverG DEF Open
  <1>3. /\ phase' = [phase EXCEPT ![o] = "opening"] /\ phase[o] = "new"
        /\ UNCHANGED <<lock, cache, call, running>>
        /\ workers' = workers \ Dead
    BY DEF Open
  <1>4. TypeOK'
    BY <1>2, <1>3 DEF GInv, TypeOK, Phases
  <1>5. RegisteredListed' /\ ListedKnown' /\ LockHeld'
    BY <1>3 DEF GInv, TypeOK, RegisteredListed, ListedKnown, LockHeld, Registered, Dead
  <1>6. CallServed'
    BY <1>3 DEF GInv, TypeOK, CallServed, Working
  <1>7. KnownStored'
    BY <1>2, <1>3 DEF GInv, KnownStored
  <1> QED BY <1>2, <1>4, <1>5, <1>6, <1>7 DEF GInv

LEMMA RegisterG ==
  ASSUME GInv, NEW o \in Owners, Register(o)
  PROVE  GInv'
  <1>1. /\ phase' = [phase EXCEPT ![o] = "open"] /\ phase[o] = "opening"
        /\ workers' = workers \cup {o}
        /\ UNCHANGED <<lock, row, cache, call, running>>
    BY DEF Register
  <1>2. TypeOK'
    BY <1>1 DEF GInv, TypeOK, Phases
  <1>3. RegisteredListed' /\ ListedKnown' /\ LockHeld' /\ OwnerListed'
    BY <1>1
    DEF GInv, TypeOK, RegisteredListed, ListedKnown, LockHeld, OwnerListed, Registered
  <1>4. CallServed'
    BY <1>1 DEF GInv, TypeOK, CallServed, Working
  <1>5. OneRowPerRequisition' /\ KnownStored'
    BY <1>1 DEF GInv, OneRowPerRequisition, KnownStored
  <1> QED BY <1>2, <1>3, <1>4, <1>5 DEF GInv

\* list(): the caller's own call is Idle, or the one it begins.
LEMMA ListG ==
  ASSUME GInv, NEW o \in Owners, NEW expired \in SUBSET Jobs, List(o, expired),
         UNCHANGED <<phase, lock, running>>, call' \in [Owners -> Calls], CallServed',
         \A p \in Owners : call'[p] = call[p] \/ call'[p].kind # "persist"
  PROVE  GInv'
  <1>1. /\ row' \in [Jobs -> Rows] /\ workers' \subseteq Owners
        /\ \A j \in Jobs : row'[j].status # "applying" => row'[j].owner = NoOne
        /\ OwnerListed' /\ OneRowPerRequisition'
        /\ \A j \in Jobs : row[j].status # "none" => row'[j].status # "none"
    BY RecoverG DEF List
  <1>2. cache' \in [Owners -> [Jobs -> Statuses]]
    <2>1. [j \in Jobs |-> row'[j].status] \in [Jobs -> Statuses]
      BY <1>1 DEF Rows
    <2> QED BY <2>1 DEF List, GInv, TypeOK
  <1>3. TypeOK'
    BY <1>1, <1>2 DEF GInv, TypeOK
  <1>4. RegisteredListed' /\ ListedKnown' /\ LockHeld'
    BY DEF List, GInv, RegisteredListed, ListedKnown, LockHeld, Registered, Dead
  <1>5. KnownStored'
    <2>1. \A p \in Owners, j \in Jobs :
            call'[p] = [kind |-> "persist", job |-> j] => row'[j].status # "none"
      BY <1>1 DEF GInv, KnownStored
    <2>2. \A p \in Owners, j \in Jobs : running'[p] = j => row'[j].status # "none"
      BY <1>1 DEF GInv, KnownStored
    <2>3. \A p \in Owners, j \in Jobs : cache'[p][j] # "none" => row'[j].status # "none"
      BY <1>1 DEF List, GInv, TypeOK, KnownStored
    <2> QED BY <2>1, <2>2, <2>3 DEF KnownStored
  <1> QED BY <1>1, <1>3, <1>4, <1>5 DEF GInv

LEMMA RefreshG ==
  ASSUME GInv, NEW o \in Owners, Refresh(o)
  PROVE  GInv'
  <1>1. PICK expired \in SUBSET Jobs : List(o, expired)
    BY DEF Refresh
  <1>2. UNCHANGED <<phase, lock, call, running>>
    BY DEF Refresh
  <1>3. call' \in [Owners -> Calls] /\ CallServed'
    BY <1>2 DEF GInv, TypeOK, CallServed, Working
  <1> QED BY <1>1, <1>2, <1>3, ListG

LEMMA BeginG ==
  ASSUME GInv, NEW o \in Owners, NEW kind \in Kinds, NEW j \in Jobs, Begin(o, kind, j)
  PROVE  GInv'
  <1>1. PICK expired \in SUBSET Jobs : List(o, expired)
    BY DEF Begin
  <1>2. /\ UNCHANGED <<phase, lock, running>> /\ Working(o)
        /\ call' = [call EXCEPT ![o] = [kind |-> kind, job |-> j]]
    BY DEF Begin
  <1>3. call' \in [Owners -> Calls] /\ CallServed'
    BY <1>2 DEF GInv, TypeOK, CallServed, Working, Calls
  <1>4. \A p \in Owners : call'[p] = call[p] \/ call'[p].kind # "persist"
    BY <1>2 DEF Begin, MayCall, GInv, TypeOK
  <1> QED BY <1>1, <1>2, <1>3, <1>4, ListG

LEMMA AcquireG ==
  ASSUME GInv, NEW o \in Owners, AcquireWorkerLock(o)
  PROVE  GInv'
  <1>1. /\ phase[o] = "open" /\ call[o] = Idle
        /\ phase' \in {[phase EXCEPT ![o] = "refused"], [phase EXCEPT ![o] = "locked"]}
        /\ UNCHANGED <<workers, row, cache, call, running>>
    BY DEF AcquireWorkerLock
  <1>2. TypeOK'
    BY <1>1 DEF AcquireWorkerLock, GInv, TypeOK, Phases
  <1>3. RegisteredListed' /\ ListedKnown'
    BY <1>1 DEF GInv, TypeOK, RegisteredListed, ListedKnown, Registered
  <1>4. LockHeld'
    <2>1. CASE LockTaken(o)
      BY <2>1 DEF AcquireWorkerLock, GInv, TypeOK, LockHeld
    <2>2. CASE ~LockTaken(o)
      <3>1. \A p \in Owners : phase[p] # "locked"
        BY <1>1, <2>2, OwnersAssumption
        DEF LockTaken, GInv, LockHeld, RegisteredListed, Registered
      <3> QED BY <2>2, <3>1 DEF AcquireWorkerLock, GInv, TypeOK, LockHeld
    <2> QED BY <2>1, <2>2
  <1>5. OwnerListed' /\ OneRowPerRequisition' /\ KnownStored'
    BY <1>1 DEF GInv, OwnerListed, OneRowPerRequisition, KnownStored
  <1>6. CallServed'
    BY <1>1 DEF GInv, TypeOK, CallServed, Working
  <1> QED BY <1>2, <1>3, <1>4, <1>5, <1>6 DEF GInv

LEMMA CloseG ==
  ASSUME GInv, NEW o \in Owners, Close(o)
  PROVE  GInv'
  <1>1. /\ phase' = [phase EXCEPT ![o] = "closed"] /\ call[o] = Idle
        /\ workers' = workers \ {o} /\ UNCHANGED <<cache, call>>
        /\ lock' = IF lock = o THEN NoOne ELSE lock
        /\ running' = [running EXCEPT ![o] = NoOne]
    BY DEF Close
  <1>2. /\ row' \in [Jobs -> Rows]
        /\ \A j \in Jobs :
             \/ row'[j] = row[j] /\ row'[j].owner # o
             \/ /\ row[j].status = "applying" /\ row'[j].status = "paused_for_review"
                /\ row'[j].owner = NoOne
    <2>1. \A j \in Jobs : row[j] \in Rows /\ (row[j].owner = o => row[j].status = "applying")
      BY OwnersAssumption DEF GInv, TypeOK
    <2> QED BY <2>1 DEF Close, Paused, Rows, Statuses
  <1>3. TypeOK'
    <2>1. \A j \in Jobs : row'[j].status # "applying" => row'[j].owner = NoOne
      BY <1>2 DEF GInv, TypeOK
    <2> QED BY <1>1, <1>2, <2>1 DEF GInv, TypeOK, Phases
  <1>4. RegisteredListed' /\ ListedKnown' /\ LockHeld'
    BY <1>1 DEF GInv, TypeOK, RegisteredListed, ListedKnown, LockHeld, Registered
  <1>5. OwnerListed'
    BY <1>1, <1>2 DEF GInv, OwnerListed
  <1>6. CallServed'
    BY <1>1 DEF GInv, TypeOK, CallServed, Working
  <1>7. OneRowPerRequisition'
    BY <1>2 DEF GInv, OneRowPerRequisition
  <1>8. KnownStored'
    <2>1. \A p \in Owners, j \in Jobs : running'[p] = j => running[p] = j
      BY <1>1, OwnersAssumption DEF GInv, TypeOK
    <2> QED BY <1>1, <1>2, <2>1 DEF GInv, KnownStored
  <1> QED BY <1>3, <1>4, <1>5, <1>6, <1>7, <1>8 DEF GInv

LEMMA CrashG ==
  ASSUME GInv, NEW o \in Owners, Crash(o) \/ RecyclePid(o) \/ StrangerExits(o)
  PROVE  GInv'
  <1>1. /\ phase' \in {[phase EXCEPT ![o] = "crashed"], [phase EXCEPT ![o] = "recycled"]}
        /\ phase[o] \in Alive \cup {"crashed", "recycled"}
        /\ UNCHANGED <<workers, lock, row, cache>>
    BY DEF Crash, RecyclePid, StrangerExits
  <1>2. /\ call' \in [Owners -> Calls] /\ running' \in [Owners -> Jobs \cup {NoOne}]
        /\ \A p \in Owners : call'[p] = IF p = o THEN Idle ELSE call[p]
        /\ \A p \in Owners : running'[p] \in {NoOne, running[p]}
    <2>1. CASE Crash(o)
      BY <2>1 DEF Crash, GInv, TypeOK, Calls
    <2>2. CASE RecyclePid(o) \/ StrangerExits(o)
      <3>1. call[o] = Idle
        BY <2>2 DEF RecyclePid, StrangerExits, GInv, CallServed, Working
      <3> QED BY <2>2, <3>1 DEF RecyclePid, StrangerExits, GInv, TypeOK
    <2> QED BY <2>1, <2>2
  <1>3. TypeOK'
    BY <1>1, <1>2 DEF GInv, TypeOK, Phases
  <1>4. RegisteredListed' /\ ListedKnown' /\ LockHeld'
    BY <1>1
    DEF GInv, TypeOK, RegisteredListed, ListedKnown, LockHeld, Registered, Alive
  <1>5. OwnerListed' /\ OneRowPerRequisition'
    BY <1>1 DEF GInv, OwnerListed, OneRowPerRequisition
  <1>6. CallServed'
    BY <1>1, <1>2 DEF GInv, TypeOK, CallServed, Working
  <1>7. KnownStored'
    BY <1>1, <1>2, OwnersAssumption, KnowledgeKept DEF GInv, TypeOK
  <1> QED BY <1>3, <1>4, <1>5, <1>6, <1>7 DEF GInv

-----------------------------------------------------------------------------
(* The writes. *)

Writes(j, r) == row' = [row EXCEPT ![j] = r]

\* A working manager writes at most one row, and what it may write there: a
\* claim of its own or the claim that is there, and a new row for a new key only.
MayWrite(o, j, r) ==
  /\ r \in Rows
  /\ r.status # "applying" => r.owner = NoOne
  /\ r.owner \in {NoOne, o, row[j].owner}
  /\ row[j].status = "none" =>
       r.status = "none" \/ \A i \in Jobs : KeyOf[i] = KeyOf[j] => row[i].status = "none"

LEMMA WriteG ==
  ASSUME GInv, NEW o \in Owners, NEW j \in Jobs, NEW r, Writes(j, r), MayWrite(o, j, r),
         Working(o), UNCHANGED <<phase, workers, lock>>,
         call' \in [Owners -> Calls], cache' \in [Owners -> [Jobs -> Statuses]],
         running' \in [Owners -> Jobs \cup {NoOne}],
         \A p \in Owners \ {o} : call'[p] = call[p], KnownStored'
  PROVE  GInv'
  <1>1. o \in workers
    BY DEF Working, GInv, RegisteredListed, Registered
  <1>2. /\ row' \in [Jobs -> Rows] /\ row'[j] = r
        /\ \A i \in Jobs \ {j} : row'[i] = row[i]
    BY DEF Writes, MayWrite, GInv, TypeOK
  <1>3. TypeOK'
    <2>1. \A i \in Jobs : row'[i].status # "applying" => row'[i].owner = NoOne
      BY <1>2 DEF MayWrite, GInv, TypeOK
    <2> QED BY <1>2, <2>1 DEF GInv, TypeOK
  <1>4. RegisteredListed' /\ ListedKnown' /\ LockHeld'
    BY DEF GInv, RegisteredListed, ListedKnown, LockHeld
  <1>5. OwnerListed'
    BY <1>1, <1>2 DEF MayWrite, GInv, OwnerListed
  <1>6. CallServed'
    BY DEF GInv, CallServed, Working
  <1>7. OneRowPerRequisition'
    BY <1>2 DEF MayWrite, GInv, OneRowPerRequisition
  <1> QED BY <1>3, <1>4, <1>5, <1>6, <1>7 DEF GInv

\* A call that changes no row.
LEMMA SameRowsG ==
  ASSUME GInv, NEW o \in Owners, Working(o), UNCHANGED <<phase, workers, lock, row>>,
         call' \in [Owners -> Calls], cache' \in [Owners -> [Jobs -> Statuses]],
         running' \in [Owners -> Jobs \cup {NoOne}],
         \A p \in Owners \ {o} : call'[p] = call[p], KnownStored'
  PROVE  GInv'
  <1>1. TypeOK'
    BY DEF GInv, TypeOK
  <1>2. RegisteredListed' /\ ListedKnown' /\ LockHeld' /\ OwnerListed'
    BY DEF GInv, RegisteredListed, ListedKnown, LockHeld, OwnerListed
  <1>3. CallServed' /\ OneRowPerRequisition'
    BY DEF GInv, CallServed, Working, OneRowPerRequisition
  <1> QED BY <1>1, <1>2, <1>3 DEF GInv

LEMMA ReturnTyped ==
  ASSUME TypeOK, NEW o \in Owners, Return(o)
  PROVE  /\ call' \in [Owners -> Calls] /\ call'[o] = Idle
         /\ \A p \in Owners \ {o} : call'[p] = call[p]
  BY DEF TypeOK, Return, Calls

\* How a call may leave the run it belongs to: as it was, or ended.
RunKept(o) ==
  /\ running' \in [Owners -> Jobs \cup {NoOne}]
  /\ \A p \in Owners, j \in Jobs : running'[p] = j => running[p] = j

LEMMA RunKeeps ==
  ASSUME TypeOK, NEW o \in Owners, NEW j \in Jobs, UNCHANGED running \/ RunEnds(o, j)
  PROVE  RunKept(o)
  BY OwnersAssumption DEF RunKept, RunEnds, TypeOK

LEMMA RefuseG ==
  ASSUME GInv, NEW o \in Owners, Refuse(o), Working(o), RunKept(o)
  PROVE  GInv'
  <1>1. /\ UNCHANGED <<phase, workers, lock, row, cache>>
        /\ call' \in [Owners -> Calls] /\ call'[o] = Idle
        /\ \A p \in Owners \ {o} : call'[p] = call[p]
    BY ReturnTyped DEF Refuse, Return, GInv
  <1>2. KnownStored'
    BY <1>1, KnowledgeKept DEF RunKept, GInv
  <1> QED BY <1>1, <1>2, SameRowsG DEF RunKept, GInv, TypeOK

\* save() of a job that has a row.
LEMMA SaveG ==
  ASSUME GInv, NEW o \in Owners, NEW j \in Jobs, NEW status \in Statuses \ {"none"},
         Write(o, j, status), row[j].status # "none", Working(o),
         running' \in [Owners -> Jobs \cup {NoOne}],
         \A p \in Owners, i \in Jobs : running'[p] = i => running[p] = i \/ i = j
  PROVE  GInv'
  <1>1. PICK r \in Rows :
          /\ r.status = status /\ Writes(j, r)
          /\ r.owner = IF status = "applying" THEN row[j].owner ELSE NoOne
    <2> DEFINE r == [status |-> status,
                     owner |-> IF status = "applying" THEN row[j].owner ELSE NoOne]
    <2>1. r \in Rows
      BY DEF GInv, TypeOK, Rows
    <2>2. Writes(j, r)
      BY DEF Write, Saved, Writes, GInv, TypeOK
    <2> QED BY <2>1, <2>2
  <1>2. MayWrite(o, j, r)
    BY <1>1 DEF MayWrite
  <1>3. cache' \in [Owners -> [Jobs -> Statuses]]
    BY DEF Write, GInv, TypeOK
  <1>4. /\ call' \in [Owners -> Calls] /\ call'[o] = Idle
        /\ \A p \in Owners \ {o} : call'[p] = call[p]
    BY ReturnTyped DEF Write, GInv
  <1>5. KnownStored'
    <2>1. \A i \in Jobs : row[i].status # "none" => row'[i].status # "none"
      BY <1>1 DEF Writes, GInv, TypeOK
    <2>2. row'[j].status # "none"
      BY <2>1
    <2>3. \A p \in Owners, i \in Jobs : cache'[p][i] = cache[p][i] \/ i = j
      BY DEF Write, GInv, TypeOK
    <2> QED BY <1>4, <2>1, <2>2, <2>3, KnowledgeKept DEF GInv
  <1> QED BY <1>1, <1>2, <1>3, <1>4, <1>5, WriteG DEF Write, Return

LEMMA EnqueueG ==
  ASSUME GInv, NEW o \in Owners, NEW j \in Jobs, CommitEnqueue(o, j), Working(o)
  PROVE  GInv'
  <1>1. /\ UNCHANGED <<phase, workers, lock, running>> /\ call' \in [Owners -> Calls]
        /\ \A p \in Owners \ {o} : call'[p] = call[p]
    BY ReturnTyped DEF CommitEnqueue, Return, GInv
  <1>2. running' \in [Owners -> Jobs \cup {NoOne}] /\ call'[o] = Idle
    BY <1>1, ReturnTyped DEF CommitEnqueue, GInv, TypeOK
  <1>3. CASE Known(o, j)
    <2>1. cache' = cache /\ row' = row
      BY <1>3 DEF CommitEnqueue
    <2>2. KnownStored'
      BY <1>1, <1>2, <2>1, KnowledgeKept DEF GInv
    <2> QED BY <1>1, <1>2, <2>1, <2>2, SameRowsG DEF GInv, TypeOK
  <1>4. CASE ~Known(o, j) /\ Stored(j)
    <2>1. PICK i \in Jobs : cache' = [cache EXCEPT ![o][i] = row[i].status]
      BY <1>4 DEF CommitEnqueue
    <2>2. row[i].status \in Statuses /\ row' = row
      BY <1>4 DEF CommitEnqueue, GInv, TypeOK, Rows
    <2>3. cache' \in [Owners -> [Jobs -> Statuses]]
      BY <2>1, <2>2 DEF GInv, TypeOK
    <2>4. KnownStored'
      <3>1. \A p \in Owners, k \in Jobs :
              cache'[p][k] = cache[p][k] \/ cache'[p][k] = row[k].status
        BY <2>1 DEF GInv, TypeOK
      <3> QED BY <1>1, <1>2, <2>2, <3>1, KnowledgeKept DEF GInv
    <2> QED BY <1>1, <1>2, <2>2, <2>3, <2>4, SameRowsG
  <1>5. CASE ~Known(o, j) /\ ~Stored(j)
    <2> DEFINE r == [Empty EXCEPT !.status = "queued"]
    <2>1. r \in Rows /\ r.status = "queued" /\ r.owner = NoOne
      BY DEF Empty, Rows, Statuses
    <2>2. MayWrite(o, j, r)
      BY <1>5, <2>1 DEF MayWrite, Stored
    <2>3. Writes(j, r) /\ cache' = [cache EXCEPT ![o][j] = "queued"]
      BY <1>5 DEF CommitEnqueue, Writes
    <2>4. "queued" \in Statuses
      BY DEF Statuses
    <2>5. cache' \in [Owners -> [Jobs -> Statuses]]
      BY <2>3, <2>4 DEF GInv, TypeOK
    <2>6. KnownStored'
      <3>1. \A k \in Jobs : row'[k] = IF k = j THEN r ELSE row[k]
        BY <2>3 DEF Writes, GInv, TypeOK
      <3>2. \A p \in Owners, k \in Jobs : cache'[p][k] = cache[p][k] \/ k = j
        BY <2>3 DEF GInv, TypeOK
      <3> QED BY <1>1, <1>2, <2>1, <3>1, <3>2, KnowledgeKept DEF GInv
    <2> HIDE DEF r
    <2> QED BY <1>1, <1>2, <2>2, <2>3, <2>5, <2>6, WriteG
  <1> QED BY <1>3, <1>4, <1>5

LEMMA ClaimG ==
  ASSUME GInv, NEW o \in Owners, NEW j \in Jobs, CommitClaim(o, j), Working(o)
  PROVE  GInv'
  <1>1. RunKept(o) /\ UNCHANGED running
    BY RunKeeps DEF CommitClaim, GInv
  <1>2. CASE Refuse(o)
    BY <1>1, <1>2, RefuseG
  <1>3. CASE ~Refuse(o)
    <2> DEFINE r == [status |-> "applying", owner |-> o]
    <2>1. /\ row[j].status = "queued" /\ Writes(j, r)
          /\ call' = [call EXCEPT ![o].kind = "persist"]
          /\ call[o] = [kind |-> "claim", job |-> j]
          /\ UNCHANGED <<phase, workers, lock, cache>>
      BY <1>3 DEF CommitClaim, Writes
    <2>2. MayWrite(o, j, r)
      BY <2>1 DEF MayWrite, Rows, Statuses
    <2>3. /\ call' \in [Owners -> Calls] /\ call'[o] = [kind |-> "persist", job |-> j]
          /\ \A p \in Owners \ {o} : call'[p] = call[p]
      BY <2>1 DEF GInv, TypeOK, Calls, Kinds
    <2>4. cache' \in [Owners -> [Jobs -> Statuses]]
      BY <2>1 DEF GInv, TypeOK
    <2>5. KnownStored'
      <3>1. \A k \in Jobs : row'[k] = IF k = j THEN r ELSE row[k]
        BY <2>1 DEF Writes, GInv, TypeOK
      <3> QED BY <1>1, <2>1, <2>3, <3>1 DEF GInv, KnownStored
    <2> HIDE DEF r
    <2> QED BY <1>1, <2>1, <2>2, <2>3, <2>4, <2>5, WriteG DEF RunKept
  <1> QED BY <1>2, <1>3

LEMMA PersistG ==
  ASSUME GInv, NEW o \in Owners, NEW j \in Jobs, CommitPersist(o, j), Working(o)
  PROVE  GInv'
  <1>1. row[j].status # "none"
    BY DEF CommitPersist, GInv, KnownStored
  <1>2. /\ running' \in [Owners -> Jobs \cup {NoOne}]
        /\ \A p \in Owners, i \in Jobs : running'[p] = i => running[p] = i \/ i = j
    BY DEF CommitPersist, GInv, TypeOK
  <1> QED BY <1>1, <1>2, SaveG DEF CommitPersist, Statuses

\* Every other call refuses, or saves a status of a job it has cached.
Settles(o, j) ==
  /\ RunKept(o)
  /\ \/ Refuse(o)
     \/ /\ cache[o][j] # "none"
        /\ \E status \in Statuses \ {"none", "applying"} : Write(o, j, status)

Settling(o, j) ==
  \/ CommitApplied(o, j) \/ CommitOutcome(o, j) \/ CommitReopen(o, j)
  \/ CommitRetryReviewed(o, j) \/ CommitThumbsDown(o, j)

LEMMA SettlingSettles ==
  ASSUME TypeOK, NEW o \in Owners, NEW j \in Jobs, Settling(o, j)
  PROVE  Settles(o, j)
  <1>1. RunKept(o)
    BY RunKeeps
    DEF Settling, CommitApplied, CommitOutcome, CommitReopen, CommitRetryReviewed,
        CommitThumbsDown
  <1>2. CASE CommitApplied(o, j)
    BY <1>1, <1>2 DEF CommitApplied, Settles, Statuses
  <1>3. CASE CommitOutcome(o, j)
    <2>1. PICK outcome \in Outcomes :
            IF cache[o][j] \in {"none", "applied"}
            THEN Refuse(o) ELSE Write(o, j, outcome.status)
      BY <1>3 DEF CommitOutcome
    <2>2. outcome.status \in Statuses \ {"none", "applying"}
      BY DEF Outcomes, Statuses
    <2> QED BY <1>1, <2>1, <2>2 DEF Settles
  <1>4. CASE CommitReopen(o, j)
    BY <1>1, <1>4 DEF CommitReopen, Settles, Statuses
  <1>5. CASE CommitRetryReviewed(o, j)
    BY <1>1, <1>5 DEF CommitRetryReviewed, Settles, Statuses
  <1>6. CASE CommitThumbsDown(o, j)
    BY <1>1, <1>6 DEF CommitThumbsDown, Settles, Statuses
  <1> QED BY <1>2, <1>3, <1>4, <1>5, <1>6 DEF Settling

LEMMA SettleG ==
  ASSUME GInv, NEW o \in Owners, NEW j \in Jobs, Settles(o, j), Working(o)
  PROVE  GInv'
  <1>1. CASE Refuse(o)
    BY <1>1, RefuseG DEF Settles
  <1>2. CASE ~Refuse(o)
    <2>1. PICK status \in Statuses \ {"none", "applying"} : Write(o, j, status)
      BY <1>2 DEF Settles
    <2>2. row[j].status # "none"
      BY <1>2 DEF Settles, GInv, KnownStored
    <2> QED BY <2>1, <2>2, SaveG DEF Settles, RunKept
  <1> QED BY <1>1, <1>2

\* A commit is made by a working manager.
LEMMA CommitWorking ==
  ASSUME GInv, NEW o \in Owners, NEW j \in Jobs,
         \/ CommitEnqueue(o, j) \/ CommitClaim(o, j) \/ CommitPersist(o, j)
         \/ Settling(o, j)
  PROVE  Working(o) /\ call[o].job = j /\ call[o].kind # "idle"
  <1>1. call[o].job = j /\ call[o].kind # "idle"
    BY DEF Settling, CommitEnqueue, CommitClaim, CommitPersist, CommitApplied,
      CommitOutcome, Outcomes, CommitReopen, CommitRetryReviewed, CommitThumbsDown
  <1> QED BY <1>1 DEF GInv, CallServed, Idle

LEMMA CommitG ==
  ASSUME GInv, NEW o \in Owners, Commit(o)
  PROVE  GInv'
  <1>1. PICK j \in Jobs : \/ CommitEnqueue(o, j) \/ CommitClaim(o, j)
                          \/ CommitPersist(o, j) \/ Settling(o, j)
    BY DEF Commit, Settling
  <1>2. Working(o)
    BY <1>1, CommitWorking
  <1>3. Settling(o, j) => Settles(o, j)
    BY SettlingSettles DEF GInv
  <1> QED BY <1>1, <1>2, <1>3, EnqueueG, ClaimG, PersistG, SettleG

LEMMA WriteBackG ==
  ASSUME GInv, NEW o \in Owners, WriteBack(o)
  PROVE  GInv'
  <1>1. PICK j \in Jobs, status \in {"queued", "paused_for_review"} :
          /\ Working(o) /\ running[o] = j
          /\ Write(o, j, status) /\ RunEnds(o, j)
    BY DEF WriteBack
  <1>2. RunKept(o) /\ row[j].status # "none"
    BY <1>1, RunKeeps DEF GInv, KnownStored
  <1> QED BY <1>1, <1>2, SaveG DEF RunKept, Statuses

LEMMA FitProbeG ==
  ASSUME GInv, NEW o \in Owners, RecordFitProbe(o)
  PROVE  GInv'
  <1>1. PICK j \in Jobs : row[j].status = "queued" /\ row' = Saved(j, "skipped")
    BY DEF RecordFitProbe
  <1> DEFINE r == [status |-> "skipped", owner |-> NoOne]
  <1>2. Writes(j, r) /\ MayWrite(o, j, r)
    BY <1>1 DEF Writes, MayWrite, Saved, Rows, Statuses
  <1>3. UNCHANGED <<phase, workers, lock, cache, call, running>> /\ Working(o)
    BY DEF RecordFitProbe
  <1>4. KnownStored'
    <2>1. \A k \in Jobs : row'[k] = IF k = j THEN r ELSE row[k]
      BY <1>2 DEF Writes, GInv, TypeOK
    <2> QED BY <1>3, <2>1 DEF GInv, KnownStored
  <1> HIDE DEF r
  <1> QED BY <1>2, <1>3, <1>4, WriteG DEF GInv, TypeOK

LEMMA GStep == GInv /\ [Next]_vars => GInv'
  <1> SUFFICES ASSUME GInv, [Next]_vars PROVE GInv'
    OBVIOUS
  <1>1. CASE UNCHANGED vars
    BY <1>1 DEF vars, GInv, TypeOK, RegisteredListed, ListedKnown, LockHeld, OwnerListed,
      CallServed, Working, KnownStored, OneRowPerRequisition
  <1>2. ASSUME NEW o \in Owners, Advance(o) PROVE GInv'
    <2>1. CASE Register(o) \/ Refresh(o) \/ AcquireWorkerLock(o)
      BY <2>1, RegisterG, RefreshG, AcquireG
    <2>2. CASE Calling(o)
      BY <2>2, BeginG DEF Calling
    <2>3. CASE Commit(o) \/ WriteBack(o) \/ RecordFitProbe(o)
      BY <2>3, CommitG, WriteBackG, FitProbeG
    <2> QED BY <1>2, <2>1, <2>2, <2>3 DEF Advance
  <1>3. ASSUME NEW o \in Owners,
               Open(o) \/ Close(o) \/ Crash(o) \/ RecyclePid(o) \/ StrangerExits(o)
        PROVE  GInv'
    BY <1>3, OpenG, CloseG, CrashG
  <1> QED BY <1>1, <1>2, <1>3 DEF Next

LEMMA Inductive == Spec => []GInv
  BY InitG, GStep, PTL DEF Spec

-----------------------------------------------------------------------------
(* What holds whatever managers share the file. *)

\* Every variable keeps its shape, and only a claimed row has an owner.
THEOREM TypeCorrect == Spec => []TypeOK
  <1>1. GInv => TypeOK
    BY DEF GInv
  <1> QED BY <1>1, Inductive, PTL

\* acquireWorkerLock() admits one live process, whatever crashes around it.
THEOREM LockSafe == Spec => []OneWorker
  <1>1. GInv => OneWorker
    BY DEF GInv, LockHeld, OneWorker
  <1> QED BY <1>1, Inductive, PTL

\* The UNIQUE columns keep one row per requisition under any writers.
THEOREM RowsUnique == Spec => []OneRowPerRequisition
  <1>1. GInv => OneRowPerRequisition
    BY DEF GInv
  <1> QED BY <1>1, Inductive, PTL

\* recover() robs nobody but the dead: what else takes a claim away is save() at
\* the end of a call on that job, or the end of the run of that job.
LEMMA RobbedStep ==
  ASSUME GInv, Next, NEW j \in Jobs, NEW o \in Owners,
         row[j].owner = o, row'[j].owner # o, phase[o] # "crashed"
  PROVE  \/ phase'[o] = "closed"
         \/ \E p \in Owners :
              \/ call[p].job = j /\ call'[p] # call[p]
              \/ running[p] = j /\ running'[p] # j
  <1>1. /\ row[j].status = "applying" /\ o \notin Dead
        /\ \A expired \in SUBSET Jobs : Recovered(expired)[j] = row[j]
    <2>1. row[j].owner # NoOne /\ o \notin Dead
      BY OwnersAssumption DEF Dead
    <2> QED BY <2>1, RecoveredAlive DEF GInv, TypeOK
  <1>2. PICK p \in Owners :
          \/ Open(p) \/ Advance(p) \/ Close(p)
          \/ Crash(p) \/ RecyclePid(p) \/ StrangerExits(p)
    BY DEF Next
  <1>3. CASE Close(p)
    BY <1>3 DEF Close, GInv, TypeOK
  <1>4. CASE WriteBack(p)
    <2>1. PICK i \in Jobs, status \in Statuses :
            running[p] = i /\ Write(p, i, status) /\ RunEnds(p, i)
      BY <1>4 DEF WriteBack, Statuses
    <2>2. i = j
      BY <2>1 DEF Write, Saved, GInv, TypeOK
    <2>3. running'[p] = NoOne
      BY <2>1 DEF RunEnds, GInv, TypeOK
    <2> QED BY <2>1, <2>2, <2>3, OwnersAssumption
  <1>5. CASE Commit(p)
    <2>1. PICK i \in Jobs : \/ CommitEnqueue(p, i) \/ CommitClaim(p, i)
                            \/ CommitPersist(p, i) \/ Settling(p, i)
      BY <1>5 DEF Commit, Settling
    <2>2. CASE CommitEnqueue(p, i)
      <3>1. i = j => Stored(i)
        BY <1>1 DEF Stored
      <3> QED BY <2>2, <3>1 DEF CommitEnqueue, GInv, TypeOK
    <2>3. CASE CommitClaim(p, i)
      BY <1>1, <2>3 DEF CommitClaim, Refuse, GInv, TypeOK
    <2>4. CASE CommitPersist(p, i)
      BY <2>4 DEF CommitPersist, Write, Saved, GInv, TypeOK
    <2>5. CASE Settling(p, i)
      <3>1. call[p].job = i /\ call[p].kind # "idle"
        BY <2>5, CommitWorking
      <3>2. call'[p].kind = "idle" \/ row' = row
        <4>1. call'[p] = Idle
          BY <2>5, SettlingSettles, ReturnTyped DEF Settles, Refuse, Write, GInv
        <4> QED BY <4>1 DEF Idle
      <3>3. i = j
        BY <2>5, SettlingSettles DEF Settles, Refuse, Write, Saved, GInv, TypeOK
      <3> QED BY <3>1, <3>2, <3>3
    <2> QED BY <2>1, <2>2, <2>3, <2>4, <2>5
  <1>6. CASE RecordFitProbe(p)
    BY <1>1, <1>6 DEF RecordFitProbe, Saved, GInv, TypeOK
  <1> QED BY <1>1, <1>2, <1>3, <1>4, <1>5, <1>6
      DEF Open, Advance, Register, Refresh, List, AcquireWorkerLock, Calling, Begin,
          Crash, RecyclePid, StrangerExits

\* recover() "never transfers a claim while that process may be alive".
THEOREM Robbed == Spec => OnlyTheDeadAreRobbed
  <1>1. GInv /\ [Next]_vars =>
          [\A j \in Jobs, o \in Owners :
             row[j].owner = o /\ row'[j].owner # o =>
               \/ phase[o] = "crashed" \/ phase'[o] = "closed"
               \/ \E p \in Owners :
                    \/ call[p].job = j /\ call'[p] # call[p]
                    \/ running[p] = j /\ running'[p] # j]_vars
    BY RobbedStep
  <1> QED BY <1>1, Inductive, PTL DEF Spec, OnlyTheDeadAreRobbed

-----------------------------------------------------------------------------
(* When every manager takes the lock. *)

\* Every claim belongs to the owner the metadata row names, still registered.
ClaimOwned ==
  \A j \in Jobs :
    row[j].status = "applying" => row[j].owner = lock /\ lock \in workers

\* A job being run is the lock holder's, and not recorded as sent.
RunHeld ==
  \A o \in Owners, j \in Jobs :
    running[o] = j => phase[o] = "locked" /\ row[j].status # "applied"

\* Between the claim and its persist the row stays claimed.
PersistHeld ==
  \A o \in Owners, j \in Jobs :
    call[o] = [kind |-> "persist", job |-> j] =>
      row[j].status = "applying" /\ row[j].owner = o

\* A worker gives no feedback.
NoFeedback == \A o \in Owners : call[o].kind # "thumbs_down"

EInv == ClaimOwned /\ RunHeld /\ PersistHeld /\ NoLostUpdate /\ NoFeedback

LEMMA InitE == Init => EInv
  BY IdleStores, OwnersAssumption
  DEF Init, EInv, ClaimOwned, RunHeld, PersistHeld, NoLostUpdate, NoFeedback, Empty, Idle

\* While a worker holds the lock recover() changes no row.
LEMMA RecoveredUnderLock ==
  ASSUME GInv, EInv, NEW expired \in SUBSET Jobs, NEW o \in Owners, phase[o] = "locked"
  PROVE  Recovered(expired) = row
  <1>1. o \in workers \ Dead
    BY DEF GInv, RegisteredListed, Registered, Dead
  <1>2. \A j \in Jobs : row[j].status = "applying" => row[j].owner = o
    BY DEF GInv, LockHeld, EInv, ClaimOwned
  <1>3. \A j \in Jobs : Recovered(expired)[j] = row[j]
    BY <1>1, <1>2 DEF Recovered
  <1>4. Recovered(expired) = [j \in Jobs |-> Recovered(expired)[j]]
    BY DEF Recovered
  <1>5. row = [j \in Jobs |-> row[j]]
    BY DEF GInv, TypeOK
  <1> QED BY <1>3, <1>4, <1>5

LEMMA RecoverE ==
  ASSUME GInv, EInv, NEW expired \in SUBSET Jobs, row' = Recovered(expired),
         workers' = workers \ Dead, UNCHANGED lock
  PROVE  /\ ClaimOwned'
         /\ \A o \in Owners : phase[o] = "locked" => row' = row
  <1>1. ClaimOwned'
    <2> SUFFICES ASSUME NEW j \in Jobs, row'[j].status = "applying"
                 PROVE  row'[j].owner = lock /\ lock \in workers'
      BY DEF ClaimOwned
    <2>1. row'[j] = row[j]
      BY RecoveredRows DEF GInv
    <2>2. row[j].owner = lock /\ lock \in workers
      BY <2>1 DEF EInv, ClaimOwned
    <2> QED BY <2>1, <2>2, RecoveredOwners, OwnersAssumption DEF GInv, TypeOK
  <1> QED BY <1>1, RecoveredUnderLock

\* A step that writes no row of its own: recover(), a list(), a change of phase.
LEMMA QuietE ==
  ASSUME GInv, EInv, Unlocked = {}, ClaimOwned',
         \A o \in Owners : phase[o] = "locked" => row' = row,
         \A p \in Owners, j \in Jobs :
           running'[p] = j => running[p] = j /\ phase'[p] = "locked",
         \A p \in Owners :
           \/ call'[p] = Idle
           \/ call'[p] = call[p] /\ cache'[p] = cache[p]
           \/ /\ call'[p].kind \notin {"persist", "thumbs_down"}
              /\ call'[p].job \in Jobs
              /\ \A j \in Jobs : cache'[p][j] = row'[j].status
  PROVE  EInv'
  <1>1. \A p \in Owners : call[p] # Idle => phase[p] = "locked" /\ row' = row
    BY DEF GInv, CallServed, Working
  <1>2. Idle.kind = "idle"
    BY DEF Idle
  <1>3. RunHeld'
    BY DEF EInv, RunHeld
  <1>4. PersistHeld'
    BY <1>1, IdleStores DEF EInv, PersistHeld
  <1>5. NoFeedback'
    BY <1>2 DEF EInv, NoFeedback
  <1>6. NoLostUpdate'
    <2> SUFFICES ASSUME NEW p \in Owners,
                        call'[p].kind \notin {"idle", "enqueue", "persist"},
                        cache'[p][call'[p].job] # "none"
                 PROVE  cache'[p][call'[p].job] = row'[call'[p].job].status
      BY DEF NoLostUpdate
    <2>1. call'[p] # Idle
      BY <1>2
    <2>2. CASE call'[p] = call[p] /\ cache'[p] = cache[p]
      BY <1>1, <2>1, <2>2 DEF EInv, NoLostUpdate
    <2> QED BY <2>1, <2>2
  <1> QED BY <1>3, <1>4, <1>5, <1>6 DEF EInv

LEMMA OpenE ==
  ASSUME GInv, EInv, Unlocked = {}, NEW o \in Owners, Open(o)
  PROVE  EInv'
  <1>1. PICK expired \in SUBSET Jobs : row' = Recovered(expired)
    BY DEF Open
  <1>2. ClaimOwned' /\ \A p \in Owners : phase[p] = "locked" => row' = row
    BY <1>1, RecoverE DEF Open
  <1>3. \A p \in Owners, j \in Jobs :
          running'[p] = j => running[p] = j /\ phase'[p] = "locked"
    BY DEF Open, EInv, RunHeld, GInv, TypeOK
  <1> QED BY <1>2, <1>3, QuietE DEF Open

\* list(), for a call that begins or for none.
Listing(o) ==
  /\ \/ call'[o] = Idle
     \/ call'[o].kind \notin {"persist", "thumbs_down"} /\ call'[o].job \in Jobs
  /\ \A p \in Owners \ {o} : call'[p] = call[p]

LEMMA ListE ==
  ASSUME GInv, EInv, Unlocked = {}, NEW o \in Owners, NEW expired \in SUBSET Jobs,
         List(o, expired), UNCHANGED <<phase, lock, running>>, Listing(o)
  PROVE  EInv'
  <1>1. ClaimOwned' /\ \A p \in Owners : phase[p] = "locked" => row' = row
    BY RecoverE DEF List
  <1>2. \A p \in Owners, j \in Jobs :
          running'[p] = j => running[p] = j /\ phase'[p] = "locked"
    BY DEF EInv, RunHeld
  <1>3. /\ \A p \in Owners \ {o} : cache'[p] = cache[p]
        /\ \A j \in Jobs : cache'[o][j] = row'[j].status
    BY DEF List, GInv, TypeOK
  <1> QED BY <1>1, <1>2, <1>3, QuietE DEF Listing

LEMMA ListingE ==
  ASSUME GInv, EInv, Unlocked = {}, NEW o \in Owners, Refresh(o) \/ Calling(o)
  PROVE  EInv'
  <1>1. CASE Refresh(o)
    <2>1. PICK expired \in SUBSET Jobs : List(o, expired)
      BY <1>1 DEF Refresh
    <2>2. UNCHANGED <<phase, lock, running>>
      BY <1>1 DEF Refresh
    <2>3. Listing(o)
      BY <1>1 DEF Refresh, Listing
    <2> QED BY <2>1, <2>2, <2>3, ListE
  <1>2. CASE Calling(o)
    <2>1. PICK kind \in Kinds, j \in Jobs : Begin(o, kind, j)
      BY <1>2 DEF Calling
    <2>2. kind \notin {"persist", "thumbs_down"}
      BY <2>1 DEF Begin, MayCall, Listed
    <2>3. call' = [call EXCEPT ![o] = [kind |-> kind, job |-> j]]
      BY <2>1 DEF Begin
    <2>4. Listing(o)
      BY <2>2, <2>3 DEF Listing, GInv, TypeOK
    <2> QED BY <2>1, <2>4, ListE DEF Begin
  <1> QED BY <1>1, <1>2

LEMMA LifeE ==
  ASSUME GInv, EInv, Unlocked = {}, NEW o \in Owners,
         \/ Register(o) \/ AcquireWorkerLock(o) \/ Crash(o)
         \/ RecyclePid(o) \/ StrangerExits(o)
  PROVE  EInv'
  <1>1. UNCHANGED <<row, cache>> /\ \A p \in Owners : call'[p] \in {Idle, call[p]}
    BY DEF Register, AcquireWorkerLock, Crash, RecyclePid, StrangerExits, GInv, TypeOK
  <1>2. \A p \in Owners, j \in Jobs :
          running'[p] = j => running[p] = j /\ phase'[p] = "locked"
    <2>1. CASE Crash(o)
      BY <2>1, OwnersAssumption DEF Crash, GInv, TypeOK, EInv, RunHeld
    <2>2. CASE ~Crash(o)
      BY <2>2 DEF Register, AcquireWorkerLock, RecyclePid, StrangerExits,
        GInv, TypeOK, EInv, RunHeld
    <2> QED BY <2>1, <2>2
  <1>3. ClaimOwned'
    <2>1. CASE AcquireWorkerLock(o)
      BY <2>1, OwnersAssumption DEF AcquireWorkerLock, LockTaken, GInv, TypeOK,
        EInv, ClaimOwned
    <2>2. CASE ~AcquireWorkerLock(o)
      BY <2>2 DEF Register, Crash, RecyclePid, StrangerExits, EInv, ClaimOwned
    <2> QED BY <2>1, <2>2
  <1> QED BY <1>1, <1>2, <1>3, QuietE

LEMMA CloseE ==
  ASSUME GInv, EInv, Unlocked = {}, NEW o \in Owners, Close(o)
  PROVE  EInv'
  <1>1. /\ UNCHANGED <<cache, call>> /\ workers' = workers \ {o} /\ call[o] = Idle
        /\ lock' = IF lock = o THEN NoOne ELSE lock
        /\ running' = [running EXCEPT ![o] = NoOne]
        /\ phase' = [phase EXCEPT ![o] = "closed"]
    BY DEF Close
  <1>2. \A j \in Jobs :
          \/ row'[j] = row[j] /\ (row[j].status = "applying" => row[j].owner # o)
          \/ row'[j].status = "paused_for_review" /\ row[j].status = "applying"
    <2>1. \A j \in Jobs : Paused(row[j]).status = "paused_for_review"
      BY DEF Paused, GInv, TypeOK, Rows
    <2> QED BY <2>1 DEF Close
  <1>3. ClaimOwned'
    BY <1>1, <1>2 DEF EInv, ClaimOwned
  <1>4. \A p \in Owners, j \in Jobs :
          running'[p] = j => running[p] = j /\ p # o
    BY <1>1, OwnersAssumption DEF GInv, TypeOK
  <1>5. RunHeld'
    BY <1>1, <1>2, <1>4 DEF GInv, TypeOK, EInv, RunHeld
  <1>6. NoFeedback'
    BY <1>1 DEF EInv, NoFeedback
  <1>7. \A p \in Owners : call[p] # Idle => row' = row
    <2> SUFFICES ASSUME NEW p \in Owners, call[p] # Idle PROVE row' = row
      OBVIOUS
    <2>1. lock = p /\ p # o
      BY <1>1 DEF GInv, CallServed, Working, LockHeld
    <2>2. \A j \in Jobs : row'[j] = row[j]
      BY <2>1 DEF Close, EInv, ClaimOwned
    <2>3. row' = [j \in Jobs |-> row'[j]] /\ row = [j \in Jobs |-> row[j]]
      BY DEF Close, GInv, TypeOK
    <2> QED BY <2>2, <2>3
  <1>8. PersistHeld'
    BY <1>1, <1>7, IdleStores DEF EInv, PersistHeld
  <1>9. NoLostUpdate'
    <2>1. Idle.kind = "idle"
      BY DEF Idle
    <2> QED BY <1>1, <1>7, <2>1 DEF EInv, NoLostUpdate, GInv, TypeOK
  <1> QED BY <1>3, <1>5, <1>6, <1>8, <1>9 DEF EInv

\* The lock holder writes at most one row, and the call or run it belongs to ends
\* or goes on to persist the claim just made.
LEMMA StoreE ==
  ASSUME GInv, EInv, Unlocked = {}, NEW o \in Owners, NEW j \in Jobs, Working(o),
         UNCHANGED <<phase, workers, lock>>,
         \A i \in Jobs : i = j \/ row'[i] = row[i],
         row'[j].status = "applying" => row'[j].owner = o,
         \A p \in Owners \ {o} :
           call'[p] = call[p] /\ cache'[p] = cache[p] /\ running'[p] = running[p],
         \/ call'[o] = Idle
         \/ call'[o] = [kind |-> "persist", job |-> j] /\ row'[j].status = "applying",
         \A i \in Jobs : running'[o] = i => row'[i].status # "applied"
  PROVE  EInv'
  <1>1. /\ phase[o] = "locked" /\ lock = o /\ o \in workers
        /\ \A p \in Owners \ {o} : phase[p] # "locked" /\ call[p] = Idle
    BY DEF Working, GInv, LockHeld, RegisteredListed, Registered, CallServed
  <1>2. \A p \in Owners : call'[p] = Idle \/ p = o
    BY <1>1
  <1>3. ClaimOwned'
    BY <1>1 DEF EInv, ClaimOwned
  <1>4. RunHeld'
    BY <1>1 DEF EInv, RunHeld
  <1>5. PersistHeld'
    <2> SUFFICES ASSUME NEW p \in Owners, NEW i \in Jobs,
                        call'[p] = [kind |-> "persist", job |-> i]
                 PROVE  row'[i].status = "applying" /\ row'[i].owner = p
      BY DEF PersistHeld
    <2>1. p = o /\ call'[o] = [kind |-> "persist", job |-> j]
      BY <1>2, IdleStores
    <2>2. [kind |-> "persist", job |-> i].job = [kind |-> "persist", job |-> j].job
      BY <2>1
    <2> QED BY <2>1, <2>2, IdleStores
  <1>6. \A p \in Owners : call'[p].kind \in {"idle", "persist"}
    BY <1>2 DEF Idle
  <1> QED BY <1>3, <1>4, <1>5, <1>6 DEF EInv, NoFeedback, NoLostUpdate

\* save() of a status other than applied by the lock holder.
LEMMA SaveE ==
  ASSUME GInv, EInv, Unlocked = {}, NEW o \in Owners, NEW j \in Jobs,
         NEW status \in Statuses, Working(o), Write(o, j, status),
         status = "applying" => row[j].owner = o,
         \A p \in Owners \ {o} : running'[p] = running[p],
         \A i \in Jobs : running'[o] = i =>
           IF i = j THEN status # "applied" ELSE running[o] = i
  PROVE  EInv'
  <1>1. /\ \A i \in Jobs : i = j \/ row'[i] = row[i]
        /\ row'[j].status = status
        /\ row'[j].status = "applying" => row'[j].owner = o
    BY DEF Write, Saved, GInv, TypeOK
  <1>2. /\ call'[o] = Idle
        /\ \A p \in Owners \ {o} : call'[p] = call[p] /\ cache'[p] = cache[p]
    BY DEF Write, Return, GInv, TypeOK
  <1>3. \A i \in Jobs : running'[o] = i => row'[i].status # "applied"
    BY <1>1 DEF EInv, RunHeld
  <1>4. /\ UNCHANGED <<phase, workers, lock>>
        /\ \A p \in Owners \ {o} :
             call'[p] = call[p] /\ cache'[p] = cache[p] /\ running'[p] = running[p]
    BY <1>2 DEF Write, Return
  <1> QED BY <1>1, <1>2, <1>3, <1>4, StoreE

LEMMA EnqueueE ==
  ASSUME GInv, EInv, Unlocked = {}, NEW o \in Owners, NEW j \in Jobs, Working(o),
         CommitEnqueue(o, j)
  PROVE  EInv'
  <1>1. /\ UNCHANGED <<phase, workers, lock, running>> /\ call'[o] = Idle
        /\ \A p \in Owners \ {o} : call'[p] = call[p] /\ cache'[p] = cache[p]
    BY DEF CommitEnqueue, Return, GInv, TypeOK
  <1>2. /\ \A i \in Jobs : i = j \/ row'[i] = row[i]
        /\ row'[j] = row[j] \/ row'[j].status = "queued"
    BY DEF CommitEnqueue, Empty, GInv, TypeOK
  <1>3. row'[j].status = "applying" => row'[j].owner = o
    BY <1>2 DEF EInv, ClaimOwned, Working, GInv, LockHeld
  <1>4. \A i \in Jobs : running'[o] = i => row'[i].status # "applied"
    BY <1>1, <1>2 DEF EInv, RunHeld
  <1> QED BY <1>1, <1>2, <1>3, <1>4, StoreE

LEMMA RefuseE ==
  ASSUME GInv, EInv, Unlocked = {}, NEW o \in Owners, NEW j \in Jobs, Working(o),
         Refuse(o), UNCHANGED running \/ RunEnds(o, j)
  PROVE  EInv'
  <1>1. /\ UNCHANGED <<phase, workers, lock, row, cache>> /\ call'[o] = Idle
        /\ \A p \in Owners \ {o} : call'[p] = call[p]
    BY DEF Refuse, Return, GInv, TypeOK
  <1>2. /\ \A p \in Owners \ {o} : running'[p] = running[p]
        /\ \A i \in Jobs : running'[o] = i => running[o] = i
    BY OwnersAssumption DEF RunEnds, GInv, TypeOK
  <1>3. row'[j].status = "applying" => row'[j].owner = o
    BY <1>1 DEF EInv, ClaimOwned, Working, GInv, LockHeld
  <1>4. \A i \in Jobs : running'[o] = i => row'[i].status # "applied"
    BY <1>1, <1>2 DEF EInv, RunHeld
  <1> QED BY <1>1, <1>2, <1>3, <1>4, StoreE

LEMMA ClaimE ==
  ASSUME GInv, EInv, Unlocked = {}, NEW o \in Owners, NEW j \in Jobs, Working(o),
         CommitClaim(o, j)
  PROVE  EInv'
  <1>1. CASE Refuse(o)
    BY <1>1, RefuseE DEF CommitClaim
  <1>2. CASE ~Refuse(o)
    <2>1. /\ row' = [row EXCEPT ![j] = [status |-> "applying", owner |-> o]]
          /\ call[o] = [kind |-> "claim", job |-> j]
          /\ call' = [call EXCEPT ![o].kind = "persist"]
          /\ UNCHANGED <<phase, workers, lock, cache, running>>
      BY <1>2 DEF CommitClaim
    <2>2. /\ \A i \in Jobs : i = j \/ row'[i] = row[i]
          /\ row'[j].status = "applying" /\ row'[j].owner = o
      BY <2>1 DEF GInv, TypeOK
    <2>3. /\ call'[o] = [kind |-> "persist", job |-> j]
          /\ \A p \in Owners \ {o} : call'[p] = call[p]
      BY <2>1 DEF GInv, TypeOK
    <2>4. \A i \in Jobs : running'[o] = i => row'[i].status # "applied"
      BY <2>1, <2>2 DEF EInv, RunHeld
    <2> QED BY <2>1, <2>2, <2>3, <2>4, StoreE
  <1> QED BY <1>1, <1>2

LEMMA PersistE ==
  ASSUME GInv, EInv, Unlocked = {}, NEW o \in Owners, NEW j \in Jobs, Working(o),
         CommitPersist(o, j)
  PROVE  EInv'
  <1>1. row[j].owner = o
    BY DEF CommitPersist, EInv, PersistHeld
  <1>2. /\ \A p \in Owners \ {o} : running'[p] = running[p]
        /\ running'[o] = j
    BY DEF CommitPersist, GInv, TypeOK
  <1> QED BY <1>1, <1>2, SaveE DEF CommitPersist, Statuses

\* markApplied() ends the run of the job it settles; nobody else writes applied.
LEMMA SettlingE ==
  ASSUME GInv, EInv, Unlocked = {}, NEW o \in Owners, NEW j \in Jobs, Working(o),
         Settling(o, j)
  PROVE  EInv'
  <1>1. UNCHANGED running \/ RunEnds(o, j)
    BY DEF Settling, CommitApplied, CommitOutcome, CommitReopen, CommitRetryReviewed,
      CommitThumbsDown
  <1>2. CASE Refuse(o)
    BY <1>1, <1>2, RefuseE
  <1>3. CASE ~Refuse(o)
    <2>1. PICK status \in Statuses \ {"none", "applying"} : Write(o, j, status)
      BY <1>3, SettlingSettles DEF Settles, GInv
    <2>2. row'[j].status = status
      BY <2>1 DEF Write, Saved, GInv, TypeOK
    <2>3. status = "applied" => RunEnds(o, j)
      BY <1>3, <2>2 DEF Settling, CommitApplied, CommitOutcome, Outcomes, CommitReopen,
        CommitRetryReviewed, CommitThumbsDown, Write, Saved, GInv, TypeOK
    <2>4. /\ \A p \in Owners \ {o} : running'[p] = running[p]
          /\ \A i \in Jobs : running'[o] = i =>
                IF i = j THEN status # "applied" ELSE running[o] = i
      BY <1>1, <2>3, OwnersAssumption DEF RunEnds, GInv, TypeOK
    <2> QED BY <2>1, <2>4, SaveE
  <1> QED BY <1>2, <1>3

LEMMA WriteBackE ==
  ASSUME GInv, EInv, Unlocked = {}, NEW o \in Owners, WriteBack(o)
  PROVE  EInv'
  <1>1. PICK j \in Jobs, status \in {"queued", "paused_for_review"} :
          Working(o) /\ Write(o, j, status) /\ RunEnds(o, j)
    BY DEF WriteBack
  <1>2. /\ \A p \in Owners \ {o} : running'[p] = running[p]
        /\ \A i \in Jobs : running'[o] = i => running[o] = i /\ i # j
    BY <1>1, OwnersAssumption DEF RunEnds, GInv, TypeOK
  <1> QED BY <1>1, <1>2, SaveE DEF Statuses

LEMMA FitProbeE ==
  ASSUME GInv, EInv, Unlocked = {}, NEW o \in Owners, RecordFitProbe(o)
  PROVE  EInv'
  <1>1. PICK j \in Jobs : row' = Saved(j, "skipped")
    BY DEF RecordFitProbe
  <1>2. UNCHANGED <<phase, workers, lock, cache, call, running>> /\ Working(o)
        /\ call[o] = Idle
    BY DEF RecordFitProbe
  <1>3. /\ \A i \in Jobs : i = j \/ row'[i] = row[i]
        /\ row'[j].status = "skipped"
    BY <1>1 DEF Saved, GInv, TypeOK
  <1>4. \A i \in Jobs : running'[o] = i => row'[i].status # "applied"
    BY <1>2, <1>3 DEF EInv, RunHeld
  <1> QED BY <1>2, <1>3, <1>4, StoreE

LEMMA EStep == GInv /\ EInv /\ Unlocked = {} /\ [Next]_vars => EInv'
  <1> SUFFICES ASSUME GInv, EInv, Unlocked = {}, [Next]_vars PROVE EInv'
    OBVIOUS
  <1>1. CASE UNCHANGED vars
    BY <1>1 DEF vars, EInv, ClaimOwned, RunHeld, PersistHeld, NoLostUpdate, NoFeedback
  <1>2. ASSUME NEW o \in Owners, Commit(o) PROVE EInv'
    <2>1. PICK j \in Jobs : \/ CommitEnqueue(o, j) \/ CommitClaim(o, j)
                            \/ CommitPersist(o, j) \/ Settling(o, j)
      BY <1>2 DEF Commit, Settling
    <2>2. Working(o)
      BY <2>1, CommitWorking
    <2> QED BY <2>1, <2>2, EnqueueE, ClaimE, PersistE, SettlingE
  <1>3. ASSUME NEW o \in Owners, Advance(o) PROVE EInv'
    BY <1>2, <1>3, LifeE, ListingE, WriteBackE, FitProbeE DEF Advance
  <1>4. ASSUME NEW o \in Owners,
               Open(o) \/ Close(o) \/ Crash(o) \/ RecyclePid(o) \/ StrangerExits(o)
        PROVE  EInv'
    BY <1>4, OpenE, CloseE, LifeE
  <1> QED BY <1>1, <1>3, <1>4 DEF Next

LEMMA Exclusive == ASSUME Unlocked = {} PROVE Spec => [](GInv /\ EInv)
  <1>1. GInv /\ EInv /\ [Next]_vars => EInv'
    BY EStep
  <1> QED BY <1>1, InitE, InitG, GStep, PTL DEF Spec

\* While a process awaits the run of a job, nobody else has claimed the job and
\* nobody has recorded it as sent.
THEOREM RunsExclusive == ASSUME Unlocked = {} PROVE Spec => []RunExclusive
  <1>1. GInv /\ EInv => RunExclusive
    <2> SUFFICES ASSUME GInv, EInv, NEW o \in Owners, NEW j \in Jobs, running[o] = j
                 PROVE  row[j].owner \in {o, NoOne} /\ row[j].status # "applied"
      BY DEF RunExclusive
    <2>1. phase[o] = "locked" /\ row[j].status # "applied"
      BY DEF EInv, RunHeld
    <2>2. row[j].owner \in {lock, NoOne}
      BY DEF GInv, TypeOK, EInv, ClaimOwned
    <2> QED BY <2>1, <2>2 DEF GInv, LockHeld
  <1> QED BY <1>1, Exclusive, PTL

\* Every claim in the file can be found again by its owner's registration.
THEOREM ClaimsRegistered == ASSUME Unlocked = {} PROVE Spec => []ClaimRegistered
  <1>1. EInv => ClaimRegistered
    BY DEF EInv, ClaimOwned, ClaimRegistered
  <1> QED BY <1>1, Exclusive, PTL

\* What a worker writes from its cache is what the file holds.
THEOREM WritesFresh == ASSUME Unlocked = {} PROVE Spec => []NoLostUpdate
  <1>1. EInv => NoLostUpdate
    BY DEF EInv
  <1> QED BY <1>1, Exclusive, PTL

\* An applied row is out of reach of every handler.
LEMMA AppliedStep ==
  ASSUME GInv, EInv, Unlocked = {}, Next, NEW j \in Jobs, row[j].status = "applied"
  PROVE  row'[j].status = "applied"
  <1>1. PICK o \in Owners :
          \/ Open(o) \/ Advance(o) \/ Close(o)
          \/ Crash(o) \/ RecyclePid(o) \/ StrangerExits(o)
    BY DEF Next
  <1>2. CASE Open(o) \/ Refresh(o) \/ Calling(o)
    <2>1. PICK expired \in SUBSET Jobs : row' = Recovered(expired)
      BY <1>2 DEF Open, Refresh, Calling, Begin, List
    <2> QED BY <2>1 DEF Recovered
  <1>3. CASE Close(o)
    BY <1>3 DEF Close
  <1>4. CASE \/ Register(o) \/ AcquireWorkerLock(o) \/ Crash(o)
             \/ RecyclePid(o) \/ StrangerExits(o)
    BY <1>4 DEF Register, AcquireWorkerLock, Crash, RecyclePid, StrangerExits
  <1>5. CASE WriteBack(o)
    <2>1. PICK i \in Jobs, status \in Statuses : running[o] = i /\ Write(o, i, status)
      BY <1>5 DEF WriteBack, Statuses
    <2>2. i # j
      BY <2>1 DEF EInv, RunHeld
    <2> QED BY <2>1, <2>2 DEF Write, Saved, GInv, TypeOK
  <1>6. CASE RecordFitProbe(o)
    BY <1>6 DEF RecordFitProbe, Saved, GInv, TypeOK
  <1>7. CASE Commit(o)
    <2>1. PICK i \in Jobs : \/ CommitEnqueue(o, i) \/ CommitClaim(o, i)
                            \/ CommitPersist(o, i) \/ Settling(o, i)
      BY <1>7 DEF Commit, Settling
    <2>2. phase[o] = "locked" /\ call[o].job = i /\ call[o].kind # "idle"
      BY <2>1, CommitWorking DEF Working
    <2>3. CASE CommitEnqueue(o, i)
      <3>1. i = j => Stored(i)
        BY DEF Stored
      <3> QED BY <2>3, <3>1 DEF CommitEnqueue, GInv, TypeOK
    <2>4. CASE CommitClaim(o, i)
      BY <2>4 DEF CommitClaim, Refuse, GInv, TypeOK
    <2>5. CASE CommitPersist(o, i)
      <3>1. i # j
        BY <2>5 DEF CommitPersist, EInv, PersistHeld
      <3> QED BY <2>5, <3>1 DEF CommitPersist, Write, Saved, GInv, TypeOK
    <2>6. CASE Settling(o, i) /\ i # j
      BY <2>6, SettlingSettles DEF Settles, Refuse, Write, Saved, GInv, TypeOK
    <2>7. CASE Settling(o, i) /\ i = j
      <3>1. call[o].kind \notin {"idle", "enqueue", "persist", "thumbs_down"}
        BY <2>2, <2>7 DEF Settling, CommitApplied, CommitOutcome, Outcomes, CommitReopen,
          CommitRetryReviewed, CommitThumbsDown, EInv, NoFeedback
      <3>2. cache[o][j] \in {"none", "applied"}
        BY <2>2, <2>7, <3>1 DEF EInv, NoLostUpdate
      <3>3. CASE CommitApplied(o, j)
        BY <3>3 DEF CommitApplied, Refuse, Write, Saved, GInv, TypeOK
      <3>4. CASE CommitOutcome(o, j) \/ CommitReopen(o, j) \/ CommitRetryReviewed(o, j)
        BY <3>2, <3>4 DEF CommitOutcome, CommitReopen, CommitRetryReviewed, Refuse
      <3>5. CASE CommitThumbsDown(o, j)
        BY <3>1, <3>5 DEF CommitThumbsDown
      <3> QED BY <2>7, <3>3, <3>4, <3>5 DEF Settling
    <2> QED BY <2>1, <2>3, <2>4, <2>5, <2>6, <2>7
  <1> QED BY <1>1, <1>2, <1>3, <1>4, <1>5, <1>6, <1>7 DEF Advance

\* An application recorded as sent stays recorded as sent.
THEOREM Finality == ASSUME Unlocked = {} PROVE Spec => AppliedIsFinal
  <1>1. GInv /\ EInv /\ [Next]_vars =>
          [\A j \in Jobs : row[j].status = "applied" => row'[j].status = "applied"]_vars
    BY AppliedStep
  <1> QED BY <1>1, Exclusive, PTL DEF Spec, AppliedIsFinal
=============================================================================
