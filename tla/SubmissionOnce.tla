--------------------------- MODULE SubmissionOnce ---------------------------
(***************************************************************************)
(* What the worker promises of an application, seen from outside: it is     *)
(* sent after the intent to send it is on record, and not again as long as  *)
(* the click is remembered; the employer may get it at any time after; and  *)
(* it is settled as applied only when the employer has it.  None of this is *)
(* ever taken back.                                                         *)
(*                                                                          *)
(* ApplicationWorker implements it: queue, restarts, checkpoints, parked    *)
(* reviews and evidence are steps that change nothing here.                 *)
(***************************************************************************)
EXTENDS Naturals

CONSTANT Applications

VARIABLES
  intended,   \* the intent to send is on record
  sent,       \* runs that clicked the final Submit
  forgotten,  \* the report of the click was lost and not found again
  delivered,  \* the employer has it
  settled     \* the queue says applied

promise == <<intended, sent, forgotten, delivered, settled>>

Init ==
  /\ intended = [a \in Applications |-> FALSE]
  /\ sent = [a \in Applications |-> 0]
  /\ forgotten = [a \in Applications |-> FALSE]
  /\ delivered = [a \in Applications |-> FALSE]
  /\ settled = [a \in Applications |-> FALSE]

Intend(a) ==
  /\ intended' = [intended EXCEPT ![a] = TRUE]
  /\ UNCHANGED <<sent, forgotten, delivered, settled>>

Submit(a) ==
  /\ intended[a]
  /\ sent[a] = 0 \/ forgotten[a]
  /\ sent' = [sent EXCEPT ![a] = @ + 1]
  /\ \E got \in {delivered[a], TRUE} : delivered' = [delivered EXCEPT ![a] = got]
  /\ UNCHANGED <<intended, forgotten, settled>>

Forget(a) ==
  /\ intended[a]
  /\ forgotten' = [forgotten EXCEPT ![a] = TRUE]
  /\ UNCHANGED <<intended, sent, delivered, settled>>

Remember(a) ==
  /\ forgotten' = [forgotten EXCEPT ![a] = FALSE]
  /\ UNCHANGED <<intended, sent, delivered, settled>>

Deliver(a) ==
  /\ sent[a] > 0
  /\ delivered' = [delivered EXCEPT ![a] = TRUE]
  /\ UNCHANGED <<intended, sent, forgotten, settled>>

Settle(a) ==
  /\ delivered[a]
  /\ settled' = [settled EXCEPT ![a] = TRUE]
  /\ UNCHANGED <<intended, sent, forgotten, delivered>>

Next ==
  \E a \in Applications :
    Intend(a) \/ Submit(a) \/ Forget(a) \/ Remember(a) \/ Deliver(a) \/ Settle(a)

Spec == Init /\ [][Next]_promise
=============================================================================
