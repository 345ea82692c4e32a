-------------------------- MODULE MCOutreachHosted --------------------------
(* OutreachHosted over a few contacts and requests; gaps of one and three days. *)
EXTENDS OutreachHosted

CONSTANTS c1, r1, r2

ShortGaps == <<1, 3>>
\* Once a write has dropped rows the properties of the gates say nothing.
RowsKept == ~lost

Symmetric == Permutations(Contacts) \cup Permutations(Requests)
=============================================================================
