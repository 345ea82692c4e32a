--------------------------- MODULE MCOutreachLocal ---------------------------
(* OutreachLocal over a few contacts and requests; one follow-up, a day later. *)
EXTENDS OutreachLocal

CONSTANTS c1, c2, r1, r2

ShortGaps == <<1>>
Symmetric == Permutations(Contacts) \cup Permutations(Requests)
=============================================================================
