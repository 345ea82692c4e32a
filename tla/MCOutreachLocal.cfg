SPECIFICATION Spec
CONSTANTS
  c1 = c1
  c2 = c2
  r1 = r1
  r2 = r2
  Contacts = {c1, c2}
  Requests = {r1, r2}
  Gaps <- ShortGaps
  Cap = 2
  Clicks = {"open", "manual", "bounce"}
  MaxBuilds = 2
  MaxRuns = 2
  MaxCut = 1
  MaxDay = 1
SYMMETRY Symmetric
INVARIANTS TypeOK CardMailsOnce RerunsSendOnce CapShared AnsweredNotMailed
CHECK_DEADLOCK FALSE
