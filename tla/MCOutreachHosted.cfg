SPECIFICATION Spec
CONSTANTS
  c1 = c1
  r1 = r1
  r2 = r2
  Contacts = {c1}
  Requests = {r1, r2}
  Gaps <- ShortGaps
  Cap = 1
  Clicks = {"open", "sent", "bounce"}
  Tries = 2
  MaxDay = 2
SYMMETRY Symmetric
CONSTRAINT RowsKept
INVARIANTS TypeOK AnsweredNotMailed RepeatRefused FollowUpsWait CapHeld
PROPERTIES ClicksKeepClicks
CHECK_DEADLOCK FALSE
