\* One creation, crashes, failed calls and edits of both registrations.
CONSTANTS
  c1 = c1
  None = None
  Creations = {c1}
  MaxEdits = 2
  MaxFaults = 2
SPECIFICATION LiveSpec
INVARIANT TypeOK
INVARIANT JournalIsDurable
PROPERTY JournalNeverGoesBack
PROPERTY AbandonKeepsOlder
PROPERTY AbandonCleans
PROPERTY ContinueRecovers
CHECK_DEADLOCK FALSE
