SPECIFICATION MCSpec
CONSTANTS
  Urls = {"u", "v"}
  TypedNames = {"n", "up", "img"}
  Entries = {"up"}
  Images = {"img"}
  Bridges = {"br"}
  MaxWizards = 1
  MaxQueries = 3
  MaxEdits = 3
  GuestUsers = {"u", "root"}
  Root = "root"
  Displays = {"0", "1"}
  QueueCap = 1
  MaxDialogs = 2
  MaxChecks = 4
INVARIANTS
  StartsWhatWasReviewed
  ReadyMatchesSelection
PROPERTIES
  WizardResponds
  InputComesBack
CHECK_DEADLOCK FALSE
