\* Every answer of the provider and the store, with enough retries for the
\* delays to reach their cap.
SPECIFICATION UCSpec
CONSTANTS
  MaxRetries = 7
  HasApiKey = TRUE
  Instants = {0, 1}
INVARIANTS
  BudgetSpent
  ErrorTellsLastFailure
  DataSurvivesTheLLM
  NeverBroadens
CHECK_DEADLOCK FALSE
