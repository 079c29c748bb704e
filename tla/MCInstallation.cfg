CONSTANTS
  Source <- MCSource
  Origins = {"fresh", "older", "ledger", "legacy parent", "restored"}
  SeedOnStartup = TRUE
  MaxEvents <- MCMaxEvents
SPECIFICATION Spec

INVARIANTS
  SchemaComplete
  DataKept
  RerunAddsNothing
  SourceArrived

PROPERTIES
  ComesUp

CHECK_DEADLOCK FALSE
