SPECIFICATION CommandSpec
CONSTANTS
  mqtt = mqtt
  shell = shell
  Writers <- TwoWriters
  Sub = mqtt
  Prompt = TRUE
  HealthyBus = FALSE
  Texts <- Arguments
  Values = 3
  RelayNumbers <- Indices
INVARIANTS CommandTypeOK
PROPERTIES EveryCommandReported PacketsGoOn
