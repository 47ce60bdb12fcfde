SPECIFICATION DriverSpec
CONSTANTS
  mqtt = mqtt
  shell = shell
  Writers <- TwoWriters
  Prompt = TRUE
  HealthyBus = TRUE
  Requests <- Temperatures
  Panels <- OnePanel
  LossyLine = FALSE
  MaxCalls = 1
  MaxPanel = 0
INVARIANT AcceptedIsSent
