SPECIFICATION DriverSpec
CONSTANTS
  mqtt = mqtt
  shell = shell
  Writers <- OneWriter
  Prompt = TRUE
  HealthyBus = TRUE
  Requests <- AllRequests
  Panels <- OnePanel
  LossyLine = FALSE
  MaxCalls = 2
  MaxPanel = 1
INVARIANTS DriverTypeOK AcceptedIsSent
PROPERTIES FreshWriteIsExact StaleWriteIsOld CommandTakesEffect
