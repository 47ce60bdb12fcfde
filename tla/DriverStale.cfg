SPECIFICATION DriverSpec
CONSTANTS
  mqtt = mqtt
  shell = shell
  Writers <- OneWriter
  Prompt = TRUE
  HealthyBus = TRUE
  Requests <- Temperatures
  Panels <- OnePanel
  LossyLine = FALSE
  MaxCalls = 2
  MaxPanel = 0
PROPERTY SetTouchesOnlyItsField
