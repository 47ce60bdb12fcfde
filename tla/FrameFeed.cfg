SPECIFICATION FrameSpec
CONSTANTS
  mqtt = mqtt
  Writers <- OneWriter
  Prompt = TRUE
  HealthyBus = FALSE
  SlaveAddr = 17
  Polling <- Cycle
  Buses <- Lines
INVARIANTS FrameTypeOK NoForeignData
PROPERTIES TrueSlot BlocksKeepComing
