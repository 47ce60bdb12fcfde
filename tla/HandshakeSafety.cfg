SPECIFICATION Spec
CONSTANTS
  mqtt = mqtt
  shell = shell
  telnet = telnet
  Writers <- AllWriters
  Prompt = TRUE
  HealthyBus = FALSE
SYMMETRY WriterSymmetry
INVARIANTS TypeOK OneTransmitter QuietLine FlagsMatchLine
PROPERTIES SlotOnly LineDiscipline
