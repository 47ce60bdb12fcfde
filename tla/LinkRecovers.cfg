SPECIFICATION LinkSpec
CONSTANTS
  Sockets <- Scarce
  MaxLate = 1
  MeetingsCounted = 2
  MaxFaults = 2
INVARIANTS LinkTypeOK OrphansExplained
PROPERTIES FlagRepaired TelemetryRecovers CommandsRecover
