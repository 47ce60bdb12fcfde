SPECIFICATION NetworkSpec
CONSTANTS
  Ssid <- Home
  Air <- Neighbours
  MaxDrops = 1
  MaxFails = 1
  MaxQueue = 2
  Sockets <- Few
  MaxLate = 0
  MeetingsCounted = 0
  MaxFaults = 0
INVARIANTS WifiTypeOK NoTokenMissed
PROPERTIES BootCompletes ReportsResume CommandsHeard
