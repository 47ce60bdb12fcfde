SPECIFICATION LinkSpec
CONSTANTS
  Sockets <- Few
  MaxLate = 2
  MeetingsCounted = 1
  MaxFaults = 0
PROPERTIES ResumesUnmet
