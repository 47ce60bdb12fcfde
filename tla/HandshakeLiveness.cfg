SPECIFICATION Spec
CONSTANTS
  mqtt = mqtt
  shell = shell
  telnet = telnet
  Writers <- TwoWriters
  Prompt = TRUE
  HealthyBus = TRUE
PROPERTIES EveryCallReturns ListeningResumes
