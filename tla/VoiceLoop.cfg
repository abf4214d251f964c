SPECIFICATION FairSpec
CONSTANTS
  Autostart = TRUE
  Processes = {1, 2}
  EventQueue = 1
  SpeechStart = 1
  PreRoll = 0
  MinSpeech = 2
  SilenceLimit = 1
  MaxUtterance = 2
  MaxWakes = 2
  MaxFiles = 2
  MaxReopens = 1
INVARIANTS
  WorkerOwned
  AnswersIgnored
  
PROPERTIES
  AskHasItsWake
  RecordingsServed
CHECK_DEADLOCK FALSE
