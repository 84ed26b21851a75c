SPECIFICATION CommandSpec
CONSTANTS
  Lines <- MCLines
  MaxLines = 3
  MaxChunk = 4
INVARIANTS
  CommandTypeOK
  PromptWhileReading
  EventsOfBody
  BodyNeverLeftOpen
CHECK_DEADLOCK FALSE
