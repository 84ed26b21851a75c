SPECIFICATION LiveSpec
CONSTANTS
  Calls = {c1}
  MaxRetries = 2
  Options <- AllOptions
  Statuses <- MCStatuses
INVARIANTS
  TypeOK
  AtMostOnce
  RepeatHarmless
  UnrepeatableSentOnce
  AnswerToLastAttempt
PROPERTIES
  NoSendAfterAbort
  AbortSurfacesAsAbort
  KeepsPromise
  TimedCallSettles
  AbortedCallSettles
CHECK_DEADLOCK FALSE
