CONSTANTS
  ByteValues = {0, 1, 62, 63, 251, 255}
  MaxBytes = 4
  Digits = {0, 1, 26, 52, 61}
  Chars = {32, 37, 43, 47, 97, 233}
  MaxPath = 5
  Years = {1970, 1971, 1972, 1999, 2000, 2001, 2024, 2038, 2096, 2099}
  MaxBody = 7
SPECIFICATION Spec
INVARIANTS
  Base64RoundTrip
  DateIsCalendar
  EventRoundTrip
  RoutesAsDocumented
  RequestRoundTrip
  MultipartRoundTrip
  ServesNamedFile
  AnswerRoundTrip
