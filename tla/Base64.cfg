CONSTANTS
  ByteValues = {0, 251}
  MaxBytes = 3
  Digits = {0}
  Chars = {97}
  MaxPath = 0
  Years = {1970}
  MaxBody = 0
SPECIFICATION Spec
INVARIANT Base64Inverse
