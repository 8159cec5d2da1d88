SPECIFICATION MessageSpec
CONSTANTS
  Chars <- MCChars
  tolower <- MCtolower
  Urls <- MCUrls
  Names <- MCNames
  Values <- MCValues
  Bodies <- MCBodies
  MaxHeaders = 3
  ContentLength <- MCContentLength
  ContentType <- MCContentType
INVARIANT FieldsAsSent
INVARIANT ValuesExpected
CHECK_DEADLOCK FALSE
