SPECIFICATION Spec
CONSTANTS
  Letters <- MCLetters
  Requests <- MCRequests
  OtherLines <- MCOtherLines
  TokenLength = 3
  IsDigit = 1
INVARIANTS
  TypeOK
  ParsedAsMeant
  AcceptedAsOffered
  PeersAgree
\* A request ends.
CHECK_DEADLOCK FALSE
