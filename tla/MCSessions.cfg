SPECIFICATION Spec
CONSTANTS
  Sid = {s1, s2}
  Browser = {b1}
  Call = {r1, r2}
  NoCookie = NoCookie
  Life = 2
  MaxLag = 1
INVARIANTS
  TypeOK
  SessionsLast
PROPERTIES
  LogoutEnds
  SessionsForgotten
