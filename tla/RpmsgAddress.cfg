SPECIFICATION RpmsgSpec
CONSTANTS
  Callers = {c1, c2}
  Endpoints = {p1, p2, p3}
  BmpSize = 1
  IntLimit = 4
  Sources = {ANY}
  Dests = {7, ANY}
  ListHead = ListHead
  ANY = ANY
  Nobody = Nobody
INVARIANTS
  AddressesUnique
CHECK_DEADLOCK FALSE
