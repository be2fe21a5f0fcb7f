SPECIFICATION OutboundSpec
CONSTANTS
  sms = sms
  email = email
  stop = stop
  Caller = {c1, c2}
  Event = {sms, email, stop}
  Kind <- MCKind
  Reply = {"text"}
SYMMETRY CallerSymmetry
INVARIANTS
  AtMostOncePerEvent
  SentIsTrue
PROPERTIES
  WriteAhead
  ClosedStaysClosed
