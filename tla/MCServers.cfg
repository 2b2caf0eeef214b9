SPECIFICATION ServersSpec
CONSTANTS
  Caller = {c1, c2}
  Mailbox = {m1}
  Password = {p1, p2}
  UserId = {u1, u2, u3}
  SessionId = {s1, s2}
  TTL = 1
  MaxTime = 2
  Faulty = TRUE
  None = None
  Host = {"a.com", "b.com", "localhost", "-"}
  Formed = {"a.com", "b.com", "localhost"}
  Dotted = {"a.com", "b.com"}
  Command <- Commands
  Incoming <- Requests
  QueryLimit = 3
  MaxURLLength = 7
  HostLength = 2
  Unset = Unset
  Malformed = Malformed
INVARIANTS
  IamTypeOK
  UsersBounded
  OwnersCanLogIn
  EndedSessionsGone
  HandlerTypeOK
  AcceptedIsServed
  LocationKeepsRequest
  MethodKept
PROPERTY AccessRefined
SYMMETRY Symmetry
