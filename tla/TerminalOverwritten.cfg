\* An accepted ticket is overwritten by expired.
SPECIFICATION Spec
CONSTANTS
  r1 = r1
  r2 = r2
  r3 = r3
  s1 = s1
  s2 = s2
  good = good
  forged = forged
  partial = partial
  other = other
  Requests = {r1, r2}
  Sessions = {s1}
  Submissions = {good}
  SessionOf <- MCSessionOf
  Verdict <- MCVerdict
  Durable = TRUE
  TicketTtl = 1
  LeaseTime = 1
  MaxTime = 2
  NoRequest = NoRequest
  NoSubmission = NoSubmission
PROPERTIES
  TerminalTicketsStayTerminal
\* Every request may be answered and the clock at its bound.
CHECK_DEADLOCK FALSE
