\* Three requests over the in-memory Store: no primary key, two categories, a board of two rows.
SPECIFICATION BoardSpec
SYMMETRY MCSymmetry
CONSTANTS
  r1 = r1
  r2 = r2
  r3 = r3
  s1 = s1
  s2 = s2
  s3 = s3
  first = first
  second = second
  third = third
  forged = forged
  Requests = {r1, r2, r3}
  Sessions = {s1, s2, s3}
  Submissions = {first, second, third, forged}
  SessionOf <- MCSessionOf
  Verdict <- MCVerdict
  Durable = FALSE
  TicketTtl = 0
  LeaseTime = 0
  MaxTime = 1
  NoRequest = NoRequest
  NoSubmission = NoSubmission
  CategoryCount = 2
  Order <- MCOrder
  Value <- MCValue
  BoardLimit = 2
INVARIANTS
  IInv
  RankIsWithinTotal
  BoardsAgreeWithRanks
\* Every request may be answered and the clock at its bound.
CHECK_DEADLOCK FALSE
