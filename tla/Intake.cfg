\* Mails, uploads to both stores, and extraction.
SPECIFICATION Spec
CONSTANTS
  m1 = m1  m2 = m2  m3 = m3
  u1 = u1  u2 = u2  u3 = u3  k1 = k1  k2 = k2
  p1 = p1  r1 = r1  j1 = j1
  c1 = c1  c2 = c2  anna = anna  kofi = kofi
  None = None
  Mails = {m1, m2, m3}
  Faulty = {m3}
  MaxFaults = 2
  Uploads = {u1, u2, u3}
  Keys = {k1, k2}
  KeyOf <- MCKeyOf
  Public = {u2}
  Files = {u1, u2}
  Portal = {p1}
  Reruns = {r1}
  Confidence <- MCConfidence
  Jobs <- MCJobs
  JobOf <- MCJobOf
  Content <- MCContent
  Accepts <- MCAccepts
  Officer <- MCOfficer
  Override <- MCOverride
CHECK_DEADLOCK FALSE
INVARIANTS TypeOK OnlyRollbacksLose EvidenceIsWhole DataIsOfARun
PROPERTY EveryMailIsRead
