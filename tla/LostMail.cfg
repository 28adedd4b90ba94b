\* A mail behind which another one cannot be ingested: FetchedBecomesRequest fails.
SPECIFICATION Spec
CONSTANTS
  Mails = {m1, m2, m3}
  Faulty = {m3}
  MaxFaults = 0
INVARIANT FetchedBecomesRequest
