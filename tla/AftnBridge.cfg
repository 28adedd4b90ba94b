\* Three deliveries, one of them outside ITA-2; crashes and losses at will.
SPECIFICATION FairSpec
CONSTANTS
  Deliveries = {d1, d2, d3}
  Sendable = {d1, d2}
  MaxAttempts = 3
  MaxLate = 1
INVARIANTS TypeOK NamedIsWritten SentIsListed
PROPERTY EverySentIsAcknowledged
