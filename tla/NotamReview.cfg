\* One request through every review and publication path, three channels.
SPECIFICATION Spec
CONSTANTS
  Requests = {r1}
  Users = {"officer", "manager", "admin"}
  RoleOf <- MCRoleOf
  Channels = {"AFTN", "EMAIL", "AIXM"}
  Series = {"A"}
  Bodies = {b1, b2}
  ITA2 = {b1}
  None = None
  MaxYear = 0
  MaxTrail = 9
INVARIANTS TypeOK FourEyes AuditTrailReplays OnlyApprovedIsSent PublishingHasWork ListedIffPublished
PROPERTIES ImplementsGate ApprovedTextIsFrozen CompletionIsEarned
