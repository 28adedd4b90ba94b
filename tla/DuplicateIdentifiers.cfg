\* A re-saved draft and a new one carry the same identifier in their texts.
SPECIFICATION Spec
CONSTANTS
  Requests = {r1, r2}
  Users = {"officer", "manager"}
  RoleOf <- MCRoleOf
  Channels = {"AFTN"}
  Series = {"A"}
  Bodies = {b1}
  ITA2 = {b1}
  None = None
  MaxYear = 0
  MaxTrail = 9
INVARIANT PrintedIdentifiersUnique
