\* Two sessions at a time: AllAcknowledgedCompletes fails.
SPECIFICATION Spec
CONSTANTS
  Sessions = {s1, s2}
  Users = {"officer", "manager"}
  RoleOf <- MCRoleOf
  Channels = {"AFTN", "EMAIL"}
  Texts = {t1}
  ITA2 = {t1}
  None = None
  MaxHandlers = 7
INVARIANT AllAcknowledgedCompletes
CHECK_DEADLOCK FALSE
