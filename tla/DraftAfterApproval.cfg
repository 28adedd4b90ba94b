\* Two sessions at a time: SignedByAnother fails.
SPECIFICATION Spec
CONSTANTS
  Sessions = {s1, s2}
  Users = {"officer", "manager"}
  RoleOf <- MCRoleOf
  Channels = {"AFTN", "EMAIL"}
  Texts = {t1}
  ITA2 = {t1}
  None = None
  MaxHandlers = 7
INVARIANT SignedByAnother
CHECK_DEADLOCK FALSE
