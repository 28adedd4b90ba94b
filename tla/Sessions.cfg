\* Two sessions at a time.
SPECIFICATION Spec
CONSTANTS
  Sessions = {s1, s2}
  Users = {"officer", "manager"}
  RoleOf <- MCRoleOf
  Channels = {"AFTN", "EMAIL"}
  Texts = {t1, t2}
  ITA2 = {t1}
  None = None
  MaxHandlers = 7
INVARIANTS TypeOK StatusIsFounded UnsignedIsNotHanded OnlyOverridesDeadlock
PROPERTIES ImplementsLifecycle
CHECK_DEADLOCK FALSE
