\* Two requests that reference each other, two series, a change of year.
SPECIFICATION Spec
CONSTANTS
  Requests = {r1, r2}
  Users = {"officer"}
  RoleOf <- MCRoleOf
  Channels = {"AFTN"}
  Series = {"A", "B"}
  Bodies = {b1}
  ITA2 = {b1}
  None = None
  MaxYear = 1
  MaxTrail = 4
INVARIANTS ReferencesResolve 
