SPECIFICATION Spec
CONSTANTS
  Workers = {w1, w2}
  alice = alice
  bob = bob
  carol = carol
  laptop = laptop
  NoRow = NoRow
  Nobody = Nobody
  Users <- MCUsers
  Supers = {}
  Roles <- MCRoles
  Devices <- MCDevices
  Entities <- MCEntities
  Tokens = {t1, t2}
  MaxKey = 2
  Stored <- MCStored
  MaxRequests = 3
SYMMETRY Symmetry
INVARIANT DisabledHasNoSession
PROPERTIES
  AdminRemains
  EnabledOnPurpose
  DecidedOnce
CHECK_DEADLOCK FALSE
