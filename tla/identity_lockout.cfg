SPECIFICATION Spec
CONSTANTS
  Workers = {w1}
  alice = alice
  bob = bob
  carol = carol
  laptop = laptop
  NoRow = NoRow
  Nobody = Nobody
  Users <- MCTwoUsers
  Supers = {}
  Roles <- MCRoles
  Devices = {}
  Entities <- MCTwoEntities
  Tokens = {}
  MaxKey = 0
  Stored <- MCOneAdmin
  MaxRequests = 5
INVARIANT LastAdminStays
CHECK_DEADLOCK FALSE
