SPECIFICATION Spec
CONSTANTS
  p1 = p1
  p2 = p2
  w1 = w1
  w2 = w2
  u1 = u1
  u2 = u2
  ann = ann
  bob = bob
  emp1 = emp1
  emp2 = emp2
  laptop = laptop
  stranger = stranger
  NoRow = NoRow
  Nobody = Nobody
  Malformed = Malformed
  Workers = {w1, w2}
  Processes = {p1, p2}
  ProcessOf <- MCProcessOf
  Employees = {emp1, emp2}
  Accounts = {ann, bob}
  Devices = {laptop}
  Entities <- MCEntities
  Departments = {"sales"}
  Imports <- MCImports
  Ttl = 0
  Dates = {"01/02/2010 08:00:00"}
  Uploads = {"dropbox/download"}
  SaysUpload = {"form upload"}
  SaysDownload = {"dropbox/download", "files/download", "WWW Download"}
  Outside = {"a@b.c"}
  Overlong = "more"
  Files <- MCFiles
  KeyOf <- MCKeyOf
  ChunkSize = 2
  Staff0 <- MCStaff0
  MaxUploads <- MCMaxUploads
  MaxChanges <- MCMaxChanges
  MaxClock = 1
INVARIANTS
  JobsReconcile
  RowsRead
  StampsCurrent
  OwnChangesSeen
PROPERTIES
  LinksMoveByUnlink
SYMMETRY MCSymmetry
CHECK_DEADLOCK FALSE
