CONSTANTS
  Owners = {o1}
  Tickets = {t1, t2, t3}
  Installs = {c1, c2}
  Tabs = {}
  Files = {f1}
  Accounts = {}
  Engines = {e1}
  MaxReads = 1
  MaxAccepted = 2
  DownloadCap = 2
  Absent = Absent
SPECIFICATION Spec
SYMMETRY Symmetry
INVARIANTS OneUpgradePerEngine MailboxOwned PlacesKept
PROPERTIES AcknowledgedIsFinished SealedOnlyShrinks
