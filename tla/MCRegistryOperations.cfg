CONSTANTS
  Owners = {o1, o2}
  Tickets = {t1, t2}
  Installs = {c1}
  Tabs = {tab1}
  Files = {f1}
  Accounts = {a1}
  Engines = {e1}
  MaxReads = 2
  MaxAccepted = 2
  DownloadCap = 2
  Absent = Absent
SPECIFICATION FairSpec
INVARIANTS CancelHonoured CommitProtected OneWriter LeaseBacked DrainedIsEmpty
PROPERTIES DrainCompletes
