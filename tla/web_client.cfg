SPECIFICATION FairSpec
CONSTANTS
  t0 = t0
  t1 = t1
  t2 = t2
  ann = ann
  bob = bob
  x = x
  y = y
  NoTab = NoTab
  NoOne = NoOne
  NoMail = NoMail
  Tab = {t0, t1, t2}
  Build <- MCBuild
  Username = {ann, bob}
  Email = {x, y}
  Account <- MCAccount
  Slot = {1, 2}
  MaxActs = 5
INVARIANTS
  TypeOK
  OwnToken
  StorageIsSomeTabs
  MailShownWasSaved
  JoinChecked
PROPERTIES
  ImplementsBrowserSession
  EveryCallSettles
