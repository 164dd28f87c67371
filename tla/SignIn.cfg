CONSTANTS
  r1 = r1
  r2 = r2
  r3 = r3
  r4 = r4
  ann = ann
  bob = bob
  annMail = annMail
  bobMail = bobMail
  newMail = newMail
  annName = annName
  bobName = bobName
  newName = newName
  NoUser = NoUser
  NoEmail = NoEmail
  NoRequest = NoRequest
  Requests = {r1, r2, r3, r4}
  InitialUsers = {ann, bob}
  Emails = {annMail, bobMail, newMail}
  Usernames = {annName, bobName, newName, annMail}
  Account <- MCAccount
  Workloads <- MCWorkloads
  Lifetime = 1
  MaxClock = 2
  MaxFaults = 1
SPECIFICATION Spec
INVARIANTS TypeOK TwinsOverlap MailedTokenWorks ResetTokenOnce
PROPERTIES TokensAreOwn RefreshKeepsUser LinksOwnUnlessOvertaken
CHECK_DEADLOCK FALSE
