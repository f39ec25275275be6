SPECIFICATION Spec
CONSTANTS
  k1 = k1
  k2 = k2
  o1 = o1
  o2 = o2
  g1 = g1
  g2 = g2
  Contacts = {k1, k2}
  Orgs = {o1, o2}
  Numbers = {"n1"}
  Groups = {g1}
  Home <- Homes
  GroupOf <- Lists
  Editors = {e1}
  MaxContacts = 1
  MaxOps = 3
  Sender = o1
  Requests = {r1, r2}
  MaxRecipients = 2
  MaxSteps = 4
\* Each of these is refuted; check them one at a time (see the README).
INVARIANTS
  PreviewIsExact
  RecipientsAreOwn
PROPERTIES
  EditIsSaved
  EditKeepsConsent
  FileNeverRevokes
  FileStaysHome
  LaunchedStaysLaunched
CHECK_DEADLOCK FALSE
