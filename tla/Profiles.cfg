\* Two accounts, two emails and two requests at a time: delivery in any
\* order and more than once, overlapping syncs, deletions from both sides.
SPECIFICATION FairSpec
CONSTANTS
  a1 = a1
  a2 = a2
  e1 = e1
  e2 = e2
  None = None
  NotYet = NotYet
  Gone = Gone
  Workers = {w1, w2}
  Accounts <- TwoAccounts
  Emails <- TwoEmails
  Wishes <- AskedOrNot
  Seeds <- AdminOnly
  MaxIds = 3
  MaxActs = 2
INVARIANTS
  TypeOK
  OneProfileEach
  OutlivesWithACause
PROPERTIES
  RolesComeFromSync
  ProfilesLeaveOnRequest
  DeletionReachesProfile
  AnswerMeansDone
CHECK_DEADLOCK FALSE
