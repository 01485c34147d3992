CONSTANTS
  c1 = c1
  c2 = c2
  c3 = c3
  c4 = c4
  o1 = o1
  o2 = o2
  o3 = o3
  a1 = a1
  a2 = a2
  s1 = s1
  s2 = s2
  Calls <- MCCalls
  Kind <- MCKind
  Operation <- MCOperation
  Content <- MCContent
  Decision <- MCDecision
  Restricted = FALSE
  Admins <- MCAdmins
  MaxVersion = 3
  MaxStarted = 2
  MaxFaults = 1
  Subjects <- MCSubjects
  MaxEvents = 2
  MaxMoves = 2
  MaxMemberships = 3
  MaxCredentials = 2
  MaxDigests = 1
SPECIFICATION OrganizationSpec
SYMMETRY MCSymmetry
INVARIANTS JournalsTruthful ClientTruthful
  AuthorityFollowsHead EndsWithMembership
PROPERTIES DisclosedUnderConsent
CHECK_DEADLOCK FALSE
