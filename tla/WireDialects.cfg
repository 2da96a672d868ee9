SPECIFICATION WireSpec
CONSTANTS
  Clients = {c1, c2}
  c1 = c1
  c2 = c2
  Bodies <- MCBodies
  Instances <- MCInstances
  Aliases <- MCAliases
  Family <- MCFamily
  Value <- MCValue
  Identifiers <- MCIdentifiers
  Nonces32 <- MCNonces32
  Delegates <- MCDelegates
  Spelling <- MCSpelling
  Domain <- MCDomain
  Bad = Bad
  Absent = Absent
INVARIANTS RetryMeetsItself OutcomeIsOwn AnswerSpeaksDialect
