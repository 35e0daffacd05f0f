SPECIFICATION Spec
CONSTANTS
  Session = {s1, s2}
  Name = {n1, n2}
  Password = {p1, p2, quoted}
  Odd = {quoted}
  NULL = NULL
  MaxHandles = 3
SYMMETRY Symmetric
INVARIANTS
  TypeOK
  AcceptedIsRegistered
PROPERTIES
  LoginWasGiven
  AnswersAreRight
  ImplementsAccounts
