SPECIFICATION Spec
CONSTANTS
  Values = {"a"}
  MaxSize = 3
  HardSize = 2
  Passwords = {"pw"}
  Readers = {r1, r2}
  MaxAps = 2
  Nonces = {n1, n2}
  Users <- MCUsers
  TermForms <- MCTermForms
  MaxHold = 12
CHECK_DEADLOCK FALSE
INVARIANTS InStep ApFollows Usable AnswersSound
PROPERTIES RequestsEnd Rescued
