SPECIFICATION Spec
CONSTANTS
  Hosts <- MCHosts
  CSI_N_MAX = 2
  INT_MAX = 127
  Tout = 1
  Cancels = FALSE
  Width = 20
INVARIANTS GrammarKept CsiAsWritten CharactersRight
PROPERTY Recovers
