SPECIFICATION Spec
CONSTANTS
  PollPeriod = 2
  Commands <- MCCommands
INVARIANTS
  TypeOK
  OutputsBelongToState
PROPERTIES
  RaisedOnlyWhenAllowed
  EstopCutsOutputs
