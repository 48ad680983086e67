\* The queue of the service may be destroyed and every command answered: the
\* system may stop.
SPECIFICATION Spec
CHECK_DEADLOCK FALSE
CONSTANTS
  control1 = control1
  control2 = control2
  query1 = query1
  poll1 = poll1
  poll2 = poll2
  NoCommand = NoCommand
  PriorityOf <- MCPriorityOf
  Command = {control1, query1, poll1, poll2}
  MaxClear = 1
INVARIANTS
  TypeOK
  LoopsServe
  OnePlace
PROPERTIES
  ImplementsChannel
  AnsweredOrLost
