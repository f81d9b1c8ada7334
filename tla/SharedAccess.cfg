SPECIFICATION Spec
CONSTANTS
  a = a  b = b
  Clients = {a, b}
  First = a
  Turn <- MCTurn
  Args = {1, 2}
  NoAnswer = NoAnswer
INVARIANT OwnAnswer
PROPERTY EveryRequestIsAnswered
