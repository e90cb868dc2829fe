\* Every subset of the rows, in every order.
CONSTANTS
  NULL = NULL
  NoAddr = NoAddr
  Addrs = {a1, a2}
  AllRows <- MCRows
SPECIFICATION Spec
CHECK_DEADLOCK FALSE
INVARIANT StrictestWins
