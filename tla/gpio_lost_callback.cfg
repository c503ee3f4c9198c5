\* Handlers and the interrupted thread both change the list.
CONSTANTS
  Node = {c1, c2, c3}
  NULL = NULL
  HandlersAnytime = TRUE
SPECIFICATION CallbackSpec
INVARIANTS AddedIsListed
