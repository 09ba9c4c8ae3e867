SPECIFICATION Spec
CHECK_DEADLOCK FALSE
CONSTANTS
  Main = Main
  Coroutine = {Main, c1, c2, c3}
  Maximum = 1
  None = None
PROPERTY ConcurrentlyFinishes
