SPECIFICATION Spec
CONSTANT MaxFrames = 4
INVARIANTS TypeOK InOrder CleanStop
PROPERTIES StartReturns OddIsFifo
CHECK_DEADLOCK FALSE
