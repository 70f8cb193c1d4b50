SPECIFICATION Spec
CONSTANT MaxTasks = 3
INVARIANTS EveryPromiseKept WorkInOrder
PROPERTIES EveryTaskSettles ServiceSpec
CHECK_DEADLOCK FALSE
