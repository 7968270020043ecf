CONSTANTS
  HandlerCalls = {"unsubscribe", "queue"}
  MaxHandlers = 4
  MaxEvents = 4
  MaxDepth = 2
SPECIFICATION Spec
INVARIANTS TypeOK IterationSound RemovalComplete
PROPERTIES NoCallAfterUnsubscribe EveryoneServedOnce
