CONSTANTS
  HandlerCalls = {"unsubscribe", "publish"}
  MaxHandlers = 2
  MaxEvents = 2
  MaxDepth = 2
SPECIFICATION Spec
INVARIANT IterationSound
