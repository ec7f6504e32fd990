SPECIFICATION Spec
CONSTANTS
  a = a  b = b  me = me  target = target  relay = relay
  Call = {a, b}
  Service <- Services
  Caller = me
  Target = target
  Route <- BothRelays
  Patience <- Patient
  MaxRelayAttempts = 2
  PendingLimit = 1
  Past = 1  Future = 1
  Skew <- RelayBehind
  Window = 3
  MaxEntries = 1
  MaxTime = 2  LastCall = 0
  MaxAccepted = 3
  MaxRestarts = 1
INVARIANTS TypeOK PendingIsOwned
PROPERTIES ExecutedInTime ImplementsAtMostOnce CallReturns
CHECK_DEADLOCK FALSE
