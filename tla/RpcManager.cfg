SPECIFICATION Spec
CONSTANTS
  c1 = c1
  c2 = c2
  c3 = c3
  readNow = readNow
  reboot = reboot
  Calls <- MCCalls
  Methods <- MCMethods
  Method <- MCMethod
INVARIANTS PendingIsOpen OutcomesCounted AnsweredByDevice
PROPERTIES ImplementsExchange
\* The model stops when every call is settled and every answer was sent.
CHECK_DEADLOCK FALSE
