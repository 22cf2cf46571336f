SPECIFICATION Spec
CONSTANTS
  Operations = {o1, o2}
  MaxOperations = 1
INVARIANTS Safety
PROPERTIES ImplementsLease NothingAfterReceipt SettlementAnswers
