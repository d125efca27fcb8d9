CONSTANTS
    Base = 10
    WordSize = 3
    IntSize = 2
    MaxTableSize = 16
    AddressLimit = 2
    MaxChanges = 1
    HostMessages <- MCHostMessages
    ClientMessages <- MCClientMessages
SPECIFICATION Spec
INVARIANTS
    HostsUnderstand
    ParsesExactly
    PartsAreRejected
    ClientsUnderstand
\* A message changes at most MaxChanges times.
CHECK_DEADLOCK FALSE
