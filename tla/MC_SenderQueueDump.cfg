\* dumpState over every queue of up to four items.
CONSTANTS
    Abbrs <- MCAbbrs
    Sizes <- MCSizes
    MaxItems <- MCMaxItems
SPECIFICATION DumpSpec
\* dumpState returns once it has written the byte total.
CHECK_DEADLOCK FALSE
INVARIANTS
    DumpAccountsForAll
