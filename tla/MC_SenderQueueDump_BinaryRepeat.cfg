\* Queues without empty payloads: a text item after a binary one.
CONSTANTS
    Abbrs <- MCTextAbbrs
    Sizes <- MCSizes
    MaxItems <- MCMaxItems
SPECIFICATION DumpSpec
CHECK_DEADLOCK FALSE
INVARIANT DumpMatchesSpec
