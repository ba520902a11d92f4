\* Queues of empty payloads only: the first item's text equals lastStr's initial value.
CONSTANTS
    Abbrs <- MCEmptyAbbrs
    Sizes <- MCSizes
    MaxItems <- MCMaxItems
SPECIFICATION DumpSpec
CHECK_DEADLOCK FALSE
INVARIANT DumpMatchesSpec
