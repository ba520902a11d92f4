CONSTANTS
    Tiles <- MCTiles
    Hashes <- MCHashes
    TileHash <- MCTileHash
    NoHash = NoHash
    Views <- MCViews
    NoView = NoView
    Payloads <- MCPayloads
    MaxCalls <- MCMaxCalls
SPECIFICATION Spec
\* After the termination flag is set every call is a no-op and the process
\* exits: the states where the call bound is reached then have no successor.
CHECK_DEADLOCK FALSE
INVARIANT
    NoDeliveryAfterTermination
