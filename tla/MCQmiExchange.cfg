SPECIFICATION ExchangeSpec
CONSTANTS
    Fills <- MCFills
    Unknown <- MCUnknown
INVARIANTS
    TableIsSound
    ReadsWhatWasSent
    MessageFits
\* The run of one message ends when it is read.
CHECK_DEADLOCK FALSE
