SPECIFICATION KbdSpec
CONSTANTS
    Codes <- MCCodes
    Ack = "ack"
    Data = "data"
    QSize = 3
INVARIANTS KbdTypeOK NoStrandedByte IrqMeansByte
PROPERTIES ImplementsChannel
