\* Two calls in a row with texts cut anywhere; one text fills the message array, and a
\* header can be longer than the static buffer.
CONSTANTS
    Texts <- MCTexts
    UnitTexts <- MCUnitTexts
    MaxCalls = 2
    LENGTH_STRING = 16
    MAX_LENGTH_STRING = 7
SPECIFICATION Spec
INVARIANTS
    WithinBuffer
    OnlyThisRead
    ParsedAsLines
    AgreesWithConnection
\* The last call returns.
CHECK_DEADLOCK FALSE
