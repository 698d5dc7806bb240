\* Three good files and four bad ones or none, edited at any moment.
CONSTANTS
    Files <- MCFiles
    Interfaces <- MCInterfaces
    Extensions <- MCExtensions
    MAX_LENGTH_STRING = 6
    MaxVersions = 3
SPECIFICATION Spec
INVARIANTS
    ListensAsConfigured
    RequestAsConfigured
    CrashesOnlyOnBadInput
\* The server exits or crashes.
CHECK_DEADLOCK FALSE
