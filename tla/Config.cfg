\* Start-up from every mix of environment and dotenv files, one or two of them.
SPECIFICATION ConfigSpec
CONSTANTS
    Second = 1
    Half = 32768
    Environments <- MCEnvironments
    Files <- MCFiles
INVARIANTS
    FirstPlaceWins
    BrokenFilesStopTheStart
    RunsAsConfigured
