\* A topic is missing and the process starts all the same.
SPECIFICATION ConfigSpec
CONSTANTS
    Second = 1
    Half = 32768
    Environments <- MCEnvironments
    Files <- MCFiles
INVARIANT
    EventsHaveTopics
