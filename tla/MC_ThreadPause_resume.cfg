\* One controller pauses the worker and resumes it.
CONSTANTS
    Controllers = {c1}
    Commands = 2
SPECIFICATION FairSpec
PROPERTIES ResumedRuns
