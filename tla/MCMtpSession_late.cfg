\* One program on a cellphone that answers everything, and sometimes late.
CONSTANTS
    Attempts = 2
    StorageTries = 2
    MaxUses = 2
    MaxPrograms = 1
    MaxFaults = 0
    Faults = {"late"}
SPECIFICATION Spec
INVARIANT AnswerIsForCommand
CHECK_DEADLOCK FALSE
