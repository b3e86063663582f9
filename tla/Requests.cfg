\* Every kind of request; the LLM reads four files of two sources.
SPECIFICATION Spec
CONSTANTS
    s1 = s1
    s2 = s2
    Jobs <- EveryJob
    Sources = {s1, s2}
    MaxFiles = 4
    MaxCalls = 3
    MaxPerSource = 2
    MaxAddresses = 2
    MaxHops = 2
 
 
INVARIANT AskedAsOftenAsNeeded
CHECK_DEADLOCK FALSE
