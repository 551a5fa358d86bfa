SPECIFICATION DemoFairSpec
CONSTANTS
    t1 = t1
    t2 = t2
    Tasks <- TwoTasks
    Calls <- TheCalls
    Prompts = 2
    MaxLlm = 2
    MaxRetries = 1
    Burst = 2
    MaxOthers = 1
    SignalMayCome = TRUE
 
PROPERTY DrainEnds
CHECK_DEADLOCK FALSE
