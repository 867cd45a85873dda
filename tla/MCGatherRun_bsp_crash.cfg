CONSTANTS
    r1 = r1
    r2 = r2
    Runs = {r1}
    Envs <- SupportHost
    MaxMinute = 0
SPECIFICATION Spec
PROPERTY RunsFinishArchived
