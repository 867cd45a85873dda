CONSTANTS
    r1 = r1
    r2 = r2
    Runs = {r1, r2}
    Envs <- HealthySupportHost
    MaxMinute = 0
SPECIFICATION Spec
INVARIANT DoneRunArchived
