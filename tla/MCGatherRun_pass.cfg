CONSTANTS
    r1 = r1
    r2 = r2
    Runs = {r1}
    Envs <- AllHosts
    MaxMinute = 1
SPECIFICATION Spec
INVARIANT TypeOK
