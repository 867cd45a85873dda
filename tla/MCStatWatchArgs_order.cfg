SPECIFICATION Spec
CONSTANTS
    Argvs <- ArgvUpTo3
    StatKeys <- Counters
    HasNeedle <- MCHasNeedle
    Matches <- MCMatches
INVARIANT OrderDoesNotMatter
