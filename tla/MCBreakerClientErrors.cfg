CONSTANTS
    Callers = {c1, c2}
    retryMaxAttempts = 2
    failureThreshold = 2
    cooldown = 2
    timeout = 1
SPECIFICATION Spec
SYMMETRY Symmetry
PROPERTIES
    OpensOnlyOnOutage
