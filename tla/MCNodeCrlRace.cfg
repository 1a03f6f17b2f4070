\* Two runs of apply_revocations overlap.
SPECIFICATION Spec
CONSTANTS
    Devices = {v1, v2}
    Appliers = {a1, a2}
    Refreshers = {}
    Reconcilers = {}
    MaxOutages = 0
    Edits = 0
INVARIANT AppliedIsListed
CHECK_DEADLOCK FALSE
