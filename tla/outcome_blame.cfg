SPECIFICATION Spec
CONSTANTS
    MaxGeneration = 3
PROPERTIES
    BlockersAreCurrent
CHECK_DEADLOCK FALSE
