\* A 16x and a 13x baud rate; any order of calls.
SPECIFICATION ConfigSpec
CONSTANTS
    Baudrates = {11, 14}
    Level = 8
INVARIANTS
    AccessTakesEffect
    HandlerSeesData
    LineIsConfigured
