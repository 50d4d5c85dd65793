CONSTANTS MaxFaults = 2
          MaxTouches = 1
          MaxTunes = 2
SPECIFICATION Spec
INVARIANTS GivenBackUnlessForgotten   OriginalIsOperators
CHECK_DEADLOCK FALSE
