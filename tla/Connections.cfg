CONSTANTS
    c1 = c1
    c2 = c2
    c3 = c3
    c4 = c4
SPECIFICATION Spec
INVARIANTS EndsMatch RingsApart GetCurrent
PROPERTIES FirstCallServed
CHECK_DEADLOCK FALSE
