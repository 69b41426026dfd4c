SPECIFICATION Spec
CONSTANTS
    Phones = {p1, p2}
    MaxTexts = 1
    MaxStamp = 4
    Workers = {w1, w2}
    MaxMessages = 4
    WINDOW_ROWS = 2
    MaxEnds = 3
SYMMETRY Symmetry
INVARIANTS SentStaysSent DifferencesAreOnTheirWay RowsAreIndexedOnce
CHECK_DEADLOCK FALSE
