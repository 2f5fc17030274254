CONSTANTS
    w1 = w1
    w2 = w2
    q1 = q1
    q2 = q2
    r1 = r1
    r2 = r2
    r3 = r3
    Coord = Coord
    Worker <- MCWorker
    Ungated = {w2}
    Remote <- MCRemote
    MaxRestarts = 1
    Query = {q1, q2}
    Strategy <- MCStrategy
    RowsAt <- MCRowsAt
    HashOf <- MCHashOf
    Capacity = 1
    MaxErrors = 1
SPECIFICATION Spec
INVARIANTS
    AnswerExact
PROPERTIES
    Answered
