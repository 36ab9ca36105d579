SPECIFICATION FairSpec
CONSTANTS
    Request = {r1, r2}
    Value = {v1}
    NoRow = NoRow
    NoRequest = NoRequest
    FETCH_MAX_RETRIES = 2
    FETCH_WAITING_MAX_INTERVALS = 2
    MaxLapses = 1
INVARIANTS TypeOK SingleFlight AnswerWasTrue
PROPERTIES Answered ImplementsLookup CallsWindDown
