SPECIFICATION Spec
CONSTANTS
    Requests = {r1, r2, r3, r4}
    MaxRestarts = 1
SYMMETRY Duplicates
INVARIANTS
    RetryAfterAnswer
    AnswersAreTrue
