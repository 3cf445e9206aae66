CONSTANTS
    Clients = {c1, c2}
    MaxItems = 4
    MaxStarts = 2
SPECIFICATION Spec
INVARIANT StoredPrefix
INVARIANT CountsUnstored
PROPERTY EndsAfterFailure
PROPERTY AnswersGrow
