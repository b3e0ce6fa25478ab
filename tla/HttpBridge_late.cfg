\* A head that arrives after the request was failed.
SPECIFICATION FairSpec

CONSTANT MaxBody = 2

\* One request: it is over when everything is closed.
CHECK_DEADLOCK FALSE

INVARIANT FailureIsAnswered
