CONSTANT MaxStarts = 2
SPECIFICATION KeyManagerSpec
INVARIANTS JobsTracked AccessIsCurrent FeedbackIsCurrent
PROPERTIES InitConverges EventuallyAvailable
CHECK_DEADLOCK FALSE
