\* The constants of each part are given where MCChips instantiates it.
SPECIFICATION Spec
PROPERTIES InterruptsTaken TimersUnderflow ClockKept BlocksPlayed
CHECK_DEADLOCK FALSE
