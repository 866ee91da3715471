\* The constants of each part are given where MCMachine instantiates it.
SPECIFICATION Spec
INVARIANTS ShiftsExact NumbersExact FieldsExact AudioOnTime
PROPERTIES StackRestores CopperOnTime TimersOnTime
CHECK_DEADLOCK FALSE
