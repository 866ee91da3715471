\* The constants of each part are given where MCFiles instantiates it.
SPECIFICATION Spec
CONSTANT NoOne = NoOne
INVARIANT StashesKept
PROPERTIES NothingLost OptionsPrevail NamesResolve ListKept PositionsAgree
CHECK_DEADLOCK FALSE
