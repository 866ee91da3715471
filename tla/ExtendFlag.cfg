\* One SUB, NEG or NBCD: the first word of a chain.
SPECIFICATION Spec
CONSTANTS
  W = 8
  Limbs = 1
  Kinds = {"sub", "neg", "nbcd"}
  Binary = {0, 1, 128, 255}
  Decimal = {0, 1, 25, 153}
INVARIANT ExtendIsCarry
CHECK_DEADLOCK FALSE
