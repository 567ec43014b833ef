SPECIFICATION Spec
CONSTANTS
  Uses <- AnyUses
  Padding = 1
  MaxDamage = 1
CHECK_DEADLOCK FALSE
INVARIANTS TypeOK Tiled PatternsKept
PROPERTIES NoFalseAlarm ImplementsBlockStore
