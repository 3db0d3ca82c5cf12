\* An operation for one slot after a public key of the other was refused.
CONSTANTS
  Objects <- TokenObjects
  NoSlot = NoSlot
  NoObject = NoObject
SPECIFICATION TokenSpec
INVARIANTS
  KeyFromSlot
