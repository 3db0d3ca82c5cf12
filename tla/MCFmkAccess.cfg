\* Three share servers with up to two failures a call, and a token with two slots.
CONSTANTS
  NServers = 3
  Signers = {"SMART_ID", "MOBILE_ID", "other"}
  Polls = 2
  MaxCalls = 3
  MaxFaults = 2
  Objects <- TokenObjects
  NoSlot = NoSlot
  NoObject = NoObject
  Locks = {"share", "server", "public", "symmetric", "password"}
CHECK_DEADLOCK FALSE
SPECIFICATION Spec
INVARIANTS
  SharesConfirmed
  FmkExact
  NoFalseAlarm
  SlotRespected
  HandleInSession
PROPERTIES
  CallsReturn
