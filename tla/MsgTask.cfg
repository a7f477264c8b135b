CONSTANTS
  Messages = {m1, m2, m3, kill}
  Kills = {kill}
SPECIFICATION FairSpec
INVARIANTS EachOnce QueueOutlivesUse
PROPERTIES NoWakeUpIsLost ImplementsFifo
CHECK_DEADLOCK FALSE
