SPECIFICATION LcdFairSpec
CONSTANTS
  Slots = 7
  nbLines = 2
  LineSize = 1
  TimingCMD = 3
  TimingData = 1
  TimingReset = 3
  ClockWrap = 5
  UintMax = 18
  Grain = 2
  MaxPrints = 1
INVARIANT LcdTypeOK
PROPERTIES CharactersOnTheirLine DelaysKept ImplementsFifo QueueDrains
