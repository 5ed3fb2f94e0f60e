SPECIFICATION FairSpec
CONSTANTS
  BufferSize = 8
  HeaderSize = 2
  MaxPacket = 5
  MaxInt = 31
  Lengths = {0, 1, 4, 5, 6, 31}
  MaxFrames = 3
INVARIANTS TypeOK RingHoldsStream NothingLeftBehind CloseJustified
PROPERTIES ChannelSpec FramesArrive
CHECK_DEADLOCK FALSE
