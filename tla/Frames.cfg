\* Two frames, one flipped bit, every transport.
CONSTANTS
  Digits = {49}
  MaxFrames = 2
  MaxFlips = 1
SPECIFICATION WireSpec
CHECK_DEADLOCK FALSE
INVARIANT
  FramesWhole
