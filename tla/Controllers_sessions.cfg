SPECIFICATION Spec
CONSTANTS
  button = button
  stick = stick
  left = left
  up = up
  key1 = key1
  key2 = key2
  pad = pad
  Ports = {1, 2}
  Buttons = {button}
  Sticks = {stick}
  Directions = {left, up}
  Rumble = Rumble
  LED = LED
  Gyro = Gyro
  Keys = {key1}
  Mice = {}
  Pads = {pad}
  SDL = SDL
  None = None
  Defaults <- SomeDefaults
  Rank <- SomeRank
  MaxEdits = 2
  MaxStops = 2
INVARIANTS
  TypeOK
  Survives
  BootsUp
  CapturedIsHeld
CHECK_DEADLOCK FALSE
