CONSTANTS
  d1 = d1
  d2 = d2
  NoDevice = NoDevice
  Unasked = Unasked
  Applied = Applied
  Devices <- Devices2
  Choices <- Single
  BusCap = 2
  MaxEvents = 4
  MaxRestarts = 1
  MaxEnables = 2
SYMMETRY DeviceSymmetry
SPECIFICATION Spec
CHECK_DEADLOCK FALSE
INVARIANTS TypeOK WindowIsRight PanelIsRight LabelTellsId PageIsRight
