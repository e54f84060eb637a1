CONSTANTS
  Entries = 2
  Frames = {0, 1, 2, 3, 4, 5, 6, 7}
  KBase = 1
  BootPml4 = 0
  Spaces = {boot, other}
  Boot = boot
  NoFrame = NoFrame
  Mappings = {m1, m2}
  VRange = {11, 12}
  MaxLen = 2
  UserPages = {0}
  Device = 99
SPECIFICATION Spec
INVARIANT MappedIsOwned
INVARIANT UniquelyOwned
PROPERTY ImplementsAddressSpaces
SYMMETRY Symmetric
