SPECIFICATION StoreSpec
CONSTANTS
  Saver = {boot, s1, s2}
  Boot = boot
  Inode = {i1, i2, i3, i4}
  MaxVersion = 2
  Faults = {"io", "cancel", "crash"}
  None = None
  Empty = Empty
  Garbled = Garbled
SYMMETRY Symmetry
INVARIANTS StoreTypeOK
PROPERTIES KeepsPromise SoleSaveLands
