SPECIFICATION Spec
CONSTANTS
  boot = boot  t1 = t1  s1 = s1  s2 = s2  a1 = a1
  Boot = boot
  Tasks = {t1}
  Storages = {s1, s2}
  Legacy = Legacy
  None = None
  Placements <- SharedArena
  BlockCount = 3
  HandleSlots = 2
  SlotBase = 4
  GenerationMax = 2
  MaxUses = 3
INVARIANT OneHeapPerArena
