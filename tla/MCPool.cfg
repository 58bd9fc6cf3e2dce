CONSTANT NSlots = 4
SPECIFICATION Spec
INVARIANT TypeOK
INVARIANT FreeListIsTheRest
PROPERTY ImplementsSlotAlloc
