SPECIFICATION HwioSpec
CONSTANTS
  Messages = {m1, m2, m3}
  Writers = {w1, w2}
  Size = 2
  NoData = NoData
SYMMETRY HwioSymmetry
INVARIANTS
  NoDescriptorLeak
  ClosedOnceUnlessSendError
CHECK_DEADLOCK FALSE
