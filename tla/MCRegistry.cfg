SPECIFICATION Spec
CONSTANTS
  t1 = t1
  t2 = t2
  m1 = m1
  m2 = m2
  m3 = m3
  KiB = 4
  Thread <- MCThread
  Model <- MCModel
  Manager <- MCManager
  Dir <- MCDir
  Start <- MCStart
SYMMETRY MCSymmetry
INVARIANTS
  NothingForgotten
  BracketsMatch
  ConfigIsSound
PROPERTIES
  SuccessorOwnsDirectory
