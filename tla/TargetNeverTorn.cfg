\* Two writers asked to write the same body.
CONSTANTS
  w1 = w1
  w2 = w2
  b1 = b1
  b2 = b2
  Writers <- MCWriters
  Readers = {r1}
  Bodies <- MCBodies
  BodiesOf <- MCSharedBodies
  Inodes = {i1, i2, i3, i4, i5}
  NoBody = NoBody
  NoInode = NoInode
SPECIFICATION FileSpec
INVARIANT TargetNeverTorn
CHECK_DEADLOCK FALSE
