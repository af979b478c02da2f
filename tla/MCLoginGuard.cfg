SPECIFICATION Spec
CONSTANTS
  h1 = h1
  h2 = h2
  src1 = src1
  src2 = src2
  ann = ann
  blank = blank
  Handlers = {h1, h2}
  Sources = {src1, src2}
  Subnet <- SameSubnet
  Public = {src1}
  Accounts = {ann, blank}
  Names <- BlankToo
  Blank = blank
  Threshold <- SmallThreshold
  BlockFor <- SmallBlockFor
  Window = 1
  MaxAttempts = 4
  MaxTime = 3
SYMMETRY Symmetry
INVARIANTS
  Consistent
PROPERTIES
  BlockKept
