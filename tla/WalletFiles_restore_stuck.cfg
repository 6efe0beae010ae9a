SPECIFICATION FilesSpec
CONSTANTS
  Mints = {m1, m2}
  Original = m1
  NoMint = nomint
  Batches = 2
INVARIANT RestoreCanBeRepeated
