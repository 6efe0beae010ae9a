SPECIFICATION FilesSpec
CONSTANTS
  Mints = {m1, m2, m3}
  Original = m1
  NoMint = nomint
  Batches = 2
SYMMETRY MintSymmetry
INVARIANT WalletsStayReachable ConvertedMeansAll PartialScanResumes
