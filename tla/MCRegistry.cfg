SPECIFICATION FairSpec
CONSTANTS
  d = d
  e = e
  fa = fa
  fb = fb
  fn = fn
  a = a
  a0 = a0
  b = b
  n = n
  Dirs = {d, e}
  Files = {fa, fb, fn}
  Ids = {a, a0, b, n}
  DirOf <- MCDirOf
  FileOf <- MCFileOf
  Minted <- MCMinted
  Inside <- MCInside
  None = None
  MaxMoves = 3

  
PROPERTIES
  
  
  NewFilesAreListed
CHECK_DEADLOCK FALSE
