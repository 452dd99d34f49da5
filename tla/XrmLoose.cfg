SPECIFICATION StructuresSpec
CONSTANTS
  InUse = {"resources"}
  Apps = {t1, t2}
  Generic = {"g"}
  Plain = {"p"}
  MaxCookies = 3
  MaxSteps = 6
  Screens = 2
  Uses <- MCUses
  MaxExtensions = 2
  MaxWatchers = 2
  MaxTables = 3
  t1 = t1
  t2 = t2
  None = None
  qa = qa
  qb = qb
  qc = qc
  qd = qd
  qe = qe
  qf = qf
  qg = qg
  atomA = atomA
  atomB = atomB
  atomC = atomC
  atomD = atomD
  badAtom = badAtom
  Threads = {t1, t2}
  Scripts <- MCAtomScripts
  Names = {atomA, atomB, atomC, atomD, badAtom}
  Predefined = {atomC, atomD}
  TableSize = 4
  AtomHash <- MCHash
  AtomRehash <- MCRehash
  MaxErrors = 1
  na = na
  nb = nb
  nc = nc
  ca = ca
  cb = cb
  cc = cc
  any = any
INVARIANT MatchingRules
