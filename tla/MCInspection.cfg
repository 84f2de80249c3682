CONSTANTS
  exe = exe
  vdso = vdso
  ld = ld
  liba = liba
  libb = libb
  libc = libc
  f1 = f1
  f2 = f2
  f3 = f3
  f4 = f4
  NoFile = NoFile
  Addresses = {0, 1, 2, 3, 4, 5}
  Files = {f1, f2, f3, f4}
  Objs = {exe, vdso, ld, liba, libb, libc}
  Pinned = {exe, vdso, ld}
  Linker = ld
  Spaces = 2
  Size <- MCSize
  FileOf <- MCFileOf
  Malformed <- MCMalformed
  MaxChanges = 4
SPECIFICATION Spec
INVARIANTS
  TypeOK
  LookupsExact
  OwnershipUnique
  RefusalExplained
  UnmovedInspectionDecided
CHECK_DEADLOCK FALSE
