SPECIFICATION Spec
CONSTANTS
  PTP_ENTRIES = 2
  PAGE_SIZE = 2
  SIZE_2M = 4
  PERIPHERAL_BASE = 4
  SHARED_PERIPHERAL_END = 8
  PHYSMEM_END = 16
  KERNEL_VADDR = 16
  boot_ttbr0_l0 = boot_ttbr0_l0
  boot_ttbr0_l1 = boot_ttbr0_l1
  boot_ttbr0_l2 = boot_ttbr0_l2
  boot_ttbr1_l0 = boot_ttbr1_l0
  boot_ttbr1_l1 = boot_ttbr1_l1
  boot_ttbr1_l2 = boot_ttbr1_l2
  u1 = u1
  u2 = u2
  UserRoots = {u1, u2}
  Asid <- MCAsid
  Frames = {f1, f2, f3, f4, f5, f6, f7}
  Requests <- MCRequests
  MaxCalls = 2
  NULL = NULL
INVARIANTS
  TypeOK
  TablesFormTree
  DirectMapIntact
  QueryFindsMapping
  
  

  
