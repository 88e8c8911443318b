SPECIFICATION Spec
CONSTANTS
  PTP_ENTRIES = 512
  SIZE_2M = 16
  PERIPHERAL_BASE = 8064
  SHARED_PERIPHERAL_END = 8192
  PHYSMEM_END = 32768
  KERNEL_VADDR = 2139095040
  boot_ttbr0_l0 = 1
  boot_ttbr0_l1 = 2
  boot_ttbr0_l2 = 3
  boot_ttbr1_l0 = 4
  boot_ttbr1_l1 = 5
  boot_ttbr1_l2 = 6
  Cores = {0}
  TEXT_OFFSET = 4
  init_end = 5
  _bss_start = 6
  RASPI3_PL011 = 8080
  KSTACK_BASE = 2147450880
  Threads = {1, 2}
  Room = 8
  MaxDepth = 3
  MBOX_SLOTS = 1
  Other = Other
INVARIANT
  MessageAddressed
CHECK_DEADLOCK FALSE
