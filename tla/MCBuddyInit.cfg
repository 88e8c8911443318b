SPECIFICATION Spec
CONSTANTS
  ImgEnds <- MCImgEnds
  PAGE_SIZE = 4096
  PageStruct = 32
  PHYS_MEM_END = 1056964608
INVARIANT PageArrayNotAllocatable
CHECK_DEADLOCK FALSE
