CONSTANTS
  ByteBits = 3
  PageBytes = 1
  PoolPages = 7
  PG_SIZE = 8
  ArenaSize = 2
  MinBlock = 2
  DescCnt = 2
  PgCntLimit = 3
  Sizes = {2, 4, 6, 7, 23, 57}
SPECIFICATION HeapSpec
INVARIANTS BlocksApart CountsAgree NoPageKept 
CHECK_DEADLOCK FALSE
