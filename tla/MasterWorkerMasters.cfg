SPECIFICATION PoolSpec
CONSTANTS
  Masters = {m1, m2}
  Workers = {w1}
  total_items = 3
  max_buf_size = 1
  PoolSpurious = FALSE
INVARIANT BufferBound
CHECK_DEADLOCK FALSE
