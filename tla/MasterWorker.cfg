SPECIFICATION PoolSpec
CONSTANTS
  Masters = {m1, m2}
  Workers = {w1, w2}
  total_items = 4
  max_buf_size = 2
  PoolSpurious = TRUE
INVARIANTS ExactlyOnce NoDeadlock
PROPERTY AllReturn
CHECK_DEADLOCK FALSE
