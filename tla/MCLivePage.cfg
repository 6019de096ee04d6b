\* Two threads, an engine that may be swapped, Prometheus that may fail.
SPECIFICATION Spec
CONSTANTS
  Thread = {t1, t2}
  Window = {w1}
  Family = {vllm, tensorfold}
  None = None
  CACHE_S = 1
  SERIES_CACHE_S = 2
  CallMax = 1
  Horizon = 3
INVARIANTS TypeOK ServedAge
 
SYMMETRY Symmetry
CHECK_DEADLOCK FALSE
