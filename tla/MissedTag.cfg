SPECIFICATION Spec
CONSTANTS
  LastWork = 2
  m_n_repetitions_req = 3
  m_max_additional_symbols = 3
  m_n_up = 2
  m_n_sync_candidates = 3
  MaxSymbols = 9
  MaxOutput = 2
INVARIANT
  NoTagMissed
CHECK_DEADLOCK FALSE
