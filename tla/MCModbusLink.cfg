CONSTANTS
  Masters = {m1, m2}
  Connections = {c1, c2}
  Functions = {"read_holding_registers", "preset_single_register", "report_slave_id"}
  Values = {0, 1}
  Backlog = 2
  MaxTid = 1
  MaxConfused = 1
  Reconnect = TRUE
  NULL = NULL
SPECIFICATION Spec
INVARIANTS TypeOK AnswersItsQuery Coherent NoSendAfterReset
SYMMETRY Symmetry
