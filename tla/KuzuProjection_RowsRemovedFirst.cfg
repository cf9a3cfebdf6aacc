SPECIFICATION Spec
CONSTANTS
  Models = {m1, m2}
  Places = {p1}
  Transitions = {t1}
  Shared = shared
  NoModel = no_model
  NoNet = no_net
  Unknown = unknown
INVARIANT RowsRemovedFirst
CHECK_DEADLOCK FALSE
