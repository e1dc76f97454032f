SPECIFICATION Spec
CONSTANTS
  Session = {"s1", "s2"}
  Subscriber = {"d1", "d2"}
  Client = {"c1", "c2"}
  Request = {"join", "leave", "node_update", "node_remove", "edge_update",
             "edge_remove", "stream_start", "stream_stop", "graph_query",
             "pattern_query", "target_query", "target_update"}
  Permit = {"use_after_move"}
  None = "none"
  MaxIssued = 4
  MaxCalls = 1
INVARIANTS
  TypeOK
  HeldExactlyOnce
  PresentUnderItsId
  NothingIsIgnored
  OkIsTheRightReply
PROPERTIES
  ReopeningKeepsPresence
