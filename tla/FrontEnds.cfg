SPECIFICATION Spec
SYMMETRY Symmetric
CONSTANTS
  c1 = c1  c2 = c2  x1 = x1  x2 = x2  w1 = w1  w2 = w2
  Keys = {"bill", "noid"}
  NoId = "noid"
  Workers = {w1, w2}
  Results = {"ok"}
  UNKNOWN = "unknown"
  QUEUE_FULL = "queue_full"
  NULL = NULL
  Clients = {c1, c2}
  Messages <- MCMessages
  Users <- MCUsers
  max_queue = 1
  MaxClients = 2
  Traffic = 4
  XSockets = {x1, x2}
  XRequests <- MCXRequests
  MaxPays = 1
INVARIANTS SendAlive  CheckedOnce AnswersAsked
