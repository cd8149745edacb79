SPECIFICATION ServerSpec
CONSTANTS
  Clients = {c1, c2}
  c1 = c1
  c2 = c2
  Nobody = Nobody
  Hosts = {h1}
  h1 = h1
INVARIANT SharedServer
CHECK_DEADLOCK FALSE
