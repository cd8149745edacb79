SPECIFICATION SessionSpec
CONSTANTS
  Clients = {c1, c2}
  c1 = c1
  c2 = c2
  Nobody = Nobody
  Hosts = {h1, h2}
  h1 = h1
  h2 = h2
  Word = 1000000
  ConfWord = 65536
  ByteWord = 256
  Talkers = 1
  Numbering = {0, 12}
  Arguments <- MCArguments
  Answers <- MCAnswers
INVARIANT ErrorCodeReported
CHECK_DEADLOCK FALSE
