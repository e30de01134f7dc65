CONSTANTS
  s1 = s1
  s2 = s2
  c1 = c1
  search = search
  edit = edit
  k1 = k1
  k2 = k2
  Calls = {s1, s2, c1}
  Tools = {search, edit}
  ServerTools = {search}
  Keys = {k1, k2}
  ToolOf <- MCToolOf
  KeyOf <- MCKeyOf
  Chunks <- MCChunks
  Wholes <- MCWholes
  Answers <- MCAnswers
  Unnamed = {s2, c1}
  MaxChunks = 3
  Cap = 3
SPECIFICATION Spec
INVARIANTS TypeOK ChunksAlike Accounted NotBoth StructuredKept FiredOnce NoneUnreported RoundsCapped
