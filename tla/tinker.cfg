SPECIFICATION FairSpec
\* Requests are bounded, so a behaviour may end.
CHECK_DEADLOCK FALSE
CONSTANTS
  c1 = c1
  c2 = c2
  c3 = c3
  a = a
  b = b
  Clients = {c1, c2, c3}
  Scorers = {c3}
  Models = {a, b}
  Limit = 1
  Prompts <- MCPrompts
  Replies <- MCReplies
  Decode <- MCDecode
  Encode <- MCEncode
  MaxRequests = 4
  MaxEntries = 2
INVARIANTS PromptsSameText SlotsExact
PROPERTIES CacheImplementsMap RequestsEnd
