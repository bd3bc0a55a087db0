SPECIFICATION Spec
CONSTANTS
  Callers = {c1, c2}
  Keys = {k1, k2}
  Ask = Ask
  NoCaller = NoCaller
  MaxID = 2
INVARIANTS
  PromptsTidy
  AllowedForAReason
  PromptsStayApart
PROPERTIES
  CallsEnd
