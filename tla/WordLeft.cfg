SPECIFICATION Spec
CONSTANTS
  Runes = {"a", " "}
  Pastes = {}
  Widths = {4}
  CharLimit = 2
  MaxLines = 2
  MaxHeight = 2
CHECK_DEADLOCK FALSE
PROPERTIES
  KeysEnd
