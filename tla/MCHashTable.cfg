SPECIFICATION Spec
CONSTANTS
  Key = {1, 14, 3, 9, 2}
  Value = {1, 2}
  NoValue = 0
  Size = 6
  Use = "SocketTable"
PROPERTIES IsDictionary
CHECK_DEADLOCK FALSE
