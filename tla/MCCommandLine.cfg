SPECIFICATION Spec
CONSTANTS
  Width = 3
  Rows = 8
  Greater = Greater
  Space = Space
  Chars = {a, b, Space}
  Nul = Nul
  NewLine = NewLine
  BackSpace = BackSpace
  BufferSize = 5
  Prompt <- MCPrompt
  MaxLines = 2
  ArgumentSize = 4
  NameSize = 3
  Slots = 3
INVARIANTS ScreenShowsLine ArgvIsTyped
PROPERTIES ImplementsLineEditor
