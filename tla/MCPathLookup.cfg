SPECIFICATION PathSpec
CONSTANTS
  a = a
  b = b
  c = c
  Letters = {a, b, c}
  Pad = Pad
  Zero = Zero
  Dot = Dot
  Subdirectory = Subdirectory
  ReadOnly = ReadOnly
  Volume = Volume
  NameSize = 2
  ExtSize = 1
  Unused = Unused
  End = End
  RootEntries = 2
  ClusterEntries = 2
  sub = sub
  file = file
  other = other
  Root = Root
  Dirs = {Root, sub}
  PlainFiles = {file, other}
  Nothing = Nothing
  Empty = Empty
  Items <- MCItems
  Disks <- MCDisks
  Paths <- MCPaths
INVARIANTS FindsNamed FreesTheWay WildOnlyIf
