----------------------------- MODULE PathLookup -----------------------------
(***************************************************************************)
(* From the start of the kernel to the directory entry that a path names:  *)
(* the file system is mounted as in Mount, then fopen gets a path.         *)
(* pathparser_parse takes it apart, and fat16_get_directory_entry walks    *)
(* through the directories, compares the names in each one entry by entry, *)
(* and frees each when it has looked into it.                              *)
(*                                                                         *)
(* A path is a drive and what is between its slashes, an Empty component   *)
(* for two slashes in a row and for one at an end.  Names are compared     *)
(* without regard to case: a letter stands for both its cases.             *)
(***************************************************************************)
EXTENDS Mount, FatDirectory

CONSTANTS Dirs, PlainFiles, Root,
          Disks,             \* what is on the disk: for every directory its entries
          Paths,             \* records of a drive and components
          Nothing, Empty

Drives == {"0:/", "1:/", "bad"}    \* the disk, another digit, another form
Goal(item) == item.first           \* what the entry's first cluster begins

\* What fat16_find_item_in_directory returns, with the data it has then.
FatItems == [node : Dirs \cup PlainFiles, data : {"valid", "null", "freed"}, at : Nat]

ASSUME PathLookupAssumption ==
  /\ Root \in Dirs /\ Dirs \cap PlainFiles = {}
  /\ Nothing \notin Dirs \cup PlainFiles \cup Paths \cup FatItems
  /\ \A item \in Items :
       Goal(item) \in IF item.attributes = Subdirectory THEN Dirs \ {Root} ELSE PlainFiles
  /\ \A d \in Disks, dir \in Dirs : IsDirectory(d[dir], dir = Root)
  /\ \A p \in Paths : p.drive \in Drives /\ p.components \in Seq(Range(p.components))

VARIABLES
  disk,
  path,        \* the path of the fopen, Nothing before it
  rest,        \* what of it is not parsed
  parts, depth,    \* the parsed path and the part that was looked up last
  index, f_item,   \* of fat16_find_item_in_directory
  current,     \* current_item, or Nothing
  items,       \* what is allocated: items and their data, by part and index
  failed       \* history: an allocation or a read of fopen failed

walk == <<parts, depth, index, f_item, current, items>>
pathVars == <<mountVars, disk, path, rest, walk, failed>>
boot == <<live, streams, directory, fs_private, filesystem, res>>

PathInit ==
  /\ MountInit /\ disk \in Disks
  /\ path = Nothing /\ rest = <<>> /\ parts = <<>> /\ depth = 0
  /\ index = 1 /\ f_item = Nothing /\ current = Nothing /\ items = {} /\ failed = FALSE

Boot == MountNext /\ UNCHANGED <<disk, path, rest, walk, failed>>

-----------------------------------------------------------------------------
(* pathparser_parse; it does not test what kzalloc returned *)

Fopen == /\ label = "booted" /\ Goto("root of path")
         /\ path' \in Paths /\ rest' = path'.components
         /\ UNCHANGED <<boot, disk, walk, failed>>

RootIsNull == /\ label = "root of path"
              /\ Goto(IF path.drive = "bad" THEN "done" ELSE "wild")
              /\ failed' = (path.drive # "bad")
              /\ UNCHANGED <<boot, disk, path, rest, walk>>

CreateRoot == /\ label = "root of path" /\ path.drive # "bad" /\ Goto("parse")
              /\ UNCHANGED <<boot, disk, path, rest, walk, failed>>

More == rest # <<>> /\ Head(rest) # Empty

ParsePart == /\ label = "parse" /\ More
             /\ parts' = Append(parts, Head(rest)) /\ rest' = Tail(rest)
             /\ UNCHANGED <<label, boot, disk, path, depth, index, f_item, current, items, failed>>

PartIsNull == /\ label = "parse" /\ More
              /\ Goto("wild") /\ failed' = TRUE
              /\ UNCHANGED <<boot, disk, path, rest, walk>>

\* An empty part ends the path.  Then fopen looks for the drive and its file system.
EndOfPath == /\ label = "parse" /\ ~More
             /\ Goto(IF parts # <<>> /\ path.drive = "0:/" /\ filesystem # "NULL"
                     THEN "find" ELSE "done")
             /\ UNCHANGED <<boot, disk, path, rest, walk, failed>>

-----------------------------------------------------------------------------
(* fat16_find_item_in_directory, in the root directory or the current item *)

Place == IF depth = 0 THEN Root ELSE current.node

\* Without a root directory its total is zero.
Total == IF depth = 0 /\ ~directory THEN 0 ELSE total_items(disk[Place].onDisk)

Is(entry) == entry \in Items /\ full_relative_filename(entry) = parts[depth + 1]
Candidates == Copied(disk[Place], depth = 0, index)

Onward == index' = index + 1

NotThis == /\ label = "find" /\ index <= Total
           /\ \E entry \in Candidates : ~Is(entry)
           /\ Onward
           /\ UNCHANGED <<label, boot, disk, path, rest, parts, depth, f_item, current, items, failed>>

NewItem(entry, data) == f_item' = [node |-> Goal(entry), data |-> data, at |-> index]

\* The entry gets an item, and this a copy of the entry or its directory, which is
\* counted and read with two of the streams of the file system.
This == /\ label = "find" /\ index <= Total
        /\ \E entry \in Candidates :
             /\ Is(entry) /\ NewItem(entry, "valid")
             /\ Goal(entry) \in Dirs => "cluster stream" \in streams
        /\ items' = items \cup {<<"item", depth + 1, index>>, <<"data", depth + 1, index>>}
        /\ Onward
        /\ UNCHANGED <<label, boot, disk, path, rest, parts, depth, current, failed>>

\* There is no memory for the item, or none for its data, or its directory cannot
\* be read: then it is freed, and returned all the same.
ThisFails ==
  /\ label = "find" /\ index <= Total
  /\ \E entry \in Candidates :
       /\ Is(entry)
       /\ \/ f_item' = Nothing /\ UNCHANGED items
          \/ /\ \E data \in {"null"} \cup IF Goal(entry) \in Dirs THEN {"freed"} ELSE {} :
                  NewItem(entry, data)
             /\ items' = items \cup {<<"item", depth + 1, index>>}
  /\ Onward /\ failed' = TRUE
  /\ UNCHANGED <<label, boot, disk, path, rest, parts, depth, current>>

\* The stream was not allocated when the file system was mounted.
ThroughNullStream ==
  /\ label = "find" /\ index <= Total /\ "cluster stream" \notin streams
  /\ \E entry \in Candidates : Is(entry) /\ Goal(entry) \in Dirs
  /\ Goto("wild")
  /\ UNCHANGED <<boot, disk, path, rest, walk, failed>>

-----------------------------------------------------------------------------
(* fat16_get_directory_entry *)

\* What fat16_fat_item_free gives back of the current item.
ItemOnly == {<<"item", depth, current.at>>}
ItemAndData == {<<"item", depth, current.at>>, <<"data", depth, current.at>>}
Released == IF current = Nothing THEN {} ELSE ItemAndData

Searched == /\ label = "find" /\ index > Total /\ Goto("step")
            /\ items' = items \ Released
            /\ current' = f_item /\ depth' = depth + 1 /\ index' = 1 /\ f_item' = Nothing
            /\ UNCHANGED <<boot, disk, path, rest, parts, failed>>

Walks == label = "step" /\ depth < Len(parts)
IsDir == current # Nothing /\ current.node \in Dirs

Arrive == /\ label = "step" /\ depth = Len(parts) /\ Goto("done")
          /\ UNCHANGED <<boot, disk, path, rest, walk, failed>>

Enter == /\ Walks /\ IsDir
         /\ Goto(IF current.data = "valid" THEN "find" ELSE "wild")
         /\ UNCHANGED <<boot, disk, path, rest, walk, failed>>

\* A file is no directory: its item is given up, but not freed.
StopAtFile == /\ Walks /\ current # Nothing /\ ~IsDir
              /\ Goto("done") /\ current' = Nothing
              /\ UNCHANGED <<boot, disk, path, rest, parts, depth, index, f_item, items, failed>>

RootUntested == /\ Walks /\ current = Nothing /\ depth = 1 /\ Goto("wild")
                /\ UNCHANGED <<boot, disk, path, rest, walk, failed>>

\* In the root it is tested whether there is an item; behind it the type of the
\* current item is read through NULL.
NotInRoot == /\ Walks /\ current = Nothing /\ depth = 1 /\ Goto("done")
             /\ UNCHANGED <<boot, disk, path, rest, walk, failed>>

StepFromNull == /\ Walks /\ current = Nothing /\ depth > 1
                /\ Goto("done") \/ Goto("wild")
                /\ UNCHANGED <<boot, disk, path, rest, walk, failed>>

Stopped == label \in {"done", "wild"} /\ UNCHANGED pathVars

PathNext == \/ Boot \/ Fopen
            \/ RootIsNull \/ CreateRoot \/ ParsePart \/ PartIsNull \/ EndOfPath
            \/ NotThis \/ This \/ ThisFails \/ ThroughNullStream \/ Searched
            \/ Arrive \/ Enter \/ StopAtFile \/ NotInRoot \/ StepFromNull
            \/ Stopped

PathSpec == PathInit /\ [][PathNext]_pathVars

-----------------------------------------------------------------------------
(* Correctness *)

\* The components of a path up to its first empty one, and what they name.
Given == LET ends == {k \in DOMAIN path.components : path.components[k] = Empty}
         IN  IF ends = {} THEN path.components ELSE SubSeq(path.components, 1, Min(ends) - 1)

Named[k \in 0 .. Len(Given)] ==
  IF k = 0 THEN Root
  ELSE LET entries == {e \in Listed(disk[Named[k - 1]]) : HasName(e, Given[k])}
       IN  IF Named[k - 1] \in Dirs /\ entries # {} THEN Goal(CHOOSE e \in entries : TRUE)
                                                    ELSE Nothing

Wanted == IF path.drive # "0:/" \/ Given = <<>> THEN Nothing ELSE Named[Len(Given)]

\* All directories on the way are tidy, for what is looked for in them.
TidyWay == \A k \in 0 .. Len(Given) - 1 :
             Named[k] \in Dirs => Tidy(disk[Named[k]], k = 0, Given[k + 1])

\* A path through tidy directories leads to what it names and nowhere else, or,
\* when something failed, to nothing; but what follows an empty component is
\* ignored.  If the file system is mounted at all, its root directory is there.
FindsNamed ==
  label = "done" /\ TidyWay /\ filesystem # "NULL" =>
    /\ current # Nothing => current.node = Wanted
    /\ current = Nothing => Wanted = Nothing \/ failed

\* Of all directories on the way only the item that is returned stays allocated,
\* and a path that goes on behind a file loses that file's item.  Of the mount the
\* private data stays, with its root directory, its streams and one stream more.
FreesTheWay ==
  label = "done" /\ TidyWay /\ filesystem # "NULL" =>
    /\ fs_private = "private" /\ live = streams \cup {"private", "root", "root stream"}
    /\ \A o \in items : \/ current # Nothing /\ o[2] = Len(Given)
                        \/ o[2] < Len(Given) /\ Named[o[2]] \in PlainFiles

\* The walk leaves the data it knows only if memory or a read failed, then or when
\* the stream was allocated, or if below the root a component that names nothing is
\* followed by another one.
WildOnlyIf ==
  label = "wild" /\ path # Nothing /\ TidyWay =>
    \/ failed \/ "cluster stream" \notin streams
    \/ \E k \in 2 .. Len(Given) - 1 : Named[k] = Nothing
=============================================================================
