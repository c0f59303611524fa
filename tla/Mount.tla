-------------------------------- MODULE Mount --------------------------------
(***************************************************************************)
(* How the disk gets its file system at boot: disk_search_and_init,        *)
(* fs_resolve and fat16_resolve, allocation by allocation.                 *)
(*                                                                         *)
(* live has the heap objects that are allocated.  Any allocation can fail, *)
(* and any read that the code tests (disk_read_block reports no failure    *)
(* today).  Once the code has used a NULL pointer nothing is promised.     *)
(***************************************************************************)
EXTENDS Naturals

VARIABLES
  label, live,
  streams,       \* the fields of fat_private that are not NULL ...
  directory,     \* ... and whether root_directory is set
  fs_private,    \* of the disk: "private", or "NULL"
  filesystem,    \* of the disk: "fat16", or "NULL"
  res            \* what fat16_resolve will return: "ok" or "error"

mountVars == <<label, live, streams, directory, fs_private, filesystem, res>>

PrivateStreams == {"cluster stream", "fat stream", "directory stream"}

Goto(to) == label' = to
Allocate(object) == object \notin live /\ live' = live \cup {object}
Error == Goto("out") /\ res' = "error"

MountInit == /\ label = "private" /\ live = {} /\ streams = {} /\ directory = FALSE
             /\ fs_private = "NULL" /\ filesystem = "NULL" /\ res = "ok"

\* fat_private is not tested.
PrivateIsNull == /\ label = "private" /\ Goto("wild")
                 /\ UNCHANGED <<live, streams, directory, fs_private, filesystem, res>>

NewPrivate == /\ label = "private" /\ Goto("streams")
              /\ Allocate("private")
              /\ UNCHANGED <<streams, directory, fs_private, filesystem, res>>

\* fat16_init_private: diskstreamer_new of each, which may be NULL.
InitPrivate ==
  /\ label = "streams" /\ Goto("header")
  /\ streams' \in SUBSET PrivateStreams
  /\ live' = live \cup streams'
  /\ fs_private' = "private" /\ filesystem' = "fat16"
  /\ UNCHANGED <<directory, res>>

NewHeaderStream == /\ label = "header" /\ Goto("read header")
                   /\ Allocate("header stream")
                   /\ UNCHANGED <<streams, directory, fs_private, filesystem, res>>

NoHeaderStream == /\ label = "header" /\ Error
                  /\ UNCHANGED <<live, streams, directory, fs_private, filesystem>>

\* The header cannot be read, or it has not the signature of FAT16.
NotOurs == /\ label = "read header" /\ Error
           /\ UNCHANGED <<live, streams, directory, fs_private, filesystem>>

Ours == /\ label = "read header" /\ Goto("count")
        /\ UNCHANGED <<live, streams, directory, fs_private, filesystem, res>>

-----------------------------------------------------------------------------
(* fat16_get_root_directory *)

CountItems == /\ label = "count"
              /\ Goto(IF "directory stream" \in streams THEN "root" ELSE "wild")
              /\ UNCHANGED <<live, streams, directory, fs_private, filesystem, res>>

CountFails == /\ label = "count" /\ "directory stream" \in streams /\ Error
              /\ UNCHANGED <<live, streams, directory, fs_private, filesystem>>

NewRoot == /\ label = "root" /\ Goto("root stream")
           /\ Allocate("root")
           /\ UNCHANGED <<streams, directory, fs_private, filesystem, res>>

NoRoot == /\ label = "root" /\ Error
          /\ UNCHANGED <<live, streams, directory, fs_private, filesystem>>

\* Its stream is not tested either.
RootStreamIsNull == /\ label = "root stream" /\ Goto("wild")
                    /\ UNCHANGED <<live, streams, directory, fs_private, filesystem, res>>

NewRootStream == /\ label = "root stream" /\ Goto("read root")
                 /\ Allocate("root stream")
                 /\ UNCHANGED <<streams, directory, fs_private, filesystem, res>>

ReadRootFails == /\ label = "read root" /\ Error
                 /\ UNCHANGED <<live, streams, directory, fs_private, filesystem>>

ReadRoot == /\ label = "read root" /\ Goto("out")
            /\ directory' = TRUE
            /\ UNCHANGED <<live, streams, fs_private, filesystem, res>>

-----------------------------------------------------------------------------

\* fat16_resolve ends: it closes its stream, and after an error frees fat_private.
Resolve ==
  /\ label = "out" /\ Goto("resolved")
  /\ IF res = "error"
       THEN live' = live \ {"header stream", "private"} /\ fs_private' = "NULL"
       ELSE live' = live \ {"header stream"} /\ UNCHANGED fs_private
  /\ UNCHANGED <<streams, directory, filesystem, res>>

\* fs_resolve returns the file system that resolved, and it is the disk's.
SetFilesystem ==
  /\ label = "resolved" /\ Goto("booted")
  /\ filesystem' = IF res = "ok" THEN "fat16" ELSE "NULL"
  /\ UNCHANGED <<live, streams, directory, fs_private, res>>

MountNext == \/ PrivateIsNull \/ NewPrivate \/ InitPrivate \/ NewHeaderStream \/ NoHeaderStream
             \/ NotOurs \/ Ours \/ CountItems \/ CountFails \/ NewRoot \/ NoRoot
             \/ RootStreamIsNull \/ NewRootStream \/ ReadRootFails \/ ReadRoot
             \/ Resolve \/ SetFilesystem
=============================================================================
