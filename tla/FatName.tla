------------------------------- MODULE FatName -------------------------------
(***************************************************************************)
(* How fat16.c puts the name of a file together from the two fields of its *)
(* directory entry.  A file's are padded with blanks, and nothing ends a   *)
(* field that is full: what follows it in the entry is read on.  The       *)
(* entries that hold a label or a piece of a long name, which begins with  *)
(* a number and has zero bytes in it, are read in the same way.            *)
(***************************************************************************)
EXTENDS Integers, SequencesExt

CONSTANTS Letters, Pad, Zero, Dot,   \* Pad is 0x20, and the archive attribute
          Subdirectory, ReadOnly,    \* other attributes
          Volume,                    \* 0x08, in the attributes of a label or a long name
          NameSize, ExtSize          \* 8 and 3 in an entry of the disk

ASSUME FatNameAssumption ==
  /\ NameSize \in Nat \ {0} /\ ExtSize \in Nat \ {0}
  /\ (Letters \cup {Dot}) \cap {Pad, Zero, Subdirectory, ReadOnly, Volume} = {}
  /\ Volume \notin {Pad, Zero, Subdirectory, ReadOnly}

\* A field of a file's name is filled up with blanks.
Padded(field, length) ==
  /\ field \in Seq(Letters \cup {Dot, Pad}) /\ Len(field) = length
  /\ \A k, m \in DOMAIN field : field[k] = Pad /\ k < m => field[m] = Pad

\* What follows the fields: the attributes, the reserved byte and, in the time of
\* creation, a zero.
Bytes(item) == item.name \o item.ext \o <<item.attributes, Zero, Zero>>
ExtAt == NameSize + 1

propper_string(bytes, from) ==
  LET end == CHOOSE q \in from .. Len(bytes) :
               bytes[q] \in {Zero, Pad} /\ \A r \in from .. q - 1 : bytes[r] \notin {Zero, Pad}
  IN  SubSeq(bytes, from, end - 1)

DotAlways(item) ==
  propper_string(Bytes(item), 1) \o <<Dot>> \o propper_string(Bytes(item), ExtAt)

full_relative_filename(item) ==
  LET bytes == Bytes(item)
  IN  propper_string(bytes, 1) \o
        IF bytes[ExtAt] \in {Zero, Pad} THEN <<>> ELSE <<Dot>> \o propper_string(bytes, ExtAt)

-----------------------------------------------------------------------------
(* What a file is called: its name and, if it has one, a dot and its         *)
(* extension.  A label and a piece of a long name are no files.              *)

Trimmed(field) == SubSeq(field, 1, Cardinality({k \in DOMAIN field : field[k] # Pad}))
FileName(item) == Trimmed(item.name) \o
                    IF Trimmed(item.ext) = <<>> THEN <<>> ELSE <<Dot>> \o Trimmed(item.ext)

HasName(item, called) == item.attributes # Volume /\ FileName(item) = called

\* A field that is full is ended only by a blank extension, or the attributes of
\* an archive or none.
RunsOn(item) == \/ Len(Trimmed(item.name)) = NameSize /\ item.ext[1] # Pad
                \/ Len(Trimmed(item.ext)) = ExtSize /\ item.attributes \notin {Pad, Zero}
=============================================================================
