------------------------------ MODULE MCFat16 ------------------------------
(* A disk of 13 sectors of four bytes: tables in sectors 2 and 3, the root    *)
(* directory in 4, then clusters 2 to 5 of two sectors each.  The words for   *)
(* FAT entries of clusters 2 and 3 come from sectors 8 and 12; the one for    *)
(* cluster 4 would be in sector 16.  File "b" ends where the disk ends.       *)
EXTENDS Fat16

MCFirstCluster == [f \in Files |-> IF f = "a" THEN 2 ELSE 5]
MCFileSize     == [f \in Files |-> IF f = "a" THEN 17 ELSE 8]

MCOffsets      == {-1, 0, 3, 8}
=============================================================================
