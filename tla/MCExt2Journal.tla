--------------------------- MODULE MCExt2Journal ---------------------------
(* Instances of Ext2Journal for TLC: the home sequences of the transactions, and
   the free count of a group of blocks in home 1, its descriptor, which every
   transaction takes from 256 to 255 or back.  Home 2, a bitmap, has no count. *)
EXTENDS Ext2Journal

OneAndTwo == {<<1>>, <<2, 1>>}
FreeCounts ==
    [h \in Homes |-> [t \in 0 .. MaxTx |-> IF h = 1 THEN 256 - (t % 2) ELSE 0]]
GroupOf512 == [h \in Homes |-> 512]
GroupOf300 == [h \in Homes |-> 300]
=============================================================================
