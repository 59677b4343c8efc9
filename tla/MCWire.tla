------------------------------- MODULE MCWire --------------------------------
(* An instance of Wire: every operation, sizes at their limits, a directory   *)
(* that takes several requests to list.                                       *)
EXTENDS Wire, FiniteSets

MCOpcodes == (DOMAIN fuse_opcode \ {"FUSE_INIT"}) \union {"FUSE_SYNCFS"}
MCTens == {1, 10, 100, 1000}
MCKernelCaps == {{}, {0, 5}, {0, 5, 13, 22}}
MCInitCaps == {{13}, {5, 13}}
MCReadaheads == {0, 131072, 65535 * PageSize}
MCVersions == {<<7, 5>>, <<7, 31>>}
MCValidSets == {v \in SUBSET (0 .. 8 \union {10}) : Cardinality(v) \in {0, 1, 2, 10}}
MCFileTimes == {<<<<1, 2>>, <<3, 0>>, <<-4, 0>>>>, <<<<0, 5>>, <<-6, 7>>, <<-1, 500>>>>}
MCAnswerTimes == {<<1003, -2000, 2001>>, <<5, -500, -2001>>}
\* One entry at a time; entries that fit exactly (136 bytes are all four) or
\* miss by less than their padding (READDIR at 103, READDIRPLUS at 486).
MCListSizes == [FUSE_READDIR |-> {40, 103, 136},
                FUSE_READDIRPLUS |-> {168, 352, 486, 1000}]
MCDirectory == <<[ino |-> "i1", kind |-> "Directory", name |-> "n1", len |-> 1],
                 [ino |-> "i2", kind |-> "RegularFile", name |-> "n2", len |-> 8],
                 [ino |-> "i3", kind |-> "Symlink", name |-> "n3", len |-> 13],
                 [ino |-> "i4", kind |-> "Socket", name |-> "n4", len |-> 3]>>
=============================================================================
