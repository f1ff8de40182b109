---------------------------- MODULE MCDiskIndex ----------------------------
EXTENDS DiskIndex
MCInputWords == {[s \in Segments |-> w] : w \in {<<0, 0, 0>>, <<0, 0, 1>>, <<1, 0, 0>>}}
MCMasksInOrder == <<[s \in Segments |-> 0], [s \in Segments |-> 1]>>
MCDistances == <<3, 1, 2, 1, 2, 3>>
=============================================================================
