---------------------------- MODULE MCHeapUse ----------------------------
(* The tasks of the board that use the heap and their priorities
   (ethernetif_2_input 6, tcpip_thread 10, AppTaskClient 15), on a heap of at
   most four blocks. 10 is rounded up to 12, the least a block can hold.     *)
EXTENDS HeapUse

MCTasks == {6, 10, 15}
MCMasked == {6}
MCSizes == {10, 36}
=============================================================================
