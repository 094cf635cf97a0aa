---------------------------- MODULE MCKernelStart ----------------------------
(***************************************************************************)
(* The boot of ZeOS with the real sizes of floppies and of memory below    *)
(* 1 MB, and fewer pages above it.                                         *)
(***************************************************************************)
EXTENDS KernelStart

\* Images of the usual size, around a segment's end, all that fits; with a user
\* program a byte too long for its last word, too long for its pages; longer than build should let pass, by so
\* much that it is loaded all the same, over the boot sector, or in part.
MCSizes == {<<150000, 33500>>, <<163840, 32768>>, <<163840, 32769>>,
            <<405504, 114684>>, <<405504, 114685>>, <<163840, 114689>>,
            <<409600, 114672>>, <<409616, 114688>>, <<933888, 114688>>}
=============================================================================
