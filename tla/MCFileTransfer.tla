--------------------------- MODULE MCFileTransfer ----------------------------
EXTENDS FileTransfer, TLC

CONSTANTS big, small, gone, path, tools

\* Sizes whose digits differ, so that a length cut short is a different length.
Sizes == big :> 3 @@ small :> 1 @@ tools :> 1 @@ path :> 1
MCSizeOf == [f \in Files |-> Sizes[f]]
=============================================================================
