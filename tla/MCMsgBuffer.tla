----------------------------- MODULE MCMsgBuffer -----------------------------
(* Bounds for checking MsgBuffer. *)
EXTENDS MsgBuffer

CONSTANTS
    MaxTime,  \* seconds that pass
    MaxTag    \* largest tag given out; below TagMax, tags do not wrap

BufferBoundedNext == BufferNext /\ now' <= MaxTime /\ latest'.tag <= MaxTag

BufferBoundedSpec == BufferInit /\ [][BufferBoundedNext]_bufferVars
=============================================================================
