----------------------------- MODULE ByteStore ------------------------------
(***************************************************************************)
(* What a buffered stream promises: an array of bytes that only writes      *)
(* change, a stored image that only ever receives bytes of the array, and   *)
(* an image equal to the array whenever the stream says it is in step.      *)
(***************************************************************************)
CONSTANTS
    StorePositions, \* the byte positions
    StoreBytes      \* the contents of a position

VARIABLES
    bytes,          \* the stream as its users see it
    saved,          \* the stream below
    inStep          \* a flush would have nothing to do

StoreInit ==
    /\ bytes \in [StorePositions -> StoreBytes]
    /\ saved = bytes
    /\ inStep = TRUE

\* Any older byte may be saved, whatever else is done.
Saving == \A i \in StorePositions : saved'[i] \in {saved[i], bytes[i]}

\* Some positions are written with v.
StoreWrite(v) ==
    /\ bytes' \in [StorePositions -> StoreBytes]
    /\ \A i \in StorePositions : bytes'[i] \in {bytes[i], v}

StoreNext ==
    /\ Saving
    /\ UNCHANGED bytes \/ \E v \in StoreBytes : StoreWrite(v)
    /\ inStep' \in BOOLEAN /\ (inStep' => saved' = bytes')

StoreSpec == StoreInit /\ [][StoreNext]_<<bytes, saved, inStep>>
=============================================================================
