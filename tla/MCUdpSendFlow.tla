---------------------------- MODULE MCUdpSendFlow ----------------------------
(* UdpSendFlow for TLC.  The workers are interchangeable.  A history variable *)
(* tells whether a request has ever been given up.                            *)
EXTENDS UdpSendFlow, TLC

VARIABLE gaveUp    \* history: has abort() been called for the destination?

MCInit == Init /\ gaveUp = FALSE

MCNext == Next /\ gaveUp' = (gaveUp \/ aborter' \in {"resend", "all"})

MCSpec == MCInit /\ [][MCNext]_<<vars, gaveUp>>

WorkerSymmetry == Permutations(Workers)

\* Until a request is given up (requestExpiryTime cleared by abort()), queued
\* packets never wait without a request that will be answered or repeated.
NoStrandedUntilGivenUp == gaveUp \/ NoStrandedPackets
=============================================================================
