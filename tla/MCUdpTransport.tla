--------------------------- MODULE MCUdpTransport ---------------------------
(* UdpTransport for TLC, and its relation to UdpDataStream.                  *)
EXTENDS UdpTransport

DataAt(socket) == {i \in DOMAIN socket : socket[i].cmd = "data"}

\* The packets among the messages on the data socket, as UdpDataStream has them.
Packets(socket) ==
    LET data == KeepAt(socket, DataAt(socket))
    IN  [i \in DOMAIN data |-> [n |-> data[i].n, resent |-> data[i].resent]]

\* The trackers in the permits for the current request.
CurrentPermits ==
    {permitSocket[i].seen :
        i \in {j \in DOMAIN permitSocket : permitSocket[j].flowSeq = activeFlowSequence}}

Stream == INSTANCE UdpDataStream WITH
    MaxData      <- MaxStart,
    ResendDelay  <- FALSE,
    MaxPermits   <- MaxFlowMsgs,
    MaxFaults    <- 0,
    restarts     <- 0,
    disorder     <- 0,
    appendFailed <- FALSE,
    permits      <- CurrentPermits,
    wire         <- Packets(dataSocket)

\* The permits that the flow control really issues, with its requests,
\* completions, timeouts and repeats, are permits that UdpDataStream allows:
\* so what is shown there for any permits holds for the whole transport.
ImplementsDataStream == Stream!Spec
=============================================================================
