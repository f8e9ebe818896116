-------------------------- MODULE MCUdpDataStream --------------------------
(* UdpDataStream for TLC, and what the bitmap of the tracker stands for.    *)
EXTENDS UdpDataStream

\* The circular bitmap says exactly which packets have been handed to the
\* collators, through every lap of the bitmap and of the sequence numbers:
\* base is the first packet missing, hwm the last one seen, and the bits are
\* those of the packets after a gap, none of them left over from an earlier lap
\* (while data packets stay in order).  The variables keep their types.
TrackerExact ==
    LET base == Min(0 .. MaxSend \ delivered)
    IN  TypeOK /\ (Orderly =>
        packetsSeen = [base |-> base % SeqSpace,
                       hwm  |-> Max({-1} \cup delivered) % SeqSpace,
                       seen |-> {Slot(n) : n \in {m \in delivered : m > base}}])
=============================================================================
