-------------------------- MODULE MCMessageCollator --------------------------
(* MessageCollator for TLC: a message of three packets and one of a single    *)
(* packet.                                                                    *)
EXTENDS MessageCollator, TLC

CONSTANTS long, short

MCPackets == [m \in Messages |-> IF m = short THEN 1 ELSE 3]
=============================================================================
