--------------------------- MODULE SequenceNumbers ---------------------------
(* sequence_t: unsigned integers of a fixed width that wrap around.  The code *)
(* compares them by the sign of their difference.                             *)
EXTENDS Integers

CONSTANT SeqSpace    \* how many sequence numbers there are: 2^32 in the code

ASSUME SequenceAssumption ==
    /\ SeqSpace \in Nat
    /\ SeqSpace >= 2
    /\ SeqSpace % 2 = 0

Sequence == 0 .. SeqSpace - 1

\* The unsigned difference a - b.
Delta(a, b) == (a - b) % SeqSpace

\* The comparison (int)(a - b) > 0.
IsLater(a, b) == Delta(a, b) \in 1 .. (SeqSpace \div 2) - 1

\* The comparison (int)(a - b) < 0, which is also (a - b) > INT_MAX.
IsEarlier(a, b) == Delta(a, b) >= SeqSpace \div 2

\* Flow sequence numbers are never 0, which stands for "no permit".
FlowSeq == Sequence \ {0}

\* The flow sequence number after f (nextFlowSequence on the sender, the
\* std::max(flowSeq+1, 1U) of request_to_send_more on the receiver).
NextFlow(f) == IF (f + 1) % SeqSpace = 0 THEN 1 ELSE (f + 1) % SeqSpace
=============================================================================
