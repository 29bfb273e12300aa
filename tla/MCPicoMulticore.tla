--------------------------- MODULE MCPicoMulticore ---------------------------
(***************************************************************************)
(* Three-bit words and FIFOs of three words.  The programs: the upstream    *)
(* example; bursts that overflow a FIFO, in both directions; programs that  *)
(* read without a poll and clear their sticky bits; and divisions on both   *)
(* cores at once.                                                           *)
(***************************************************************************)
EXTENDS PicoMulticore

PushCall(word) == [op |-> "push", word |-> word]
Plain(op) == [op |-> op]

Pair(first, second) == [core \in Core |-> IF core = 0 THEN first ELSE second]

Hello == Pair(<<Plain("pop"), PushCall(5)>>, <<PushCall(5), Plain("pop")>>)
Bursts == Pair(<<PushCall(5), PushCall(6), PushCall(7), PushCall(5),
                 Plain("pop"), Plain("pop"), Plain("pop"), Plain("pop")>>,
               <<PushCall(0), PushCall(0), PushCall(1), PushCall(2),
                 Plain("pop"), Plain("pop"), Plain("pop"), Plain("pop")>>)
Clears == Pair(<<Plain("read"), Plain("clear"), Plain("pop"), Plain("read")>>,
               <<PushCall(5), PushCall(6), PushCall(7), PushCall(0), Plain("clear"), PushCall(7)>>)
Divides == Pair(<<Plain("divide"), PushCall(5)>>, <<Plain("divide"), Plain("pop"), Plain("divide")>>)

MCPrograms == {Hello, Bursts, Clears, Divides}
\* Zero, the largest and the smallest signed number, and minus one.
MCOperand == {0, 3, 4, 7}
=============================================================================
