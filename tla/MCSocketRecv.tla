---------------------------- MODULE MCSocketRecv ----------------------------
(***************************************************************************)
(* A command port with answers of two lengths and feedback, and a report   *)
(* port with reports of a plain length, of the ambiguous one, and of one   *)
(* that gives itself for shorter than it is.                               *)
(***************************************************************************)
EXTENDS SocketRecv, FiniteSetsExt

\* Frames one after the other: of each the length, the one it gives, and the type.
Placed(seq) ==
  [n \in 1..Len(seq) |->
     [len |-> seq[n][1], says |-> seq[n][2], type |-> seq[n][3],
      at |-> MapThenSumSet(LAMBDA k : seq[k][1], 1..(n - 1))]]

Reports(n, len, says) ==
  [kind |-> "report", frames |-> Placed([i \in 1..n |-> <<len, says, "report">>])]
OnCommand(seq) == [kind |-> "command", frames |-> Placed(seq)]

Answer(len) == <<len, len, "answer">>
Told(len)   == <<len, len, "feedback">>

MCGuessed == [short |-> 4, long |-> 6]

MCStreams ==
  {Reports(4, 3, 3), Reports(4, 4, 4), Reports(2, 6, 4),
   OnCommand(<<Answer(3), Told(4), Answer(4), Told(3)>>),
   OnCommand(<<Answer(4), Answer(4), Told(4), Told(4), Answer(4)>>)}
=============================================================================
