---------------------------- MODULE MCCupDetector ----------------------------
(***************************************************************************)
(* A frame of eight by six pixels.  The bottles of a frame are up to three *)
(* boxes that are apart, overlap by half and by more than half, lie in one *)
(* another, tie in score, or lie across or beyond the edge; next to them   *)
(* there may be a cup, a wine glass, something else or a faint bottle.     *)
(***************************************************************************)
EXTENDS CupDetector, SequencesExt

Bottle(box, score) == [cls |-> 39, box |-> box, score |-> score]

Bottles ==
  {Bottle(<<1, 1, 4, 4>>, 60), Bottle(<<1, 1, 4, 3>>, 60), Bottle(<<2, 1, 5, 4>>, 40),
   Bottle(<<1, 1, 5, 4>>, 50), Bottle(<<5, -3, 14, 3>>, 80)}

Others ==
  {<<>>,
   <<[cls |-> 40, box |-> <<-2, 1, 3, 4>>, score |-> 50],
     [cls |-> 0,  box |-> <<2, 2, 6, 5>>,  score |-> 95],
     Bottle(<<9, 1, 12, 4>>, 90)>>,
   <<Bottle(<<0, 0, 2, 2>>, 20),
     [cls |-> 41, box |-> <<1, 1, 2, 4>>,  score |-> 50]>>}

MCFrames ==
  {SetToSeq(bs) \o o : bs \in kSubset(3, Bottles) \cup {{}}, o \in Others}
=============================================================================
