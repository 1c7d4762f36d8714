--------------------------- MODULE MCBottleGrabber ---------------------------
(***************************************************************************)
(* Instances of BottleGrabber for TLC.                                     *)
(***************************************************************************)
EXTENDS BottleGrabber, TLC

\* The calibrated pixel.
OnePixel == {<<CalibU, CalibV>>}

\* Two corners of what the clamp of 20 pixels lets through.  The column moves
\* joint 1 alone and the row joints 2 and 3 alone, so that between them they hold
\* both ends of each; the first lies outside, and is clamped.
EdgePixels == {<<CalibU - 21, CalibV + 21>>, <<CalibU + 20, CalibV - 20>>}
=============================================================================
