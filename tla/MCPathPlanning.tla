--------------------------- MODULE MCPathPlanning ---------------------------
(* Drawings of a few strokes: an uneven corner; a square of loose lines, one *)
(* of them drawn twice; two lines apart and a short one between; a line that *)
(* runs on into a curve, and another whose run-out would cross the curve; a  *)
(* crossing of three lines; two curves of the same length and ends that      *)
(* bulge to either side; marks with a travel between, as an app sends them.  *)
EXTENDS PathPlanning

Line(a, b) == Stroke(TRUE, FALSE, <<a, b>>)
Chain(pts) == Stroke(TRUE, FALSE, pts)
Curve(pts) == Stroke(TRUE, TRUE, pts)

MCDrawings == {
  <<Chain(<< <<0, 0>>, <<20, 0>>, <<20, 10>> >>)>>,
  <<Line(<<0, 0>>, <<20, 0>>), Line(<<20, 20>>, <<20, 0>>), Line(<<0, 20>>, <<20, 20>>),
    Line(<<0, 0>>, <<0, 20>>), Line(<<20, 0>>, <<20, 20>>)>>,
  <<Line(<<0, 0>>, <<20, 0>>), Line(<<10, 10>>, <<14, 10>>), Line(<<0, 20>>, <<20, 20>>)>>,
  <<Line(<<0, 0>>, <<20, 0>>), Curve(<< <<20, 0>>, <<30, 0>>, <<30, 20>> >>), Line(<<10, 10>>, <<24, 10>>)>>,
  <<Line(<<0, 0>>, <<10, 0>>), Line(<<20, 0>>, <<10, 0>>), Chain(<< <<10, 20>>, <<10, 10>>, <<10, 0>> >>)>>,
  <<Curve(<< <<0, 0>>, <<0, 20>>, <<20, 20>> >>), Curve(<< <<0, 0>>, <<20, 0>>, <<20, 20>> >>)>>,
  <<Line(<<0, 0>>, <<20, 0>>), Transit(<<20, 0>>, <<20, 20>>), Chain(<< <<20, 20>>, <<10, 20>>, <<0, 20>>, <<0, 10>> >>)>> }
MCPositions == {<<18, 12>>}
MCOrigin == <<1, 2>>
=============================================================================
