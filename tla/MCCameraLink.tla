----------------------------- MODULE MCCameraLink -----------------------------
(***************************************************************************)
(* Instances of CameraLink for TLC.                                        *)
(***************************************************************************)
EXTENDS CameraLink

Face(size) == [w |-> size, h |-> size]

OneFace == {<<>>, <<Face(1)>>}
ThreeFaces == {<<>>, <<Face(1)>>, <<Face(1), Face(2)>>, <<Face(2), Face(1), Face(3)>>}
===============================================================================
