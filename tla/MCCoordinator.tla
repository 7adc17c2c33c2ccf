---------------------------- MODULE MCCoordinator ----------------------------
(* Two satellites, two recognitions on either path or on both.              *)
EXTENDS Coordinator
=============================================================================
