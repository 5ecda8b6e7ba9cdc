----------------------------- MODULE MCFifoSeq -----------------------------
(***************************************************************************)
(* FifoSeq for TLC: which program each of three clients runs.              *)
(***************************************************************************)
EXTENDS FifoSeq, TLC

CONSTANTS c1, c2, c3

ThreeClients == {c1, c2, c3}
AllKinds == c1 :> "client" @@ c2 :> "bad_client" @@ c3 :> "c_nonblock"
=============================================================================
