------------------------ MODULE MCEnclaveDeployment ------------------------
(* EnclaveDeployment for TLC.                                              *)
EXTENDS EnclaveDeployment, TLC

CONSTANTS operator, other, k1, k2, laptop, i1, i2, p1, p2, zero

MCSenders == {operator, other}
MCKeys == {k1, k2, laptop}
MCImages == {i1, i2}
MCPcrs == {p1, p2, zero}
MCPcrsOf == i1 :> p1 @@ i2 :> p2
MCEnvPcrs == {p1}
KeySymmetry == Permutations({k1, k2})
=============================================================================
