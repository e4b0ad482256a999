------------------------------ MODULE MCEthRx -------------------------------
(* Sizes of the frames on the wire, in descriptors.                          *)
EXTENDS EthRx

\* Every other frame straddles two descriptors.
MCSegsOf == [f \in Frame |-> IF f % 2 = 0 THEN 2 ELSE 1]

\* One long frame among short ones.
MCOneLong == [f \in Frame |-> IF f = 2 THEN 2 ELSE 1]
=============================================================================
