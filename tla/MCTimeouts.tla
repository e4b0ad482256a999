----------------------------- MODULE MCTimeouts -----------------------------
(* IP reassembly, ARP, the coarse and the fine timer of DHCP.              *)
EXTENDS Timeouts

MCInterval == <<2, 4, 1>>
=============================================================================
