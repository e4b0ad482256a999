---------------------------- MODULE MCDhcpClient -----------------------------
(* DhcpClient for TLC.                                                     *)
EXTENDS DhcpClient

\* Lease, renewal and rebinding times in minutes: as a server gives them, and a
\* lease so short that everything ends at once.
MCLeases == {<<6, 2, 4>>, <<1, 1, 1>>}

\* Also an infinite lease, and a longer one.
MCLeasesForever == MCLeases \cup {<<Forever, Forever, Forever>>, <<12, 5, 9>>}
=============================================================================
