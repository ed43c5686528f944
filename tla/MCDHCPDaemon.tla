---------------------------- MODULE MCDHCPDaemon ----------------------------
(* Small configurations of the DHCP daemon for TLC.                        *)
EXTENDS DHCPDaemon, TLC

\* Nothing tells one lease object, call, client or address from another.
Interchangeable == Permutations(Lease) \cup Permutations(Call)
                   \cup Permutations(Client) \cup Permutations(Addr)
=============================================================================
