---------------------------- MODULE AddressPool ----------------------------
(***************************************************************************)
(* What an IPAM plugin promises its caller, with every detail of how the   *)
(* addresses are kept left out: an ADD hands an attachment a whole result  *)
(* at once, made of addresses nobody else holds, and the attachment keeps  *)
(* all of it until its DEL takes all of it back.                           *)
(*                                                                         *)
(* An attachment is one (container, interface) pair of one network.        *)
(***************************************************************************)
CONSTANTS Att,      \* attachments
          Results   \* the address sets an ADD may answer with

VARIABLE assigned   \* the addresses each attachment has been told are its own

Init == assigned = [a \in Att |-> {}]

Assign(a) ==
    /\ assigned[a] = {}
    /\ \E S \in Results :
          /\ \A b \in Att : assigned[b] \cap S = {}
          /\ assigned' = [assigned EXCEPT ![a] = S]

Revoke(a) == assigned' = [assigned EXCEPT ![a] = {}]

Next == \E a \in Att : Assign(a) \/ Revoke(a)

Spec == Init /\ [][Next]_assigned

(***************************************************************************)
(* No address belongs to two attachments.                                  *)
(***************************************************************************)
Exclusive == \A a, b \in Att : a # b => assigned[a] \cap assigned[b] = {}
=============================================================================
