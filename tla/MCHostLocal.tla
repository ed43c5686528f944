---------------------------- MODULE MCHostLocal ----------------------------
(* Small configurations of the host-local plugin for TLC.                  *)
EXTENDS HostLocal

CONSTANTS a1, a2, a3, c1, c2, c3

Range(s, e, g) == [start |-> s, end |-> e, gw |-> g]

\* One interface per container, or two interfaces of the same one.
AttTwo   == {a1, a2}
AttThree == {a1, a2, a3}
ContThree == {c1, c2, c3}
Owner == [a \in AttThree |-> CASE a = a1 -> c1 [] a = a2 -> c2 [] a = a3 -> c3]
OwnerTwo == [a \in AttTwo |-> CASE a = a1 -> c1 [] a = a2 -> c2]
OwnerShared == [a \in AttTwo |-> c1]

\* Two addresses per ADD, each from one range; a range may hold its gateway.
RangesFaults == <<<<Range(1, 3, 1)>>, <<Range(7, 7, 9)>>>>
RangesTwoSmall == <<<<Range(1, 3, 1)>>, <<Range(7, 8, 9)>>>>

\* One range set made of two ranges, with three and with two addresses
\* besides their gateways (README, Departures, about the second).
RangesSplit == <<<<Range(1, 2, 1), Range(5, 7, 6)>>>>
RangesSplitTwo == <<<<Range(1, 2, 1), Range(5, 6, 5)>>>>

\* Address 1 is a gateway; address 99 is in no range.
NoRequests == {{}}
FaultRequests == {{}, {2, 99}}
SomeRequests == {{}, {1}, {2, 8}, {2, 99}}
=============================================================================
