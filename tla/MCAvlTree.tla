----------------------------- MODULE MCAvlTree -----------------------------
(* Instances of AvlTree for TLC.  The comparison is the one of the connection  *)
(* container: the difference of two unsigned addresses, returned as an int.    *)
EXTENDS AvlTree

CONSTANTS AddressRange  \* 2^32 in the code

IpCmp(a, b) == ((a - b + AddressRange + AddressRange \div 2) % AddressRange) - AddressRange \div 2

\* Five addresses around the highest one: they span less than half the range.
MCKeys == {(k + AddressRange - 3) % AddressRange : k \in 0 .. 4}
MCUpdatable == {0}
MCThree == 0 .. 2
=============================================================================
