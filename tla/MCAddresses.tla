---------------------------- MODULE MCAddresses ----------------------------
(***************************************************************************)
(* Instances of Addresses: 3-bit addresses for family 4, 4-bit for 6.      *)
(***************************************************************************)
EXTENDS Addresses

(* Every pool of family 4, of every length and position (a /32 among them). *)
MCPools4 == {p \in Prefix : p.fam = 4}

(* Two pools of family 6.                                                  *)
MCPools6 == {[fam |-> 6, base |-> 0, len |-> 2], [fam |-> 6, base |-> 8, len |-> 1]}

P4(b, n) == [fam |-> 4, base |-> b, len |-> n]
P6(b, n) == [fam |-> 6, base |-> b, len |-> n]

(* Endpoint lists: empty, nested, disjoint, with host bits, of both        *)
(* families, host routes, whole families.                                  *)
MCLists == {{}, {P4(0, 0)}, {P4(1, 1)}, {P4(5, 2)}, {P4(6, 3)},
            {P4(2, 2), P6(3, 2)}, {P4(4, 3), P4(7, 3)}, {P6(0, 0)}, {P6(4, 2)}}

(* The pool does not look at lists.                                        *)
MCNoList == {{}}
=============================================================================
