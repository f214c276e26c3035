------------------------------- MODULE AsidMap -------------------------------
(***************************************************************************)
(* What the ASID layer promises to the rest of the crate: a partial map    *)
(* from ASIDs to the roots of address spaces.  An ASID is bound to a root  *)
(* that no other ASID names, is released alone (delete_asid) or with the   *)
(* whole block of ASIDs that one pool serves (delete_asid_pool), and is    *)
(* never moved from one root to another in a single step.                  *)
(*                                                                         *)
(* It says nothing of tables, pools, harts or TLBs: RiscvAsid and ArmAsid  *)
(* implement it with a table of pools and the pools it points to.          *)
(***************************************************************************)
CONSTANTS
  Asids,    \* the ASIDs
  Blocks,   \* the sets of ASIDs released together
  Roots,    \* the root page tables of user address spaces
  NoRoot    \* what an unbound ASID maps to

VARIABLE vspaceOf   \* vspaceOf[a]: the root bound to a, or NoRoot

MapTypeOK == vspaceOf \in [Asids -> Roots \cup {NoRoot}]

Init == vspaceOf = [a \in Asids |-> NoRoot]

Bind(a, r) ==
  /\ vspaceOf[a] = NoRoot
  /\ \A b \in Asids : vspaceOf[b] # r
  /\ vspaceOf' = [vspaceOf EXCEPT ![a] = r]

Release(a) == vspaceOf' = [vspaceOf EXCEPT ![a] = NoRoot]

ReleaseBlock(block) ==
  vspaceOf' = [a \in Asids |-> IF a \in block THEN NoRoot ELSE vspaceOf[a]]

Next ==
  \/ \E a \in Asids, r \in Roots : Bind(a, r)
  \/ \E a \in Asids : Release(a)
  \/ \E block \in Blocks : ReleaseBlock(block)

Spec == Init /\ [][Next]_vspaceOf

==============================================================================
