---------------------------- MODULE MCRunCommand ----------------------------
(***************************************************************************)
(* Small instances of RunCommand for TLC.                                  *)
(***************************************************************************)
EXTENDS RunCommand, TLC

CONSTANTS n1, n2, a, b

MCSelector == {{n1, n2}, {n1}}
AllNodes   == {{n1, n2}}

\* A host that moves while a node disappears, and a node behind a bastion.
MCInventory ==
  {n1 :> a @@ n2 :> a, n1 :> b, n1 :> a @@ n2 :> Bastion}
TwoInventories == {n1 :> a, n1 :> b @@ n2 :> a}

Symmetry == Permutations(Proc)
=============================================================================
