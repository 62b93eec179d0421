------------------------- MODULE MCShieldV4Documented -------------------------
(***************************************************************************)
(* A receipt whose only defect is that one of its components has signed    *)
(* twice with one algorithm, under two keys.                               *)
(***************************************************************************)
EXTENDS MCShieldV4, ShieldV4Documented

CONSTANT twice

MCNames == {twice}

MCSupportedComponents == <<"qwg">>

MCSubmitted ==
  [n \in MCNames |->
     Sign([CleanSubmission EXCEPT !.receipt.components[1].bundle.entries =
             <<@[1], @[2], [@[2] EXCEPT !.key_id = "another"]>>])]

=============================================================================
