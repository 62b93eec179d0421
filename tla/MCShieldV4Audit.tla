--------------------------- MODULE MCShieldV4Audit ---------------------------
(***************************************************************************)
(* Overlapping verifications over one host and one sink: receipts under    *)
(* registry 1 and registry 2, either of which may be submitted twice, one  *)
(* whose optional signature is forged, and one that contains itself.       *)
(***************************************************************************)
EXTENDS MCShieldV4

CONSTANTS first, second, forged, endless

MCNames == {first, second, forged, endless}

MCSupportedComponents == <<"qwg">>

Second ==
  Sign([CleanSubmission EXCEPT
    !.receipt.request_id = "second", !.request_id = "second",
    !.receipt.registry_version = 2, !.receipt.components[1].registry_version = 2,
    !.registry.version = 2])

Forged ==
  Sign([CleanSubmission EXCEPT
    !.receipt.request_id = "other", !.request_id = "other",
    !.receipt.bundle.entries = <<Required[1], Required[2],
                                 [Entry("fn-dsa") EXCEPT !.signature = "forged"]>>])

\* A list that contains itself.
Endless ==
  [CleanSubmission EXCEPT
    !.json = [root |-> 1, node |-> <<[kind |-> "container", items |-> <<[key |-> 0, at |-> 1]>>]>>]]

MCSubmitted ==
  [n \in MCNames |->
     CASE n = first   -> Sign(CleanSubmission)
       [] n = second  -> Second
       [] n = forged  -> Forged
       [] n = endless -> Endless]

=============================================================================
