--------------------------- MODULE MCLifecycle ---------------------------
(* Instances of Lifecycle for TLC: a setting the setup form asks for and   *)
(* one it does not, with one value each.                                   *)
EXTENDS Lifecycle, TLC

CONSTANTS f1, price, limit, v1

OneFlow     == {f1}
MCKeys      == {price, limit}
MCSetupKeys == {price}
MCValues    == {v1}

=============================================================================
