------------------------------- MODULE MCGui -------------------------------
(* Gui for TLC: every platform, two network services, the three kinds of    *)
(* proxy of a service.                                                       *)
EXTENDS Gui

CONSTANTS s1, s2

MCKinds == <<"web", "secureweb", "socksfirewall">>
ServiceSymmetry == Permutations({s1, s2})
=============================================================================
