------------------------------ MODULE MCMixer ------------------------------
(* A card with two routes in one profile, none in the second, which has the*)
(* sink all the same, and no sink in the third.  The stream is stereo and  *)
(* starts one step apart, the quieter channel at zero.                     *)
EXTENDS Mixer, TLC

RoutesOfOn == [r \in Route |-> {"on"}]
Stereo == [x \in Setting |-> IF x = "stream" THEN <<0, 1>> ELSE <<1>>]
RoutesAlike == Permutations(Route)
OneLevel == [x \in Setting |-> IF x = "stream" THEN {<<1, 1>>} ELSE {<<0>>}]
=============================================================================
