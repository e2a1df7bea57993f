--------------------------- MODULE MCVirtualDevices ---------------------------
(* Every set of D-pad keys and a button with the sticks at rest, the sticks at  *)
(* the edges and in the middle of their ranges with a few keys, and what a      *)
(* client without a C-stick reports.                                            *)
EXTENDS VirtualDevices

KeyStates ==
  [key_pad : SUBSET {"UP", "DOWN", "LEFT", "RIGHT", "A"}, circle_pad : {<<0, 0>>},
   c_stick : {<<0, 0>>}]

StickStates(c_sticks) ==
  [key_pad : {{}, {"A", "ZL"}}, circle_pad : {<<0, 0>>, <<-100, 156>>},
   c_stick : c_sticks]

MCInputs == KeyStates \cup StickStates({0, 1000, 1700, 2600} \X {0, 2000, 4095})
WithoutCPP == StickStates({<<0, 0>>})
=============================================================================
