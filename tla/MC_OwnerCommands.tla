-------------------------- MODULE MC_OwnerCommands --------------------------
(* Two contracts and three actions, in batches of two.                       *)
EXTENDS OwnerCommands

MCContract == <<"FeePool", "Issuer">>
MCLeft == <<"importAddresses", "setTarget", "addSynths">>
MCOwnerships ==
  {[c \in ToSet(MCContract) |-> "deployer"],
   [c \in ToSet(MCContract) |-> IF c = "Issuer" THEN "new" ELSE "deployer"],
   [c \in ToSet(MCContract) |-> IF c = "FeePool" THEN "other" ELSE "deployer"]}
MCModes == {"account", "safe", "relay"}
MCSafe == {"safe"}
=============================================================================
