----------------------------- MODULE MCMetadata ----------------------------
(***************************************************************************)
(* Instances of AfsMetadata for TLC.                                       *)
(***************************************************************************)
EXTENDS AfsMetadata, TLC

\* The passphrase hashes to a used block first, then to two free ones.
ChainOf3 == (0 :> DeviceSize - 1) @@ (1 :> 2) @@ (2 :> 5)

\* The instance is one for which the invariants are proved in general.
ASSUME ProvedAssumption == SmallDevice /\ LocationsListed /\ OneIndirect

\* The invariants speak of a device whose blocks the passive file system has
\* left alone and to which no block was added after a mount: what follows
\* after either is not explored.
LeftAlone == Undisturbed
=============================================================================
