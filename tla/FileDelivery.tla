---------------------------- MODULE FileDelivery ----------------------------
(***************************************************************************)
(* What the receiver of a file promises about the file at its destination, *)
(* whatever happens to the frames on the way: it is never touched before a *)
(* whole file was offered, and when it is whole it is one of those.        *)
(***************************************************************************)
CONSTANT Contents   \* what a file may hold

VARIABLES
  offered,   \* contents whose checksum the sender has announced
  dest       \* the file at its destination

deliveryVars == <<offered, dest>>

\* absent, torn (a write began and has not ended), or whole.
NoFile   == [is |-> "absent"]
Torn     == [is |-> "torn"]
Whole(c) == [is |-> "whole", holds |-> c]

DeliveryInit == offered = {} /\ dest = NoFile

Offer == offered \subseteq offered' /\ offered' \subseteq Contents /\ UNCHANGED dest

Tear == offered # {} /\ dest' = Torn /\ UNCHANGED offered

Fill == dest = Torn /\ (\E c \in offered : dest' = Whole(c)) /\ UNCHANGED offered

DeliveryNext == Offer \/ Tear \/ Fill

DeliverySpec == DeliveryInit /\ [][DeliveryNext]_deliveryVars
=============================================================================
