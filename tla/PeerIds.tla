------------------------------ MODULE PeerIds ------------------------------
(* The device_ids that peers announce in their Hello packets: the key of    *)
(* the pairing gate, of the trust store and of the peer registry.           *)
CONSTANT Devices
=============================================================================
