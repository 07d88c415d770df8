----------------------------- MODULE PeerStore -----------------------------
(***************************************************************************)
(* PeerStore (gcontinuity-daemon/src/store/mod.rs): the trusted devices, a *)
(* sled tree from device_id to a DeviceInfo of which only the fingerprint  *)
(* matters here.  sled serves reads from memory and makes its log durable  *)
(* on flush, or in the background at any moment; a crash loses what was    *)
(* not durable.                                                            *)
(*                                                                         *)
(* store_device and remove_device are an update followed by a flush; the   *)
(* two are separate steps of the caller, because other tasks read and      *)
(* write the tree, or the process dies, between them.                      *)
(***************************************************************************)
EXTENDS PeerIds

CONSTANTS
  Fingerprints,   \* what a peer may send as its certificate fingerprint
  EmptyFp,        \* the empty string: no phone is kept from sending it
  NoFp            \* no entry

ASSUME StoreAssumption == EmptyFp \in Fingerprints /\ NoFp \notin Fingerprints

VARIABLES
  store,     \* the tree as every reader of this process sees it
  durable    \* the tree as a restarted process would find it

storeVars == <<store, durable>>

StoreTypeOK ==
  /\ store \in [Devices -> Fingerprints \cup {NoFp}]
  /\ durable \in [Devices -> Fingerprints \cup {NoFp}]

\* PeerStore::open on a database left by an earlier run.
StoreOpen ==
  /\ store \in [Devices -> Fingerprints \cup {NoFp}]
  /\ durable = store

IsTrusted(d) == store[d] # NoFp

\* With the unwrap_or_default() of the caller: without an entry, an empty string.
GetFingerprint(d) == IF IsTrusted(d) THEN store[d] ELSE EmptyFp

\* db.insert of store_device
StoreInsert(d, f) ==
  /\ store' = [store EXCEPT ![d] = f]
  /\ UNCHANGED durable

\* db.remove of remove_device
StoreRemove(d) ==
  /\ store' = [store EXCEPT ![d] = NoFp]
  /\ UNCHANGED durable

\* db.flush, and sled's own periodic flush
StoreFlush ==
  /\ durable' = store
  /\ UNCHANGED store

StoreCrash ==
  /\ store' = durable
  /\ UNCHANGED durable
============================================================================
