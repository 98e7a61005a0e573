---------------------------- MODULE MCAssetManager ----------------------------
(* Small instances of AssetManager for TLC. *)
EXTENDS AssetManager

CONSTANTS u1, u2, p1

\* Two plain uuids; or a uuid and a sub-asset of it ("u1@u2").
Plain    == [u \in Uuids |-> u]
SubAsset == [u \in Uuids |-> u1]

NoOps     == {}

StopOps   == {"shutdown"}
EvictOps  == {"evict"}
EveryOp   == OpNames
=============================================================================
