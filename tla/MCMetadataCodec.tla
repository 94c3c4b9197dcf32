---------------------------- MODULE MCMetadataCodec ----------------------------
(* Instances of MetadataCodec for TLC. *)
EXTENDS MetadataCodec, TLC

CONSTANTS k1, k2, k3, k4

(* One key of each format, and one that has none. *)
MCKind == k1 :> "ecdsa" @@ k2 :> "rsa" @@ k3 :> "ed25519" @@ k4 :> "dsa"
=============================================================================
