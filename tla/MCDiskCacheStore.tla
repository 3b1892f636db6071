-------------------------- MODULE MCDiskCacheStore --------------------------
(* Small instances of DiskCacheStore for TLC. *)
EXTENDS DiskCacheStore, TLC

CONSTANTS k1, k2, k3, v1, v2

\* one value takes twice the bytes of the other
MCSizeOf == v1 :> 1 @@ v2 :> 2

\* k1 and k2 share a file name
MCFileOf == k1 :> "f1" @@ k2 :> "f1" @@ k3 :> "f2"
=============================================================================
