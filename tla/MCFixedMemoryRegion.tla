------------------------ MODULE MCFixedMemoryRegion ------------------------
(* Small instances of FixedMemoryRegion for TLC. *)
EXTENDS FixedMemoryRegion
============================================================================
