--------------------------- MODULE MCWorkloadWait ---------------------------
(* Instances of WorkloadWait for TLC: a VM alone, with a volume, and with a*)
(* volume and a public IP.                                                 *)
EXTENDS WorkloadWait

CONSTANTS vm, volume, ip

=============================================================================
