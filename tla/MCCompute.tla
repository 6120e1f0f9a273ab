------------------------------- MODULE MCCompute -------------------------------
(* A machine with hardware virtualization, one whose /dev/kvm is missing and a *)
(* POWER one, whose lscpu reports neither vendor nor flags.                    *)
EXTENDS Compute

MCMachines ==
  { [architecture |-> "x86_64", vendor |-> "GenuineIntel", flags |-> {"vmx"}, kvm |-> KvmDevice],
    [architecture |-> "x86_64", vendor |-> "AuthenticAMD", flags |-> {"svm"}, kvm |-> NoDevice],
    [architecture |-> "ppc64le", vendor |-> "", flags |-> {}, kvm |-> KvmDevice] }
================================================================================
