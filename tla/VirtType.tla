------------------------------- MODULE VirtType -------------------------------
(***************************************************************************)
(* virt_type of modules/nova.py: from what lscpu and /dev/kvm report of a    *)
(* machine to libvirt's virt_type.  No state.  A field that lscpu does not   *)
(* report is "" or {}, which no test below tells from one it does not know.  *)
(***************************************************************************)
EXTENDS Naturals, Sequences

\* Python's values, as far as they are compared: a list is never a string.
Str(s)  == << "str", s >>
List(s) == << "list", s >>

\* /dev/kvm: whether it can be read and written, whether it is a character
\* device, and its major and minor number.
KvmDevice == [accessible |-> TRUE, character |-> TRUE, number |-> << 10, 232 >>]
NoDevice  == [accessible |-> FALSE, character |-> FALSE, number |-> << 0, 0 >>]

KvmApiAvailable(m) == m.kvm = KvmDevice

\* The data of "Architecture:" is split into a list of words.
ArchitectureOf(m) == List(<< m.architecture >>)

VirtFlags == { << "AuthenticAMD", "svm" >>, << "GenuineIntel", "vmx" >>, << "IBM/S390", "sie" >> }

HwVirtSupported(m) ==
  \/ ArchitectureOf(m) \in {Str("ppc64"), Str("ppc64le")}
  \/ \E f \in m.flags : << m.vendor, f >> \in VirtFlags

VirtTypeOf(m) == IF HwVirtSupported(m) /\ KvmApiAvailable(m) THEN "kvm" ELSE "qemu"
================================================================================
