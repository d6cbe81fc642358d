----------------------------- MODULE MCKeyServer -----------------------------
(* Instances of the key server for TLC.                                    *)
EXTENDS KeyServer, TLC

(* Sessions, requests and keys are told apart by equality only.            *)
Symmetry == Permutations(Sessions) \cup Permutations(Handlers) \cup Permutations(RsaKeys)

(* Boots of a VM: UEFI measures firmware and variables in register 0, the  *)
(* boot loader and the kernel in 1 and 2.                                  *)
Boot(firmware, secureBoot) ==
  <<[register |-> 0, type |-> "FirmwareBlob", digest |-> <<firmware>>],
    [register |-> 0, type |-> "SecureBoot", digest |-> secureBoot],
    [register |-> 1, type |-> "Other", digest |-> "loader"],
    [register |-> 2, type |-> "Other", digest |-> "kernel"]>>

SecureBoot == Boot("fw1", "on")
UpdatedBoot == Boot("fw2", "on")
InsecureBoot == Boot("fw1", "off")
OtherKernel == [SecureBoot EXCEPT ![4].digest = "kernel2"]

(* Two VMs of the same measurement of the TD, of which the second boots an *)
(* updated firmware; one without Secure Boot, and one without a blob.      *)
TwoFirmwares ==
  {[mrtd |-> <<"td">>, log |-> SecureBoot], [mrtd |-> <<"td">>, log |-> UpdatedBoot],
   [mrtd |-> <<"td">>, log |-> InsecureBoot], [mrtd |-> <<"td">>, log |-> Tail(SecureBoot)]}

(* A client presents the log of any of them, or one with another kernel.   *)
AnyLog == {SecureBoot, UpdatedBoot, InsecureBoot, Tail(SecureBoot), OtherKernel}

(* Ids that hold the separator, or end like another info string.           *)
DashedIds == {<<"vm">>, <<"-", "vm">>, <<"VM_BOOT", "-", "vm">>}

(* What ids, measurements and info strings are made of.                    *)
AllWords == {"dev", "-", "VM_BOOT", "APP", "vm", "td", "fw1", "fw2"}

(* A curve as long as the derived key, as P-256, and one that is longer,   *)
(* as P-384.                                                               *)
TwoCurves == {[order |-> 13, size |-> 2], [order |-> 251, size |-> 4]}

(* No log of these is another boot's.                                      *)
ASSUME LogsOfBoots == LogsAgree
=============================================================================
