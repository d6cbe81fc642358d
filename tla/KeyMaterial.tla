----------------------------- MODULE KeyMaterial -----------------------------
(***************************************************************************)
(* The keys VaultKeyService derives.  HKDF and SHA-256 are taken to be     *)
(* injective: a derived key stands for the inputs it was derived from.     *)
(* Text is a sequence of words in which "-" is a word, so that an id may   *)
(* hold the separator of the info string.  Scalars are numbers of few      *)
(* digits to a small base.                                                 *)
(***************************************************************************)
EXTENDS Sequences, Integers, FiniteSetsExt

CONSTANTS
  Base,       \* values of a digit (256 for a byte)
  KeyLength,  \* digits of what deriveHKDF returns (32)
  Curves,     \* curves of the key types: [order, size], size in digits
  Words       \* that text is made of

(* The order of a curve is a number of at most its size in digits.         *)
ASSUME MaterialAssumption ==
  /\ Base \in Nat \ {0, 1} /\ KeyLength \in Nat \ {0}
  /\ \A c \in Curves : /\ c.size \in Nat \ {0}
                       /\ c.order \in 2 .. Base^c.size
  /\ {"dev", "-", "VM_BOOT", "APP"} \subseteq Words

ContextPrefix(devMode) == IF devMode THEN <<"dev", "-">> ELSE << >>

(* "%s-%s-%s" of the prefix, the context and the id.                       *)
Info(devMode, context, id) ==
  ContextPrefix(devMode) \o <<"-">> \o context \o <<"-">> \o id

ContextVMBoot == <<"VM_BOOT">>
ContextApp == <<"APP">>
Contexts == {ContextVMBoot, ContextApp}

(* SHA-256 of the one measurement followed by the other.                   *)
DeriveSeedFromMeasurements(mrtd, cfv) == mrtd \o cfv

(* The vault's master key is the secret of the HKDF, the seed its salt.    *)
DeriveHKDF(devMode, id, seed, context) ==
  [salt |-> seed, info |-> Info(devMode, context, id)]

(* Mutant: payloads are sealed for applications, not for the boot.         *)
SealKeyForApp(devMode, id, mrtd, cfv) ==
  DeriveHKDF(devMode, id, DeriveSeedFromMeasurements(mrtd, cfv), ContextApp)

(* The key that TDXSeal encrypts a payload with.                           *)
SealKey(devMode, id, mrtd, cfv) ==
  DeriveHKDF(devMode, id, DeriveSeedFromMeasurements(mrtd, cfv), ContextVMBoot)
-----------------------------------------------------------------------------
(* crypto.ECDSA: the scalar of a derived key, in 1 .. n-1.                 *)
Scalar(okm, curve) == (okm % (curve.order - 1)) + 1

(* big.Int.Bytes has no leading zeros.                                     *)
NumBytes(d) == Min({k \in 0 .. KeyLength + 1 : d < Base^k})

(* ecdh.Curve.NewPrivateKey takes exactly the bytes of the curve's order.  *)
NewPrivateKey(d, curve) == NumBytes(d) = curve.size /\ d \in 1 .. curve.order - 1

(* DeriveECDSA succeeds on what HKDF returned.                             *)
DerivesECDSA(okm, curve) == NewPrivateKey(Scalar(okm, curve), curve)

(* What HKDF may return.                                                   *)
Okm == 0 .. Base^KeyLength - 1
=============================================================================
