----------------------------- MODULE Attestation -----------------------------
(***************************************************************************)
(* What internal/web/attestation.go and internal/tdx require of the quote  *)
(* and the event log of a finalize request.                                *)
(*   quote:  parses, genuine (go-tdx-guest verifies it), reportData, mrtd  *)
(*           and rtmrs, the three registers the server looks at            *)
(*   log:    a sequence of events [register, type, digest]; the type       *)
(*           "SecureBoot" is a driver-config event of that EFI variable    *)
(* A register is extended by hashing its value with the next digest: it    *)
(* stands for the sequence of digests it was extended with.                *)
(***************************************************************************)
EXTENDS Sequences, Integers

CONSTANT SecureBootOn   \* EFISecureBootHash

Registers == 0 .. 2

(* The log's events of one type, as FilterByEventType returns them.        *)
OfType(log, type) == SelectSeq(log, LAMBDA e : e.type = type)

(* EventLogger.Replay: what the registers hold after the logged events.    *)
Replay(log) ==
  [i \in Registers |->
     LET extensions == SelectSeq(log, LAMBDA e : e.register = i)
     IN  [j \in 1 .. Len(extensions) |-> extensions[j].digest]]

(* AttestationVerificationProtocol.Verify against a session's nonce.       *)
VerifyQuote(quote, nonce, devMode, enforceQuoteVerify) ==
  /\ quote.parses
  /\ enforceQuoteVerify => quote.genuine
  /\ quote.reportData = nonce \/ devMode

(* The three registers one after the other.                                *)
VerifyRTMRs(quote, log) == \A i \in Registers : quote.rtmrs[i] = Replay(log)[i]

(* The first SecureBoot variable decides, and there must be one.           *)
SecureBootEnabled(log) ==
  LET variables == OfType(log, "SecureBoot")
  IN  variables # << >> /\ variables[1].digest = SecureBootOn

HasCfv(log) == OfType(log, "FirmwareBlob") # << >>

(* The digest of the first firmware blob.                                  *)
Cfv(log) == OfType(log, "FirmwareBlob")[1].digest

(* EventLog.Verify, when it returns no error.                              *)
VerifyLog(quote, log) ==
  VerifyRTMRs(quote, log) /\ SecureBootEnabled(log) /\ HasCfv(log)
=============================================================================
