------------------------------ MODULE KeyServer ------------------------------
(***************************************************************************)
(* The key and seal API of internal/web: an init request writes a session  *)
(* record to Valkey, a finalize request reads it back, verifies the quote  *)
(* against it and answers with a key or a sealed payload.  Requests run    *)
(* concurrently, on any node of the cluster.  A session stands for its id  *)
(* and its nonce, which are drawn together and never repeat.               *)
(***************************************************************************)
EXTENDS WebSessions, Attestation, KeyMaterial, FiniteSets

CONSTANTS
  Handlers,    \* finalize requests that are served at the same time
  Machines,    \* VMs that produce quotes: [mrtd, log], log as measured at boot
  Logs,        \* event logs that a client may present
  DevMode, EnforceSealQuoteVerify, EnforceKeyRequestQuoteVerify,
  Ids,         \* ids that requests name
  RsaKeys,     \* what rsa.GenerateKey may return
  MaxFaults    \* bound on commands that fail, and on requests cut off by
               \* the end of the process

ASSUME ServerAssumption ==
  /\ None \notin RsaKeys
  /\ IsFiniteSet(Handlers) /\ Handlers # {}
  /\ MaxFaults \in Nat

(* An MRTD is a SHA-384, of one length; a Cfv may have any.                *)
ASSUME MeasurementAssumption ==
  /\ DevMode \in BOOLEAN /\ Ids \subseteq Seq(Words)
  /\ \A m \in Machines : m.mrtd \in Seq(Words) /\ (HasCfv(m.log) => Cfv(m.log) \in Seq(Words))
  /\ \A m, n \in Machines : Len(m.mrtd) = Len(n.mrtd)

(* A log that replays to the registers of a VM tells the firmware that was *)
(* measured there.  The type of an event is no part of its digest, so this *)
(* is something expected of the logs that are presented.                   *)
LogsAgree ==
  \A m \in Machines, log \in Logs :
    HasCfv(log) /\ (\A i \in Registers : Replay(m.log)[i] = Replay(log)[i])
      => HasCfv(m.log) /\ Cfv(m.log) = Cfv(log)

VARIABLES
  phase,       \* of each session's init request
  record,      \* the session's record in Valkey, None when there is none
  expires,     \* sessions whose record has a TTL
  pc, session, got,  \* of each finalize request: its next command, its
                     \* session and the record it has read
  kind,        \* the endpoint: "key" or "seal"
  proof,       \* the seed of the measurements it has proved; and, as history,
               \* what was measured in the VM its quote comes from
  key,         \* the RSA key it has in hand
  rsa,         \* the RSA key in Valkey (all requests are for one id)
  drawn,       \* RSA keys generated so far
  served,      \* history: sessions a key was issued for
  late,        \* history: finalize requests that came after that
  reissued,    \* history: sessions such a request got a key for
  handedOut,   \* history: RSA keys that clients have received
  failures, crashes

storeVars == <<record, expires, rsa>>
requestVars == <<pc, session, got, kind, proof, key>>
historyVars == <<served, late, reissued, handedOut>>
boundVars == <<failures, crashes>>
vars == <<phase, storeVars, requestVars, drawn, historyVars, boundVars>>

(* A key type that is derived (SYMMETRIC, X25519, P256, P384), RSA, a type *)
(* the server does not know, or a request of the seal API (which has no    *)
(* key type and may have no id).                                           *)
Request == {"derived", "rsa", "unknown", "seal"}

(* What a VM's quote says; one that was tampered with is not genuine.      *)
Quotes(vm) == [parses : BOOLEAN, genuine : BOOLEAN, reportData : Sessions,
               mrtd : {vm.mrtd}, rtmrs : {Replay(vm.log)}]

Init ==
  /\ phase = [s \in Sessions |-> "new"]
  /\ record = [s \in Sessions |-> None] /\ expires = {}
  /\ pc = [h \in Handlers |-> "idle"]
  /\ session = [h \in Handlers |-> None]
  /\ got = [h \in Handlers |-> None]
  /\ kind = [h \in Handlers |-> "key"]
  /\ proof = [h \in Handlers |-> None]
  /\ key = [h \in Handlers |-> None]
  /\ rsa = None /\ drawn = {}
  /\ served = {} /\ late = {} /\ reissued = {} /\ handedOut = {}
  /\ failures = 0 /\ crashes = 0

(* A command fails; Valkey may have executed it all the same.              *)
Fails ==
  /\ failures + crashes < MaxFaults
  /\ failures' = failures + 1 /\ UNCHANGED crashes
-----------------------------------------------------------------------------
(* /key/init and /tdx/seal/init draw a session and write its record:       *)
(* WriteWithTTL is HSET and then EXPIRE.                                   *)
WriteSession(s, r) ==
  /\ phase[s] = "new"
  /\ record' = [record EXCEPT ![s] = r]
  /\ phase' = [phase EXCEPT ![s] = "expire"]
  /\ UNCHANGED <<expires, rsa, requestVars, drawn, historyVars, boundVars>>

KeyRequestInit(s, r) == r # "seal" /\ WriteSession(s, r)
TdxSealRequestInit(s) == WriteSession(s, "seal")

(* Mutant: the session is persisted by Write instead of WriteWithTTL.      *)
NoExpiry(s) ==
  /\ phase[s] = "expire"
  /\ phase' = [phase EXCEPT ![s] = "told"]
  /\ UNCHANGED <<storeVars, requestVars, drawn, historyVars, boundVars>>

(* ... after which the client is told the session.                         *)
ExpireSession(s) ==
  /\ phase[s] = "expire"
  /\ expires' = expires \cup {s}
  /\ phase' = [phase EXCEPT ![s] = "told"]
  /\ UNCHANGED <<record, rsa, requestVars, drawn, historyVars, boundVars>>

(* An error of either command is the answer to the init request.           *)
InitFails(s) ==
  /\ phase[s] \in {"new", "expire"} /\ Fails
  /\ \/ /\ phase[s] = "new" /\ UNCHANGED expires
        /\ \E r \in Request : record' = [record EXCEPT ![s] = r]
     \/ phase[s] = "expire" /\ expires' = expires \cup {s} /\ UNCHANGED record
     \/ UNCHANGED <<record, expires>>
  /\ phase' = [phase EXCEPT ![s] = "refused"]
  /\ UNCHANGED <<rsa, requestVars, drawn, historyVars>>

Lapse(s) ==
  /\ s \in expires
  /\ record' = [record EXCEPT ![s] = None] /\ expires' = expires \ {s}
  /\ UNCHANGED <<phase, rsa, requestVars, drawn, historyVars, boundVars>>
-----------------------------------------------------------------------------
(* /key/finalize and /tdx/seal/finalize.                                   *)
Finalize(h, s, k) ==
  /\ pc[h] = "idle" /\ phase[s] = "told"
  /\ pc' = [pc EXCEPT ![h] = "get"]
  /\ session' = [session EXCEPT ![h] = s]
  /\ kind' = [kind EXCEPT ![h] = k]
  /\ late' = IF s \in served THEN late \cup {h} ELSE late \ {h}
  /\ UNCHANGED <<phase, storeVars, got, proof, key, drawn, served, reissued, handedOut, boundVars>>

(* The request is over; what it held is forgotten.                         *)
Answer(h) ==
  /\ pc' = [pc EXCEPT ![h] = "idle"]
  /\ session' = [session EXCEPT ![h] = None]
  /\ got' = [got EXCEPT ![h] = None]
  /\ proof' = [proof EXCEPT ![h] = None]
  /\ key' = [key EXCEPT ![h] = None]
  /\ UNCHANGED kind

(* An answer, such as an error, that leaves everything else as it is.      *)
AnswerOnly(h) ==
  /\ Answer(h)
  /\ UNCHANGED <<phase, record, expires, rsa, drawn, historyVars>>

(* SessionStore.Get.                                                       *)
GetSession(h) ==
  /\ pc[h] = "get"
  /\ record[session[h]] # None
  /\ got' = [got EXCEPT ![h] = record[session[h]]]
  /\ pc' = [pc EXCEPT ![h] = "verify"]
  /\ UNCHANGED <<phase, storeVars, session, kind, proof, key, drawn, historyVars, boundVars>>

SessionMissing(h) ==
  /\ pc[h] = "get" /\ record[session[h]] = None
  /\ AnswerOnly(h) /\ UNCHANGED boundVars

(* What a request may present: a quote of a VM and an event log.           *)
Presented == UNION {[vm : {vm}, quote : Quotes(vm), log : Logs] : vm \in Machines}

(* The presentations that pass the key endpoint, and the seal endpoint,    *)
(* where the quote may come from any VM and in dev mode answer another     *)
(* nonce.                                                                  *)
KeyProofs ==
  [nonce \in Sessions |->
     {p \in Presented :
        /\ VerifyQuote(p.quote, nonce, FALSE, EnforceKeyRequestQuoteVerify)
        /\ VerifyLog(p.quote, p.log)}]

SealProofs ==
  [nonce \in Sessions |->
     {p \in Presented : VerifyQuote(p.quote, nonce, DevMode, EnforceSealQuoteVerify)}]

(* The quote or the event log does not verify, or the request in the       *)
(* record has no id.                                                       *)
RequestRefused(h) ==
  /\ pc[h] = "verify"
  /\ \/ kind[h] = "key" /\ (got[h] = "seal" \/ Presented \ KeyProofs[session[h]] # {})
     \/ kind[h] = "seal" /\ Presented \ SealProofs[session[h]] # {}
  /\ AnswerOnly(h) /\ UNCHANGED boundVars

(* The seed of a key comes from the quote and the log that were verified.  *)
QuoteVerified(h) ==
  /\ pc[h] = "verify" /\ kind[h] = "key"
  /\ \E p \in KeyProofs[session[h]] :
       proof' = [proof EXCEPT ![h] =
                   [measured |-> <<p.vm.mrtd, Cfv(p.vm.log)>>,
                    seed |-> DeriveSeedFromMeasurements(p.quote.mrtd, Cfv(p.log))]]
  /\ pc' = [pc EXCEPT ![h] = "delete"]
  /\ UNCHANGED <<phase, storeVars, session, got, kind, key, drawn, historyVars, boundVars>>

(* TDXSeal needs nothing from the store, and the session stays.            *)
SealPayload(h) ==
  /\ pc[h] = "verify" /\ kind[h] = "seal" /\ SealProofs[session[h]] # {}
  /\ AnswerOnly(h) /\ UNCHANGED boundVars

(* A field that is not base64 is an error of TDXSeal; the fields of a key  *)
(* request are empty, which is no error.                                   *)
SealFails(h) ==
  /\ got[h] = "seal"
  /\ SealPayload(h)

(* Mutant: an RSA key is written before one is read or generated.          *)
DispatchUnread(h) ==
  pc' = [pc EXCEPT ![h] = CASE got[h] = "rsa" -> "write"
                            [] got[h] = "derived" -> "derive"
                            [] OTHER -> "refuse"]

(* keyRequestFinalize on the type in the record: RSA keys come from the    *)
(* store, other types are derived, and an unknown type is refused after    *)
(* the session is gone.                                                    *)
Dispatch(h) ==
  pc' = [pc EXCEPT ![h] = CASE got[h] = "rsa" -> "read"
                            [] got[h] = "derived" -> "derive"
                            [] OTHER -> "refuse"]

(* Mutant: the session is left to its TTL.                                 *)
DeleteNothing(h) ==
  /\ pc[h] = "delete"
  /\ Dispatch(h)
  /\ UNCHANGED <<phase, storeVars, session, got, kind, proof, key, drawn, historyVars, boundVars>>

DeleteSession(h) ==
  /\ pc[h] = "delete"
  /\ record' = [record EXCEPT ![session[h]] = None]
  /\ expires' = expires \ {session[h]}
  /\ Dispatch(h)
  /\ UNCHANGED <<phase, rsa, session, got, kind, proof, key, drawn, historyVars, boundVars>>

(* A failed DEL is logged and the request goes on.                         *)
DeleteFails(h) ==
  /\ pc[h] = "delete" /\ Fails
  /\ Dispatch(h)
  /\ UNCHANGED <<phase, storeVars, session, got, kind, proof, key, drawn, historyVars>>

TypeRefused(h) ==
  /\ pc[h] = "refuse"
  /\ AnswerOnly(h) /\ UNCHANGED boundVars

(* The client gets its key.                                                *)
Issue(h, k) ==
  /\ Answer(h)
  /\ served' = served \cup {session[h]}
  /\ reissued' = IF h \in late THEN reissued \cup {session[h]} ELSE reissued
  /\ handedOut' = handedOut \cup ({k} \ {None})
  /\ UNCHANGED late

(* DeriveECDSA may fail on what HKDF returns for the request: the session  *)
(* is gone by then.                                                        *)
DeriveFails(h) ==
  /\ pc[h] = "derive"
  /\ {c \in Curves : \E okm \in Okm : ~DerivesECDSA(okm, c)} # {}
  /\ AnswerOnly(h) /\ UNCHANGED boundVars

DeriveKey(h) ==
  /\ pc[h] = "derive"
  /\ Issue(h, None)
  /\ UNCHANGED <<phase, storeVars, drawn, boundVars>>
-----------------------------------------------------------------------------
(* CreateRSA: read the key; if there is none, generate one and write it.   *)
ReadRSA(h) ==
  /\ pc[h] = "read" /\ rsa # None
  /\ Issue(h, rsa)
  /\ UNCHANGED <<phase, storeVars, drawn, boundVars>>

GenerateRSA(h) ==
  /\ pc[h] = "read" /\ rsa = None
  /\ \E k \in RsaKeys \ drawn :
       key' = [key EXCEPT ![h] = k] /\ drawn' = drawn \cup {k}
  /\ pc' = [pc EXCEPT ![h] = "write"]
  /\ UNCHANGED <<phase, storeVars, session, got, kind, proof, historyVars, boundVars>>

(* Mutant: the key is handed out and not written.                          *)
WriteNoRSA(h) ==
  /\ pc[h] = "write"
  /\ Issue(h, key[h])
  /\ UNCHANGED <<phase, storeVars, drawn, boundVars>>

WriteRSA(h) ==
  /\ pc[h] = "write"
  /\ rsa' = key[h]
  /\ Issue(h, key[h])
  /\ UNCHANGED <<phase, record, expires, drawn, boundVars>>

(* The error of the write is ignored.                                      *)
WriteRSAFails(h) ==
  /\ pc[h] = "write" /\ Fails
  /\ Issue(h, key[h])
  /\ UNCHANGED <<phase, storeVars, drawn>>

(* A read that fails is an error to the client.                            *)
GetFails(h) == pc[h] = "get" /\ Fails /\ AnswerOnly(h)
ReadRSAFails(h) == pc[h] = "read" /\ Fails /\ AnswerOnly(h)
-----------------------------------------------------------------------------
(* The process that serves a request ends.                                 *)
ProcessEnds ==
  /\ failures + crashes < MaxFaults
  /\ crashes' = crashes + 1 /\ UNCHANGED failures

CutOff(h) == pc[h] # "idle" /\ ProcessEnds /\ AnswerOnly(h)

InitCutOff(s) ==
  /\ phase[s] = "expire" /\ ProcessEnds
  /\ phase' = [phase EXCEPT ![s] = "refused"]
  /\ UNCHANGED <<storeVars, requestVars, drawn, historyVars>>

InitStep(s) ==
  \/ (\E r \in Request : KeyRequestInit(s, r)) \/ TdxSealRequestInit(s)
  \/ ExpireSession(s) \/ InitFails(s) \/ Lapse(s) \/ InitCutOff(s)

(* How a finalize request ends, as the journal tells.                      *)
KeyRequestSucceeds(h) ==
  DeriveKey(h) \/ ReadRSA(h) \/ WriteRSA(h) \/ WriteRSAFails(h)

KeyRequestFails(h) ==
  TypeRefused(h) \/ DeriveFails(h) \/ ReadRSAFails(h)

(* Every other step of a request, refusals that leave no entry included.   *)
RequestStep(h) ==
  \/ \E s \in Sessions, k \in {"key", "seal"} : Finalize(h, s, k)
  \/ GetSession(h) \/ SessionMissing(h) \/ GetFails(h)
  \/ RequestRefused(h) \/ QuoteVerified(h)
  \/ DeleteSession(h) \/ DeleteFails(h) \/ GenerateRSA(h) \/ CutOff(h)

(* Without a journal (the default build) the steps are these.              *)
Next ==
  \/ \E s \in Sessions : InitStep(s)
  \/ \E h \in Handlers : \/ RequestStep(h) \/ SealPayload(h)
                        \/ KeyRequestSucceeds(h) \/ KeyRequestFails(h)

Spec == Init /\ [][Next]_vars
-----------------------------------------------------------------------------
Pc == {"idle", "get", "verify", "delete", "derive", "read", "write", "refuse"}

ServerTypeOK ==
  /\ phase \in [Sessions -> {"new", "expire", "told", "refused"}]
  /\ record \in [Sessions -> Request \cup {None}] /\ expires \subseteq Sessions
  /\ pc \in [Handlers -> Pc] /\ session \in [Handlers -> Sessions \cup {None}]
  /\ got \in [Handlers -> Request \cup {None}] /\ kind \in [Handlers -> {"key", "seal"}]
  /\ DOMAIN proof = Handlers /\ key \in [Handlers -> RsaKeys \cup {None}]
  /\ rsa \in RsaKeys \cup {None} /\ drawn \subseteq RsaKeys
  /\ failures \in Nat /\ crashes \in Nat /\ failures + crashes <= MaxFaults

(* A session that a client knows of expires, though WriteWithTTL writes    *)
(* the record and its TTL in two commands either of which may fail.        *)
KnownSessionsExpire ==
  \A s \in Sessions : phase[s] = "told" /\ record[s] # None => s \in expires

(* Once a key was issued for a session, no finalize request that comes     *)
(* later, on any node, gets a key for it; one that had read the record     *)
(* before may.  Each exception is a DEL that failed and was only logged.   *)
NoReissue == Cardinality(reissued) <= failures

(* Clients hold RSA keys that CreateRSA lost only from requests that ran   *)
(* at the same time for a new id, of which the last write wins, or from a  *)
(* write that failed: after that all requests get the stored key.          *)
RsaLossBounded == Cardinality(handedOut \ {rsa}) < Cardinality(Handlers) + failures

(* What was sealed for a VM's measurements and an id opens with the        *)
(* symmetric VM_BOOT key that a VM gets for that id after it attested      *)
(* these measurements, and with no other key that it can get: not with     *)
(* the key of another id or context, of another firmware, or of the other  *)
(* mode.  TDXSeal and the key endpoint derive it along different paths.    *)
SealedPayloadOpens ==
  \A h \in Handlers : pc[h] = "derive" =>
    \A id, sealedId \in Ids, context \in Contexts, mode \in BOOLEAN,
       vm \in {m \in Machines : HasCfv(m.log)} :
      DeriveHKDF(DevMode, id, proof[h].seed, context)
        = SealKey(mode, sealedId, vm.mrtd, Cfv(vm.log))
      <=> /\ mode = DevMode /\ id = sealedId /\ context = ContextVMBoot
          /\ <<vm.mrtd, Cfv(vm.log)>> = proof[h].measured
-----------------------------------------------------------------------------
(* What a finalize request knows of its session, at each of its steps.     *)
Requests ==
  /\ \A h \in Handlers :
       /\ pc[h] # "idle" => session[h] \in Sessions /\ phase[session[h]] = "told"
       /\ pc[h] \notin {"idle", "get"} => got[h] \in Request
       /\ pc[h] \notin {"idle", "get", "verify"} => kind[h] = "key"
       /\ key[h] \in IF pc[h] = "write" THEN RsaKeys ELSE {None}
       /\ h \in late /\ pc[h] # "idle" => session[h] \in served
  /\ served \subseteq {s \in Sessions : phase[s] = "told"}

(* Sessions of which a key was issued, or will be unless the request ends. *)
Spent == served \cup {session[h] : h \in {g \in Handlers : pc[g] \in {"derive", "read",
                                                                     "write", "refuse"}}}

(* Sessions that a DEL should have removed: the record of a spent one is   *)
(* still there, or a request that came too late has read it.               *)
Exposed ==
  {s \in Spent : record[s] # None} \cup reissued
    \cup {session[h] : h \in {g \in Handlers \cap late : pc[g] \notin {"idle", "get"}}}

Writers == {h \in Handlers : pc[h] = "write"}

(* Until a key is stored, clients have keys from failed writes only; after *)
(* that, each request that is about to write loses at most one.            *)
RsaKept ==
  /\ IsFiniteSet(handedOut)
  /\ IF rsa = None
     THEN Cardinality(handedOut) <= failures
     ELSE Cardinality(handedOut \ {rsa}) + Cardinality(Writers)
            < Cardinality(Handlers) + failures

(* What every step preserves: the sessions that KnownSessionsExpire and    *)
(* NoReissue are about, and the requests in flight that RsaLossBounded     *)
(* has to count, across every interleaving of init and finalize requests.  *)
ServerInv ==
  /\ ServerTypeOK /\ Requests /\ KnownSessionsExpire
  /\ IsFiniteSet(Exposed) /\ Cardinality(Exposed) <= failures
  /\ RsaKept

(* From verification on, a request has the seed of what was measured in a  *)
(* VM with a firmware blob.                                                *)
Attested ==
  \A h \in Handlers : pc[h] \notin {"idle", "get", "verify"} =>
    \E vm \in {m \in Machines : HasCfv(m.log)} :
      proof[h] = [measured |-> <<vm.mrtd, Cfv(vm.log)>>,
                  seed |-> DeriveSeedFromMeasurements(vm.mrtd, Cfv(vm.log))]
=============================================================================
