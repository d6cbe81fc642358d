---------------------------- MODULE KeyServerProofs ----------------------------
(***************************************************************************)
(* The key server, for any number of sessions, concurrent requests,        *)
(* failing commands and processes that end.                                *)
(***************************************************************************)
EXTENDS KeyServer, FiniteSetTheorems, TLAPS

(* A set that only loses elements, and one that gains at most one.         *)
LEMMA SmallerSet ==
  ASSUME NEW S, NEW T, IsFiniteSet(S), T \subseteq S
  PROVE  /\ IsFiniteSet(T) /\ Cardinality(T) \in Nat /\ Cardinality(S) \in Nat
         /\ Cardinality(T) <= Cardinality(S)
<1>1. IsFiniteSet(T) /\ Cardinality(T) <= Cardinality(S)
  BY FS_Subset
<1>. QED  BY <1>1, FS_CardinalityType

LEMMA OneMore ==
  ASSUME NEW S, NEW T, NEW x, IsFiniteSet(S), T \subseteq S \cup {x}
  PROVE  /\ IsFiniteSet(T) /\ Cardinality(T) \in Nat /\ Cardinality(S) \in Nat
         /\ Cardinality(T) <= Cardinality(S) + 1
<1>1. Cardinality(S) \in Nat
  BY FS_CardinalityType
<1>2. IsFiniteSet(S \cup {x}) /\ Cardinality(S \cup {x}) <= Cardinality(S) + 1
  BY <1>1, FS_AddElement
<1>3. IsFiniteSet(T) /\ Cardinality(T) \in Nat /\ Cardinality(S \cup {x}) \in Nat
      /\ Cardinality(T) <= Cardinality(S \cup {x})
  BY <1>2, SmallerSet
<1>. QED  BY <1>1, <1>2, <1>3

LEMMA WritersFinite ==
  /\ IsFiniteSet(Writers) /\ Cardinality(Writers) \in Nat
  /\ Cardinality(Handlers) \in Nat \ {0} /\ Cardinality(Writers) <= Cardinality(Handlers)
<1>1. Writers \subseteq Handlers
  BY DEF Writers
<1>2. IsFiniteSet(Writers) /\ Cardinality(Writers) <= Cardinality(Handlers)
  BY <1>1, FS_Subset, ServerAssumption
<1>3. Cardinality(Writers) \in Nat /\ Cardinality(Handlers) \in Nat
  BY <1>2, FS_CardinalityType, ServerAssumption
<1>4. Cardinality(Handlers) # 0
  BY FS_EmptySet, ServerAssumption
<1>. QED  BY <1>2, <1>3, <1>4
-----------------------------------------------------------------------------
LEMMA InitServer == Init => ServerInv
<1>. SUFFICES ASSUME Init PROVE ServerInv
  OBVIOUS
<1>1. ServerTypeOK /\ Requests /\ KnownSessionsExpire
  BY ServerAssumption DEF Init, ServerTypeOK, Pc, Requests, KnownSessionsExpire
<1>2. Exposed = {} /\ handedOut = {} /\ failures = 0 /\ rsa = None
  BY DEF Init, Exposed, Spent
<1>. QED  BY <1>1, <1>2, FS_EmptySet DEF ServerInv, RsaKept
-----------------------------------------------------------------------------
(* Steps that leave alone what RsaKept counts.                             *)
LEMMA RsaUntouched ==
  ASSUME ServerInv, UNCHANGED <<rsa, handedOut>>, Writers' \subseteq Writers,
         failures' \in Nat, failures <= failures'
  PROVE  RsaKept'
<1>1. IsFiniteSet(Writers) /\ Cardinality(Writers) \in Nat /\ Cardinality(Handlers) \in Nat
  BY WritersFinite
<1>2. Cardinality(Writers') \in Nat /\ Cardinality(Writers') <= Cardinality(Writers)
  BY <1>1, SmallerSet
<1>3. failures \in Nat /\ IsFiniteSet(handedOut)
  BY DEF ServerInv, ServerTypeOK, RsaKept
<1>4. IsFiniteSet(handedOut \ {rsa}) /\ Cardinality(handedOut) \in Nat
  BY <1>3, FS_RemoveElement, FS_CardinalityType
<1>5. Cardinality(handedOut \ {rsa}) \in Nat
  BY <1>4, FS_CardinalityType
<1>6. CASE rsa = None
  BY <1>3, <1>4, <1>6 DEF ServerInv, RsaKept
<1>7. CASE rsa # None
  BY <1>1, <1>2, <1>3, <1>5, <1>7 DEF ServerInv, RsaKept
<1>. QED  BY <1>6, <1>7

LEMMA ExposedShrinks ==
  ASSUME ServerInv, Exposed' \subseteq Exposed, failures' \in Nat, failures <= failures'
  PROVE  IsFiniteSet(Exposed') /\ Cardinality(Exposed') <= failures'
<1>1. IsFiniteSet(Exposed) /\ Cardinality(Exposed) <= failures /\ failures \in Nat
  BY DEF ServerInv, ServerTypeOK
<1>2. /\ IsFiniteSet(Exposed') /\ Cardinality(Exposed') \in Nat /\ Cardinality(Exposed) \in Nat
      /\ Cardinality(Exposed') <= Cardinality(Exposed)
  BY <1>1, SmallerSet
<1>. QED  BY <1>1, <1>2

LEMMA InitSteps ==
  ASSUME ServerInv, NEW s \in Sessions, InitStep(s)
  PROVE  ServerInv'
<1>1. /\ ServerTypeOK /\ Requests /\ KnownSessionsExpire
      /\ UNCHANGED <<requestVars, rsa, drawn, historyVars>>
  BY DEF ServerInv, InitStep, KeyRequestInit, TdxSealRequestInit, WriteSession, ExpireSession,
         InitFails, Lapse, InitCutOff, storeVars, historyVars
<1>2. /\ failures' \in Nat /\ crashes' \in Nat /\ failures' + crashes' <= MaxFaults
      /\ failures <= failures'
  BY <1>1, ServerAssumption
     DEF ServerTypeOK, InitStep, KeyRequestInit, TdxSealRequestInit, WriteSession, ExpireSession,
         InitFails, Lapse, InitCutOff, Fails, ProcessEnds, boundVars
<1>3. ASSUME NEW r \in Request, WriteSession(s, r)
      PROVE  /\ phase[s] = "new" /\ phase' = [phase EXCEPT ![s] = "expire"]
             /\ record' = [record EXCEPT ![s] = r] /\ expires' = expires
  BY <1>3 DEF WriteSession
<1>4. \/ /\ phase[s] = "new" /\ expires' = expires
         /\ \/ \E r \in Request : record' = [record EXCEPT ![s] = r]
            \/ record' = record
         /\ \E p \in {"expire", "refused"} : phase' = [phase EXCEPT ![s] = p]
      \/ /\ phase[s] = "expire" /\ record' = record
         /\ \/ expires' = expires \cup {s} /\ phase' = [phase EXCEPT ![s] = "told"]
            \/ expires' \in {expires, expires \cup {s}} /\ phase' = [phase EXCEPT ![s] = "refused"]
      \/ /\ phase' = phase /\ record' = [record EXCEPT ![s] = None] /\ expires' = expires \ {s}
  <2>1. CASE \E r \in Request : KeyRequestInit(s, r)
    BY <2>1, <1>3 DEF KeyRequestInit
  <2>2. CASE TdxSealRequestInit(s)
    BY <2>2, <1>3 DEF TdxSealRequestInit, Request
  <2>3. CASE ExpireSession(s) \/ Lapse(s) \/ InitCutOff(s)
    BY <2>3 DEF ExpireSession, Lapse, InitCutOff, storeVars
  <2>4. CASE InitFails(s)
    BY <2>4 DEF InitFails
  <2>. QED  BY <2>1, <2>2, <2>3, <2>4 DEF InitStep
<1>5. ServerTypeOK'
  BY <1>1, <1>2, <1>4 DEF ServerTypeOK, Request, requestVars
<1>6. \A t \in Sessions : phase[t] = "told" => phase'[t] = "told"
  BY <1>1, <1>4 DEF ServerTypeOK
<1>7. Requests'
  BY <1>1, <1>6 DEF Requests, ServerTypeOK, requestVars, historyVars
<1>8. KnownSessionsExpire'
  BY <1>1, <1>4 DEF KnownSessionsExpire, ServerTypeOK
<1>9. Exposed' \subseteq Exposed
  <2>1. Spent' = Spent /\ \A t \in Spent : t \in Sessions /\ phase[t] = "told"
    BY <1>1 DEF Spent, Requests, requestVars, historyVars
  <2>2. \A t \in Spent : record'[t] # None => record[t] # None
    BY <1>1, <1>4, <2>1 DEF ServerTypeOK
  <2>. QED  BY <1>1, <2>1, <2>2 DEF Exposed, requestVars, historyVars
<1>10. RsaKept'
  BY <1>1, <1>2, RsaUntouched DEF Writers, requestVars, historyVars
<1>. QED  BY <1>2, <1>5, <1>7, <1>8, <1>9, <1>10, ExposedShrinks DEF ServerInv
-----------------------------------------------------------------------------
(* The bounds on failures and crashes, and what a fault does to them.      *)
BoundsKept ==
  /\ failures' \in Nat /\ crashes' \in Nat /\ failures' + crashes' <= MaxFaults
  /\ failures <= failures'

LEMMA Faults ==
  ASSUME ServerInv, UNCHANGED boundVars \/ Fails \/ ProcessEnds
  PROVE  BoundsKept
BY ServerAssumption DEF ServerInv, ServerTypeOK, BoundsKept, boundVars, Fails, ProcessEnds

(* A request that is over, with an error or a sealed payload.              *)
LEMMA AnswerStep ==
  ASSUME ServerInv, NEW h \in Handlers, AnswerOnly(h), BoundsKept
  PROVE  ServerInv'
<1>1. ServerTypeOK /\ Requests /\ KnownSessionsExpire
  BY DEF ServerInv
<1>2. /\ pc' = [pc EXCEPT ![h] = "idle"] /\ session' = [session EXCEPT ![h] = None]
      /\ got' = [got EXCEPT ![h] = None] /\ key' = [key EXCEPT ![h] = None]
      /\ proof' = [proof EXCEPT ![h] = None]
      /\ UNCHANGED <<phase, record, expires, rsa, drawn, kind, historyVars>>
  BY DEF AnswerOnly, Answer
<1>3. ServerTypeOK'
  BY <1>1, <1>2 DEF ServerTypeOK, Pc, BoundsKept
<1>4. Requests' /\ KnownSessionsExpire'
  BY <1>1, <1>2 DEF ServerTypeOK, Requests, KnownSessionsExpire, historyVars
<1>5. \A g \in Handlers : pc'[g] # "idle" => pc'[g] = pc[g] /\ session'[g] = session[g]
  BY <1>1, <1>2 DEF ServerTypeOK
<1>6. Writers' \subseteq Writers
  BY <1>5 DEF Writers
<1>7. Exposed' \subseteq Exposed
  <2>1. Spent' \subseteq Spent
    BY <1>2, <1>5 DEF Spent, historyVars
  <2>. QED  BY <1>2, <1>5, <2>1 DEF Exposed, historyVars
<1>. QED  BY <1>2, <1>3, <1>4, <1>6, <1>7, RsaUntouched, ExposedShrinks
          DEF ServerInv, BoundsKept, historyVars

(* A request that gets its key: rsa and handedOut are left to the caller.  *)
LEMMA IssueStep ==
  ASSUME ServerInv, NEW h \in Handlers, NEW k, Issue(h, k), BoundsKept,
         pc[h] \in {"derive", "read", "write"},
         UNCHANGED <<phase, record, expires, drawn>>,
         rsa' \in RsaKeys \cup {None}, RsaKept'
  PROVE  ServerInv'
<1>1. ServerTypeOK /\ Requests /\ KnownSessionsExpire
  BY DEF ServerInv
<1>2. /\ pc' = [pc EXCEPT ![h] = "idle"] /\ session' = [session EXCEPT ![h] = None]
      /\ got' = [got EXCEPT ![h] = None] /\ key' = [key EXCEPT ![h] = None]
      /\ proof' = [proof EXCEPT ![h] = None] /\ UNCHANGED <<kind, late>>
      /\ served' = served \cup {session[h]}
      /\ reissued' = IF h \in late THEN reissued \cup {session[h]} ELSE reissued
  BY DEF Issue, Answer
<1>3. ServerTypeOK'
  BY <1>1, <1>2 DEF ServerTypeOK, Pc, BoundsKept
<1>4. Requests' /\ KnownSessionsExpire'
  BY <1>1, <1>2 DEF ServerTypeOK, Requests, KnownSessionsExpire
<1>5. \A g \in Handlers : pc'[g] # "idle" => pc'[g] = pc[g] /\ session'[g] = session[g]
  BY <1>1, <1>2 DEF ServerTypeOK
<1>6. Exposed' \subseteq Exposed
  <2>1. Spent' \subseteq Spent
    BY <1>2, <1>5 DEF Spent
  <2>2. reissued' \subseteq Exposed
    BY <1>2 DEF Exposed
  <2>. QED  BY <1>2, <1>5, <2>1, <2>2 DEF Exposed
<1>. QED  BY <1>3, <1>4, <1>6, ExposedShrinks DEF ServerInv, BoundsKept
-----------------------------------------------------------------------------
(* A key that is written replaces the stored one, or is the first.         *)
LEMMA RsaWritten ==
  ASSUME ServerInv, NEW h \in Handlers, pc[h] = "write", pc' = [pc EXCEPT ![h] = "idle"],
         rsa' = key[h], handedOut' = handedOut \cup {key[h]}, failures' = failures
  PROVE  RsaKept'
<1>1. /\ IsFiniteSet(Writers) /\ Cardinality(Writers) \in Nat
      /\ Cardinality(Handlers) \in Nat \ {0} /\ Cardinality(Writers) <= Cardinality(Handlers)
  BY WritersFinite
<1>2. failures \in Nat /\ IsFiniteSet(handedOut) /\ rsa' # None
  BY ServerAssumption DEF ServerInv, ServerTypeOK, RsaKept, Requests
<1>3. h \in Writers /\ Writers' = Writers \ {h}
  BY DEF Writers, ServerInv, ServerTypeOK
<1>4. Cardinality(Writers') = Cardinality(Writers) - 1
  BY <1>1, <1>3, FS_RemoveElement
<1>5. IsFiniteSet(handedOut') /\ IsFiniteSet(handedOut \ {rsa})
  BY <1>2, FS_AddElement, FS_RemoveElement
<1>6. CASE rsa = None
  <2>1. handedOut' \ {rsa'} \subseteq handedOut /\ Cardinality(handedOut) <= failures
    BY <1>6 DEF ServerInv, RsaKept
  <2>2. /\ Cardinality(handedOut' \ {rsa'}) \in Nat /\ Cardinality(handedOut) \in Nat
        /\ Cardinality(handedOut' \ {rsa'}) <= Cardinality(handedOut)
    BY <1>2, <2>1, SmallerSet
  <2>. QED  BY <1>1, <1>2, <1>4, <1>5, <2>1, <2>2 DEF RsaKept
<1>7. CASE rsa # None
  <2>1. Cardinality(handedOut \ {rsa}) + Cardinality(Writers) < Cardinality(Handlers) + failures
    BY <1>7 DEF ServerInv, RsaKept
  <2>2. handedOut' \ {rsa'} \subseteq (handedOut \ {rsa}) \cup {rsa}
    OBVIOUS
  <2>3. Cardinality(handedOut \ {rsa}) \in Nat
    BY <1>5, FS_CardinalityType
  <2>4. /\ Cardinality(handedOut' \ {rsa'}) \in Nat
        /\ Cardinality(handedOut' \ {rsa'}) <= Cardinality(handedOut \ {rsa}) + 1
    BY <1>5, <2>2, <2>3, OneMore
  <2>. QED  BY <1>1, <1>2, <1>4, <1>5, <2>1, <2>3, <2>4 DEF RsaKept
<1>. QED  BY <1>6, <1>7

(* A key that could not be written is one more failure.                    *)
LEMMA RsaUnwritten ==
  ASSUME ServerInv, NEW h \in Handlers, pc' = [pc EXCEPT ![h] = "idle"],
         rsa' = rsa, handedOut' = handedOut \cup {key[h]}, failures' = failures + 1
  PROVE  RsaKept'
<1>1. /\ IsFiniteSet(Writers) /\ Cardinality(Writers) \in Nat /\ Cardinality(Handlers) \in Nat
      /\ failures \in Nat /\ IsFiniteSet(handedOut)
  BY WritersFinite DEF ServerInv, ServerTypeOK, RsaKept
<1>2. Writers' \subseteq Writers
  BY DEF Writers, ServerInv, ServerTypeOK
<1>3. Cardinality(Writers') \in Nat /\ Cardinality(Writers') <= Cardinality(Writers)
  BY <1>1, <1>2, SmallerSet
<1>4. IsFiniteSet(handedOut') /\ IsFiniteSet(handedOut \ {rsa})
  BY <1>1, FS_AddElement, FS_RemoveElement
<1>5. CASE rsa = None
  <2>1. Cardinality(handedOut) <= failures
    BY <1>5 DEF ServerInv, RsaKept
  <2>2. /\ Cardinality(handedOut') \in Nat /\ Cardinality(handedOut) \in Nat
        /\ Cardinality(handedOut') <= Cardinality(handedOut) + 1
    BY <1>1, OneMore
  <2>. QED  BY <1>1, <1>4, <1>5, <2>1, <2>2 DEF RsaKept
<1>6. CASE rsa # None
  <2>1. Cardinality(handedOut \ {rsa}) + Cardinality(Writers) < Cardinality(Handlers) + failures
    BY <1>6 DEF ServerInv, RsaKept
  <2>2. Cardinality(handedOut \ {rsa}) \in Nat
    BY <1>4, FS_CardinalityType
  <2>3. handedOut' \ {rsa'} \subseteq (handedOut \ {rsa}) \cup {key[h]}
    OBVIOUS
  <2>4. /\ Cardinality(handedOut' \ {rsa'}) \in Nat
        /\ Cardinality(handedOut' \ {rsa'}) <= Cardinality(handedOut \ {rsa}) + 1
    BY <1>4, <2>2, <2>3, OneMore
  <2>. QED  BY <1>1, <1>3, <1>4, <1>6, <2>1, <2>2, <2>4 DEF RsaKept
<1>. QED  BY <1>5, <1>6

(* How a key request succeeds.                                             *)
LEMMA SuccessSteps ==
  ASSUME ServerInv, NEW h \in Handlers, KeyRequestSucceeds(h)
  PROVE  ServerInv'
<1>1. /\ rsa \in RsaKeys \cup {None} /\ failures \in Nat /\ Writers \subseteq Handlers
      /\ pc \in [Handlers -> Pc]
  BY DEF ServerInv, ServerTypeOK, Writers
<1>2. CASE DeriveKey(h)
  <2>1. UNCHANGED <<rsa, handedOut, failures>> /\ BoundsKept /\ pc' = [pc EXCEPT ![h] = "idle"]
    BY <1>2, Faults DEF DeriveKey, Issue, Answer, storeVars, boundVars
  <2>2. Writers' \subseteq Writers
    BY <1>1, <2>1 DEF Writers
  <2>3. RsaKept'
    BY <1>1, <2>1, <2>2, RsaUntouched
  <2>. QED  BY <1>1, <1>2, <2>1, <2>3, IssueStep DEF DeriveKey, storeVars
<1>3. CASE ReadRSA(h)
  <2>1. /\ UNCHANGED <<rsa, failures>> /\ BoundsKept /\ pc' = [pc EXCEPT ![h] = "idle"]
        /\ handedOut' = handedOut \cup {rsa} /\ rsa # None
    BY <1>3, Faults DEF ReadRSA, Issue, Answer, storeVars, boundVars
  <2>2. Writers' \subseteq Writers /\ handedOut' \ {rsa'} = handedOut \ {rsa}
    BY <1>1, <2>1 DEF Writers
  <2>3. Cardinality(Writers') \in Nat /\ Cardinality(Writers') <= Cardinality(Writers)
    BY <2>2, WritersFinite, SmallerSet
  <2>4. IsFiniteSet(handedOut') /\ Cardinality(handedOut \ {rsa}) \in Nat
    <3>1. IsFiniteSet(handedOut)
      BY DEF ServerInv, RsaKept
    <3>2. IsFiniteSet(handedOut \ {rsa}) /\ IsFiniteSet(handedOut \cup {rsa})
      BY <3>1, FS_AddElement, FS_RemoveElement
    <3>. QED  BY <2>1, <3>2, FS_CardinalityType
  <2>5. Cardinality(handedOut \ {rsa}) + Cardinality(Writers) < Cardinality(Handlers) + failures
    BY <2>1 DEF ServerInv, RsaKept
  <2>6. RsaKept'
    BY <1>1, <2>1, <2>2, <2>3, <2>4, <2>5, WritersFinite DEF RsaKept
  <2>. QED  BY <1>1, <1>3, <2>1, <2>6, IssueStep DEF ReadRSA, storeVars
<1>4. CASE WriteRSA(h)
  <2>1. key[h] \in RsaKeys \ {None}
    BY <1>4, ServerAssumption DEF WriteRSA, ServerInv, Requests
  <2>2. /\ pc[h] = "write" /\ pc' = [pc EXCEPT ![h] = "idle"] /\ failures' = failures
        /\ rsa' = key[h] /\ handedOut' = handedOut \cup {key[h]} /\ BoundsKept
    BY <1>4, <2>1, Faults DEF WriteRSA, Issue, Answer, boundVars
  <2>3. RsaKept'
    BY <2>2, RsaWritten
  <2>. QED  BY <1>4, <2>1, <2>2, <2>3, IssueStep DEF WriteRSA
<1>5. CASE WriteRSAFails(h)
  <2>1. key[h] \in RsaKeys \ {None}
    BY <1>5, ServerAssumption DEF WriteRSAFails, ServerInv, Requests
  <2>2. /\ pc[h] = "write" /\ pc' = [pc EXCEPT ![h] = "idle"] /\ failures' = failures + 1
        /\ rsa' = rsa /\ handedOut' = handedOut \cup {key[h]} /\ BoundsKept
    BY <1>5, <2>1, Faults DEF WriteRSAFails, Issue, Answer, Fails, storeVars
  <2>3. RsaKept'
    BY <2>2, RsaUnwritten
  <2>. QED  BY <1>1, <1>5, <2>2, <2>3, IssueStep DEF WriteRSAFails, storeVars
<1>. QED  BY <1>2, <1>3, <1>4, <1>5 DEF KeyRequestSucceeds

(* How it fails, and how other requests end.                               *)
LEMMA EndSteps ==
  ASSUME ServerInv, NEW h \in Handlers,
         \/ KeyRequestFails(h) \/ SealPayload(h) \/ SessionMissing(h) \/ GetFails(h)
         \/ RequestRefused(h) \/ CutOff(h)
  PROVE  ServerInv'
<1>1. AnswerOnly(h) /\ (UNCHANGED boundVars \/ Fails \/ ProcessEnds)
  BY DEF KeyRequestFails, TypeRefused, DeriveFails, ReadRSAFails, SealPayload, SessionMissing,
         GetFails, RequestRefused, CutOff
<1>. QED  BY <1>1, Faults, AnswerStep

LEMMA FinalizeStep ==
  ASSUME ServerInv, NEW h \in Handlers, NEW s \in Sessions, NEW k \in {"key", "seal"},
         Finalize(h, s, k)
  PROVE  ServerInv'
<1>1. ServerTypeOK /\ Requests /\ KnownSessionsExpire
  BY DEF ServerInv
<1>2. /\ pc[h] = "idle" /\ phase[s] = "told"
      /\ pc' = [pc EXCEPT ![h] = "get"] /\ session' = [session EXCEPT ![h] = s]
      /\ kind' = [kind EXCEPT ![h] = k]
      /\ late' = IF s \in served THEN late \cup {h} ELSE late \ {h}
      /\ UNCHANGED <<phase, record, expires, rsa, got, proof, key, drawn, served, reissued,
                     handedOut, failures, crashes>>
  BY DEF Finalize, storeVars, boundVars
<1>3. BoundsKept
  BY <1>2, Faults DEF boundVars
<1>4. ServerTypeOK'
  BY <1>1, <1>2, <1>3 DEF ServerTypeOK, Pc, BoundsKept
<1>5. Requests' /\ KnownSessionsExpire'
  BY <1>1, <1>2 DEF ServerTypeOK, Requests, KnownSessionsExpire
<1>6. \A g \in Handlers : pc'[g] \notin {"idle", "get"}
        => g # h /\ pc'[g] = pc[g] /\ session'[g] = session[g] /\ (g \in late' <=> g \in late)
  BY <1>1, <1>2 DEF ServerTypeOK
<1>7. Writers' \subseteq Writers
  BY <1>6 DEF Writers
<1>8. Exposed' \subseteq Exposed
  <2>1. Spent' \subseteq Spent
    BY <1>2, <1>6 DEF Spent
  <2>. QED  BY <1>2, <1>6, <2>1 DEF Exposed
<1>. QED  BY <1>2, <1>3, <1>4, <1>5, <1>7, <1>8, RsaUntouched, ExposedShrinks
          DEF ServerInv, BoundsKept

LEMMA GetStep ==
  ASSUME ServerInv, NEW h \in Handlers, GetSession(h)
  PROVE  ServerInv'
<1>1. ServerTypeOK /\ Requests /\ KnownSessionsExpire
  BY DEF ServerInv
<1>2. /\ pc[h] = "get" /\ record[session[h]] # None
      /\ got' = [got EXCEPT ![h] = record[session[h]]] /\ pc' = [pc EXCEPT ![h] = "verify"]
      /\ UNCHANGED <<phase, record, expires, rsa, session, kind, proof, key, drawn, served, late,
                     reissued, handedOut, failures, crashes>>
  BY DEF GetSession, storeVars, boundVars, historyVars
<1>3. BoundsKept
  BY <1>2, Faults DEF boundVars
<1>4. ServerTypeOK'
  BY <1>1, <1>2, <1>3 DEF ServerTypeOK, Pc, BoundsKept, Requests
<1>5. Requests' /\ KnownSessionsExpire'
  BY <1>1, <1>2 DEF ServerTypeOK, Requests, KnownSessionsExpire
<1>6. \A g \in Handlers : g # h => pc'[g] = pc[g]
  BY <1>1, <1>2 DEF ServerTypeOK
<1>7. pc'[h] = "verify"
  BY <1>1, <1>2 DEF ServerTypeOK
<1>8. Writers' \subseteq Writers
  BY <1>6, <1>7 DEF Writers
<1>9. Exposed' \subseteq Exposed
  <2>1. Spent' \subseteq Spent
    BY <1>2, <1>6, <1>7 DEF Spent
  <2>2. h \in late => session[h] \in Spent /\ session[h] \in Exposed
    BY <1>1, <1>2 DEF Requests, Spent, Exposed
  <2>. QED  BY <1>2, <1>6, <2>1, <2>2 DEF Exposed
<1>. QED  BY <1>2, <1>3, <1>4, <1>5, <1>8, <1>9, RsaUntouched, ExposedShrinks
          DEF ServerInv, BoundsKept

LEMMA VerifiedStep ==
  ASSUME ServerInv, NEW h \in Handlers, QuoteVerified(h)
  PROVE  ServerInv'
<1>1. ServerTypeOK /\ Requests /\ KnownSessionsExpire
  BY DEF ServerInv
<1>2. /\ pc[h] = "verify" /\ kind[h] = "key" /\ pc' = [pc EXCEPT ![h] = "delete"]
      /\ \E p : proof' = [proof EXCEPT ![h] = p]
      /\ UNCHANGED <<phase, record, expires, rsa, session, got, kind, key, drawn, served, late,
                     reissued, handedOut, failures, crashes>>
  BY DEF QuoteVerified, storeVars, boundVars, historyVars
<1>3. BoundsKept
  BY <1>2, Faults DEF boundVars
<1>4. ServerTypeOK'
  BY <1>1, <1>2, <1>3 DEF ServerTypeOK, Pc, BoundsKept
<1>5. Requests' /\ KnownSessionsExpire'
  BY <1>1, <1>2 DEF ServerTypeOK, Requests, KnownSessionsExpire
<1>6. /\ pc'[h] = "delete"
      /\ \A g \in Handlers : g # h => pc'[g] = pc[g]
  BY <1>1, <1>2 DEF ServerTypeOK
<1>7. Writers' \subseteq Writers
  BY <1>6 DEF Writers
<1>8. Exposed' \subseteq Exposed
  <2>1. Spent' \subseteq Spent
    BY <1>2, <1>6 DEF Spent
  <2>. QED  BY <1>2, <1>6, <2>1 DEF Exposed
<1>. QED  BY <1>2, <1>3, <1>4, <1>5, <1>7, <1>8, RsaUntouched, ExposedShrinks
          DEF ServerInv, BoundsKept

LEMMA GenerateStep ==
  ASSUME ServerInv, NEW h \in Handlers, GenerateRSA(h)
  PROVE  ServerInv'
<1>1. ServerTypeOK /\ Requests /\ KnownSessionsExpire
  BY DEF ServerInv
<1>2. /\ pc[h] = "read" /\ rsa = None /\ pc' = [pc EXCEPT ![h] = "write"]
      /\ \E k \in RsaKeys : key' = [key EXCEPT ![h] = k] /\ drawn' = drawn \cup {k}
      /\ UNCHANGED <<phase, record, expires, rsa, session, got, kind, proof, served, late,
                     reissued, handedOut, failures, crashes>>
  BY DEF GenerateRSA, storeVars, boundVars, historyVars
<1>3. BoundsKept
  BY <1>2, Faults DEF boundVars
<1>4. ServerTypeOK'
  BY <1>1, <1>2, <1>3 DEF ServerTypeOK, Pc, BoundsKept
<1>5. Requests' /\ KnownSessionsExpire'
  BY <1>1, <1>2 DEF ServerTypeOK, Requests, KnownSessionsExpire
<1>6. /\ pc'[h] = "write"
      /\ \A g \in Handlers : g # h => pc'[g] = pc[g]
  BY <1>1, <1>2 DEF ServerTypeOK
<1>7. RsaKept'
  BY <1>2 DEF ServerInv, RsaKept
<1>8. Exposed' \subseteq Exposed
  <2>1. Spent' \subseteq Spent
    BY <1>2, <1>6 DEF Spent
  <2>. QED  BY <1>2, <1>6, <2>1 DEF Exposed
<1>. QED  BY <1>3, <1>4, <1>5, <1>7, <1>8, ExposedShrinks DEF ServerInv, BoundsKept

(* What the two outcomes of the DEL share.                                 *)
LEMMA DeletedStep ==
  ASSUME ServerInv, NEW h \in Handlers, pc[h] = "delete", Dispatch(h), BoundsKept,
         \/ record' = record /\ expires' = expires
         \/ /\ record' = [record EXCEPT ![session[h]] = None]
            /\ expires' = expires \ {session[h]},
         UNCHANGED <<phase, rsa, session, got, kind, proof, key, drawn, historyVars>>
  PROVE  /\ ServerTypeOK' /\ Requests' /\ KnownSessionsExpire' /\ RsaKept'
         /\ Exposed' \subseteq Exposed \cup {session[h]}
         /\ record'[session[h]] = None => Exposed' \subseteq Exposed
<1>1. ServerTypeOK /\ Requests /\ KnownSessionsExpire /\ session[h] \in Sessions
  BY DEF ServerInv, Requests
<1>2. \E q \in {"read", "derive", "refuse"} : pc' = [pc EXCEPT ![h] = q]
  BY DEF Dispatch
<1>3. /\ UNCHANGED <<served, late, reissued, handedOut>>
      /\ \A s \in Sessions : record'[s] # None => record[s] # None
  BY <1>1 DEF historyVars, ServerTypeOK
<1>4. ServerTypeOK'
  BY <1>1, <1>2 DEF ServerTypeOK, Pc, BoundsKept
<1>5. Requests'
  BY <1>1, <1>2, <1>3 DEF ServerTypeOK, Requests
<1>6. KnownSessionsExpire'
  BY <1>1 DEF ServerTypeOK, KnownSessionsExpire
<1>7. /\ pc'[h] \in {"read", "derive", "refuse"}
      /\ \A g \in Handlers : g # h => pc'[g] = pc[g]
  BY <1>1, <1>2 DEF ServerTypeOK
<1>8. Writers' \subseteq Writers
  BY <1>7 DEF Writers
<1>9. Spent' \subseteq Spent \cup {session[h]} /\ Spent \subseteq Sessions
  BY <1>1, <1>3, <1>7 DEF Spent, Requests
<1>10. Exposed' \subseteq Exposed \cup {session[h]}
  BY <1>1, <1>3, <1>7, <1>9 DEF Exposed
<1>11. record'[session[h]] = None => Exposed' \subseteq Exposed
  BY <1>1, <1>3, <1>7, <1>9 DEF Exposed
<1>. QED  BY <1>3, <1>4, <1>5, <1>6, <1>8, <1>10, <1>11, RsaUntouched DEF BoundsKept

LEMMA DeleteSteps ==
  ASSUME ServerInv, NEW h \in Handlers, DeleteSession(h) \/ DeleteFails(h)
  PROVE  ServerInv'
<1>1. CASE DeleteSession(h)
  <2>1. BoundsKept
    BY <1>1, Faults DEF DeleteSession
  <2>2. /\ pc[h] = "delete" /\ Dispatch(h)
        /\ record' = [record EXCEPT ![session[h]] = None] /\ expires' = expires \ {session[h]}
        /\ UNCHANGED <<phase, rsa, session, got, kind, proof, key, drawn, historyVars>>
    BY <1>1 DEF DeleteSession
  <2>3. record'[session[h]] = None
    BY <2>2 DEF ServerInv, ServerTypeOK, Requests
  <2>4. /\ ServerTypeOK' /\ Requests' /\ KnownSessionsExpire' /\ RsaKept'
        /\ Exposed' \subseteq Exposed
    BY <2>1, <2>2, <2>3, DeletedStep
  <2>. QED  BY <2>1, <2>4, ExposedShrinks DEF ServerInv, BoundsKept
<1>2. CASE DeleteFails(h)
  <2>1. BoundsKept /\ failures' = failures + 1
    BY <1>2, Faults DEF DeleteFails, Fails
  <2>2. /\ pc[h] = "delete" /\ Dispatch(h) /\ record' = record /\ expires' = expires
        /\ UNCHANGED <<phase, rsa, session, got, kind, proof, key, drawn, historyVars>>
    BY <1>2 DEF DeleteFails, storeVars
  <2>3. /\ ServerTypeOK' /\ Requests' /\ KnownSessionsExpire' /\ RsaKept'
        /\ Exposed' \subseteq Exposed \cup {session[h]}
    BY <2>1, <2>2, DeletedStep
  <2>4. IsFiniteSet(Exposed) /\ Cardinality(Exposed) <= failures /\ failures \in Nat
    BY DEF ServerInv, ServerTypeOK
  <2>5. /\ IsFiniteSet(Exposed') /\ Cardinality(Exposed') \in Nat /\ Cardinality(Exposed) \in Nat
        /\ Cardinality(Exposed') <= Cardinality(Exposed) + 1
    BY <2>3, <2>4, OneMore
  <2>. QED  BY <2>1, <2>3, <2>4, <2>5 DEF ServerInv
<1>. QED  BY <1>1, <1>2
-----------------------------------------------------------------------------
LEMMA ServerStep == ServerInv /\ [Next]_vars => ServerInv'
<1>. SUFFICES ASSUME ServerInv, [Next]_vars  PROVE ServerInv'
  OBVIOUS
<1>1. ASSUME NEW s \in Sessions, InitStep(s)  PROVE ServerInv'
  BY <1>1, InitSteps
<1>2. ASSUME NEW h \in Handlers, RequestStep(h)  PROVE ServerInv'
  <2>1. ASSUME NEW s \in Sessions, NEW k \in {"key", "seal"}, Finalize(h, s, k)  PROVE ServerInv'
    BY <2>1, FinalizeStep
  <2>2. CASE GetSession(h)
    BY <2>2, GetStep
  <2>3. CASE SessionMissing(h) \/ GetFails(h) \/ RequestRefused(h) \/ CutOff(h)
    BY <2>3, EndSteps
  <2>4. CASE QuoteVerified(h)
    BY <2>4, VerifiedStep
  <2>5. CASE DeleteSession(h) \/ DeleteFails(h)
    BY <2>5, DeleteSteps
  <2>6. CASE GenerateRSA(h)
    BY <2>6, GenerateStep
  <2>. QED  BY <1>2, <2>1, <2>2, <2>3, <2>4, <2>5, <2>6 DEF RequestStep
<1>3. ASSUME NEW h \in Handlers, SealPayload(h) \/ KeyRequestFails(h)  PROVE ServerInv'
  BY <1>3, EndSteps
<1>4. ASSUME NEW h \in Handlers, KeyRequestSucceeds(h)  PROVE ServerInv'
  BY <1>4, SuccessSteps
<1>5. CASE UNCHANGED vars
  BY <1>5 DEF vars, storeVars, requestVars, historyVars, boundVars, ServerInv, ServerTypeOK,
              Requests, KnownSessionsExpire, Exposed, Spent, RsaKept, Writers
<1>. QED  BY <1>1, <1>2, <1>3, <1>4, <1>5 DEF Next

(* In every run of the key server, whatever sessions, requests and keys    *)
(* there are and however many commands fail.                               *)
THEOREM ServerInvariance == Spec => []ServerInv
<1>1. Init => ServerInv
  BY InitServer
<1>. QED  BY <1>1, ServerStep, PTL DEF Spec

(* What the property of each comment in KeyServer says, for every set of   *)
(* sessions, handlers, machines and keys: a session that a client knows of *)
(* expires, ...                                                            *)
THEOREM SessionsExpire == Spec => []KnownSessionsExpire
<1>1. ServerInv => KnownSessionsExpire
  BY DEF ServerInv
<1>. QED  BY <1>1, ServerInvariance, PTL

(* ... only a failed DEL lets a request that comes after a key was issued  *)
(* get another for the session, ...                                        *)
THEOREM ReissueBounded == Spec => []NoReissue
<1>1. ServerInv => NoReissue
  <2>. SUFFICES ASSUME ServerInv  PROVE Cardinality(reissued) <= failures
    BY DEF NoReissue
  <2>1. IsFiniteSet(Exposed) /\ reissued \subseteq Exposed
    BY DEF ServerInv, Exposed
  <2>2. Cardinality(reissued) <= Cardinality(Exposed) /\ IsFiniteSet(reissued)
    BY <2>1, FS_Subset
  <2>3. Cardinality(reissued) \in Nat /\ Cardinality(Exposed) \in Nat
    BY <2>1, <2>2, FS_CardinalityType
  <2>. QED  BY <2>2, <2>3 DEF ServerInv, ServerTypeOK
<1>. QED  BY <1>1, ServerInvariance, PTL

(* ... and CreateRSA loses no more keys than there are requests at a time  *)
(* and writes that failed.                                                 *)
THEOREM RsaLosses == Spec => []RsaLossBounded
<1>1. ServerInv => RsaLossBounded
  <2>. SUFFICES ASSUME ServerInv
                PROVE  Cardinality(handedOut \ {rsa}) < Cardinality(Handlers) + failures
    BY DEF RsaLossBounded
  <2>1. /\ Cardinality(Writers) \in Nat /\ Cardinality(Handlers) \in Nat \ {0}
        /\ failures \in Nat /\ IsFiniteSet(handedOut)
    BY WritersFinite DEF ServerInv, ServerTypeOK, RsaKept
  <2>2. IsFiniteSet(handedOut \ {rsa}) /\ Cardinality(handedOut \ {rsa}) <= Cardinality(handedOut)
    BY <2>1, FS_Subset
  <2>3. Cardinality(handedOut \ {rsa}) \in Nat /\ Cardinality(handedOut) \in Nat
    BY <2>1, <2>2, FS_CardinalityType
  <2>. QED  BY <2>1, <2>2, <2>3 DEF ServerInv, RsaKept
<1>. QED  BY <1>1, ServerInvariance, PTL
=============================================================================
