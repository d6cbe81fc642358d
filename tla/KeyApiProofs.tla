---------------------------- MODULE KeyApiProofs ----------------------------
(***************************************************************************)
(* What the key server derives and what its journal tells, for any number  *)
(* of sessions, concurrent requests, failing uploads and processes that    *)
(* end, and for texts and measurements of any length.                      *)
(***************************************************************************)
EXTENDS KeyApi, KeyServerProofs, SequenceTheorems

(* A text that gets one more word.                                         *)
LEMMA OneMoreWord ==
  ASSUME NEW s \in Seq(Words), NEW w \in Words, NEW t, t = s \o <<w>>
  PROVE  /\ t \in Seq(Words) /\ Len(t) = Len(s) + 1 /\ t[Len(s) + 1] = w
         /\ \A i \in 1 .. Len(s) : t[i] = s[i]
OBVIOUS

LEMMA ContextIsWord ==
  ASSUME NEW c \in Contexts
  PROVE  c = <<c[1]>> /\ c[1] \in Words
BY MaterialAssumption DEF ContextVMBoot, ContextApp, Contexts

LEMMA Prefixes ==
  ASSUME NEW w \in Words, NEW v \in Words
  PROVE  << >> \in Seq(Words) /\ <<w>> \in Seq(Words) /\ <<v, w>> \in Seq(Words)
OBVIOUS

(* The info string up to the id, and how it tells mode and context: "%s"   *)
(* of an empty prefix leaves the separator in front.                       *)
Label(mode, context) == ContextPrefix(mode) \o <<"-">> \o context \o <<"-">>

Labelled(L, mode, context) ==
  \/ mode = TRUE /\ Len(L) = 5 /\ L[1] = "dev" /\ L[4] = context[1]
  \/ mode = FALSE /\ Len(L) = 3 /\ L[1] = "-" /\ L[2] = context[1]

LEMMA LabelProduction ==
  ASSUME NEW c \in Contexts
  PROVE  \E L \in Seq(Words) : L = Label(FALSE, c) /\ Labelled(L, FALSE, c)
<1>1. PICK q : q = << >> \o <<"-">>
  BY Zenon
<1>2. PICK r : r = q \o <<c[1]>>
  BY Zenon
<1>3. PICK L : L = r \o <<"-">>
  BY Zenon
<1>4. "-" \in Words /\ c[1] \in Words
  BY MaterialAssumption, ContextIsWord
<1>5. q \in Seq(Words) /\ Len(q) = 1 /\ q[1] = "-"
  BY <1>1, <1>4, Prefixes
<1>6. /\ r \in Seq(Words) /\ Len(r) = Len(q) + 1 /\ r[Len(q) + 1] = c[1]
      /\ \A i \in 1 .. Len(q) : r[i] = q[i]
  BY <1>2, <1>4, <1>5, OneMoreWord
<1>7. Len(r) = 2 /\ r[1] = "-" /\ r[2] = c[1]
  BY <1>5, <1>6
<1>8. L \in Seq(Words) /\ Len(L) = Len(r) + 1 /\ \A i \in 1 .. Len(r) : L[i] = r[i]
  BY <1>3, <1>4, <1>6, OneMoreWord
<1>9. Len(L) = 3 /\ L[1] = "-" /\ L[2] = c[1]
  BY <1>7, <1>8
<1>10. L = Label(FALSE, c)
  BY <1>1, <1>2, <1>3, ContextIsWord, Zenon DEF Label, ContextPrefix
<1>. QED  BY <1>8, <1>9, <1>10, Zenon DEF Labelled

LEMMA LabelDev ==
  ASSUME NEW c \in Contexts
  PROVE  \E L \in Seq(Words) : L = Label(TRUE, c) /\ Labelled(L, TRUE, c)
<1>1. PICK p : p = <<"dev", "-">>
  BY Zenon
<1>2. PICK q : q = p \o <<"-">>
  BY Zenon
<1>3. PICK r : r = q \o <<c[1]>>
  BY Zenon
<1>4. PICK L : L = r \o <<"-">>
  BY Zenon
<1>5. "dev" \in Words /\ "-" \in Words /\ c[1] \in Words
  BY MaterialAssumption, ContextIsWord
<1>6. p \in Seq(Words) /\ Len(p) = 2 /\ p[1] = "dev"
  BY <1>1, <1>5, Prefixes
<1>7. q \in Seq(Words) /\ Len(q) = Len(p) + 1 /\ \A i \in 1 .. Len(p) : q[i] = p[i]
  BY <1>2, <1>5, <1>6, OneMoreWord
<1>8. Len(q) = 3 /\ q[1] = "dev"
  BY <1>6, <1>7
<1>9. /\ r \in Seq(Words) /\ Len(r) = Len(q) + 1 /\ r[Len(q) + 1] = c[1]
      /\ \A i \in 1 .. Len(q) : r[i] = q[i]
  BY <1>3, <1>5, <1>7, OneMoreWord
<1>10. Len(r) = 4 /\ r[1] = "dev" /\ r[4] = c[1]
  BY <1>8, <1>9
<1>11. L \in Seq(Words) /\ Len(L) = Len(r) + 1 /\ \A i \in 1 .. Len(r) : L[i] = r[i]
  BY <1>4, <1>5, <1>9, OneMoreWord
<1>12. Len(L) = 5 /\ L[1] = "dev" /\ L[4] = c[1]
  BY <1>10, <1>11
<1>13. L = Label(TRUE, c)
  BY <1>1, <1>2, <1>3, <1>4, ContextIsWord, Zenon DEF Label, ContextPrefix
<1>. QED  BY <1>11, <1>12, <1>13, Zenon DEF Labelled

LEMMA LabelOf ==
  ASSUME NEW m \in BOOLEAN, NEW c \in Contexts
  PROVE  \E L \in Seq(Words) : L = Label(m, c) /\ Labelled(L, m, c)
<1>1. CASE m = TRUE
  BY <1>1, LabelDev, Zenon
<1>2. CASE m = FALSE
  BY <1>2, LabelProduction, Zenon
<1>. QED  BY <1>1, <1>2, Zenon

(* Concatenations are told apart when the first parts have one length.     *)
LEMMA ConcatInjective ==
  ASSUME NEW a \in Seq(Words), NEW b \in Seq(Words), NEW c \in Seq(Words), NEW d \in Seq(Words),
         a \o b = c \o d, Len(a) = Len(c)
  PROVE  a = c /\ b = d
<1>1. \A i \in 1 .. Len(a) : a[i] = (a \o b)[i] /\ c[i] = (c \o d)[i]
  OBVIOUS
<1>2. a = c
  BY <1>1, SeqEqual
<1>3. Len(a \o b) = Len(a) + Len(b) /\ Len(c \o d) = Len(c) + Len(d)
  BY ConcatProperties, Zenon
<1>4. Len(b) = Len(d)
  BY <1>3
<1>5. \A i \in 1 .. Len(b) : (a \o b)[Len(a) + i] = b[i]
  OBVIOUS
<1>6. \A i \in 1 .. Len(d) : (c \o d)[Len(c) + i] = d[i]
  OBVIOUS
<1>7. \A i \in 1 .. Len(b) : b[i] = d[i]
  BY <1>4, <1>5, <1>6
<1>8. b = d
  BY <1>4, <1>7, SeqEqual
<1>. QED  BY <1>2, <1>8

(* No two modes, contexts and ids have one info string, though an id may   *)
(* hold the separator.                                                     *)
LEMMA InfoInjective ==
  ASSUME NEW m \in BOOLEAN, NEW n \in BOOLEAN, NEW c \in Contexts, NEW d \in Contexts,
         NEW i \in Seq(Words), NEW j \in Seq(Words),
         Info(m, c, i) = Info(n, d, j)
  PROVE  m = n /\ c = d /\ i = j
<1>1. PICK a \in Seq(Words) : a = Label(m, c) /\ Labelled(a, m, c)
  BY LabelOf
<1>2. PICK b \in Seq(Words) : b = Label(n, d) /\ Labelled(b, n, d)
  BY LabelOf
<1>3. a \o i = b \o j
  BY <1>1, <1>2, Zenon DEF Info, Label
<1>4. a[1] = (a \o i)[1] /\ b[1] = (b \o j)[1]
  BY <1>1, <1>2 DEF Labelled
<1>5. m = n
  BY <1>1, <1>2, <1>3, <1>4 DEF Labelled
<1>6. Len(a) = Len(b)
  BY <1>1, <1>2, <1>5 DEF Labelled
<1>7. a = b /\ i = j
  BY <1>3, <1>6, ConcatInjective, Zenon
<1>8. c[1] = d[1]
  BY <1>1, <1>2, <1>5, <1>7 DEF Labelled
<1>9. c = d
  BY <1>8, ContextIsWord
<1>. QED  BY <1>5, <1>7, <1>9
-----------------------------------------------------------------------------
(* A log that verifies against the quote of a VM has that VM's Cfv.        *)
LEMMA VerifiedSeed ==
  ASSUME LogsAgree, NEW s \in Sessions, NEW p \in KeyProofs[s]
  PROVE  /\ p.vm \in {m \in Machines : HasCfv(m.log)}
         /\ p.quote.mrtd = p.vm.mrtd /\ Cfv(p.log) = Cfv(p.vm.log)
<1>1. p \in Presented /\ VerifyLog(p.quote, p.log)
  BY DEF KeyProofs
<1>2. PICK vm \in Machines : p \in [vm : {vm}, quote : Quotes(vm), log : Logs]
  BY <1>1 DEF Presented
<1>3. /\ p.vm = vm /\ p.log \in Logs
      /\ p.quote.mrtd = vm.mrtd /\ p.quote.rtmrs = Replay(vm.log)
  BY <1>2 DEF Quotes
<1>4. HasCfv(p.log) /\ \A i \in Registers : Replay(vm.log)[i] = Replay(p.log)[i]
  BY <1>1, <1>3 DEF VerifyLog, VerifyRTMRs
<1>. QED  BY <1>2, <1>3, <1>4 DEF LogsAgree

(* A request that is past its verification has been so before the step,    *)
(* with the same proof, or is the one that was verified.                   *)
LEMMA AttestedStep ==
  ASSUME LogsAgree, ServerInv, Attested, [Next]_vars
  PROVE  Attested'
<1>. DEFINE Early == {"idle", "get", "verify"}
            Kept == \A g \in Handlers : pc'[g] \notin Early => pc[g] \notin Early /\ proof'[g] = proof[g]
<1>1. pc \in [Handlers -> Pc] /\ DOMAIN proof = Handlers /\ (\A h \in Handlers :
        pc[h] # "idle" => session[h] \in Sessions)
  BY DEF ServerInv, ServerTypeOK, Requests
<1>2. ASSUME Kept  PROVE Attested'
  BY <1>2, Zenon DEF Attested
<1>3. ASSUME NEW s \in Sessions, InitStep(s)  PROVE Kept
  BY <1>3 DEF InitStep, KeyRequestInit, TdxSealRequestInit, WriteSession, ExpireSession,
              InitFails, Lapse, InitCutOff, requestVars
<1>4. ASSUME NEW h \in Handlers, Answer(h)  PROVE Kept
  BY <1>1, <1>4 DEF Answer
<1>5. ASSUME NEW h \in Handlers, SealPayload(h) \/ KeyRequestSucceeds(h) \/ KeyRequestFails(h)
      PROVE  Kept
  BY <1>4, <1>5, Zenon
     DEF SealPayload, AnswerOnly, KeyRequestSucceeds, DeriveKey, ReadRSA, WriteRSA, WriteRSAFails,
         Issue, KeyRequestFails, TypeRefused, DeriveFails, ReadRSAFails
<1>6. ASSUME NEW h \in Handlers, RequestStep(h)  PROVE Attested'
  <2>1. CASE SessionMissing(h) \/ GetFails(h) \/ RequestRefused(h) \/ CutOff(h)
    BY <1>2, <1>4, <2>1, Zenon DEF SessionMissing, GetFails, RequestRefused, CutOff, AnswerOnly
  <2>2. CASE (\E s \in Sessions, k \in {"key", "seal"} : Finalize(h, s, k)) \/ GetSession(h)
    <3>1. Kept
      BY <1>1, <2>2 DEF Finalize, GetSession
    <3>. QED  BY <1>2, <3>1
  <2>3. CASE DeleteSession(h) \/ DeleteFails(h) \/ GenerateRSA(h)
    <3>1. pc[h] \notin Early /\ proof' = proof /\ \A g \in Handlers : g # h => pc'[g] = pc[g]
      BY <1>1, <2>3 DEF DeleteSession, DeleteFails, GenerateRSA, Dispatch
    <3>. QED  BY <1>2, <3>1
  <2>4. CASE QuoteVerified(h)
    <3>1. PICK p \in KeyProofs[session[h]] :
            proof' = [proof EXCEPT ![h] =
                        [measured |-> <<p.vm.mrtd, Cfv(p.vm.log)>>,
                         seed |-> DeriveSeedFromMeasurements(p.quote.mrtd, Cfv(p.log))]]
      BY <2>4, Zenon DEF QuoteVerified
    <3>2. /\ p.vm \in {m \in Machines : HasCfv(m.log)}
          /\ p.quote.mrtd = p.vm.mrtd /\ Cfv(p.log) = Cfv(p.vm.log)
      BY <1>1, <2>4, <3>1, VerifiedSeed DEF QuoteVerified
    <3>3. proof'[h] = [measured |-> <<p.vm.mrtd, Cfv(p.vm.log)>>,
                       seed |-> DeriveSeedFromMeasurements(p.vm.mrtd, Cfv(p.vm.log))]
      BY <1>1, <3>1, <3>2
    <3>4. \A g \in Handlers : g # h => pc'[g] = pc[g] /\ proof'[g] = proof[g]
      BY <1>1, <2>4, <3>1 DEF QuoteVerified
    <3>. QED  BY <3>2, <3>3, <3>4, Zenon DEF Attested
  <2>. QED  BY <1>6, <2>1, <2>2, <2>3, <2>4 DEF RequestStep
<1>7. CASE UNCHANGED vars
  BY <1>7, Zenon DEF vars, requestVars, Attested
<1>. QED  BY <1>2, <1>3, <1>5, <1>6, <1>7 DEF Next

(* The key of a request that has been attested opens exactly what was      *)
(* sealed for its id, in its mode and context, for these measurements.     *)
LEMMA SealOpens == ServerInv /\ Attested => SealedPayloadOpens
<1>. SUFFICES ASSUME ServerInv, Attested, NEW h \in Handlers, pc[h] = "derive",
                     NEW id \in Ids, NEW sealedId \in Ids, NEW context \in Contexts,
                     NEW mode \in BOOLEAN, NEW vm \in {m \in Machines : HasCfv(m.log)}
              PROVE  DeriveHKDF(DevMode, id, proof[h].seed, context)
                       = SealKey(mode, sealedId, vm.mrtd, Cfv(vm.log))
                     <=> /\ mode = DevMode /\ id = sealedId /\ context = ContextVMBoot
                         /\ <<vm.mrtd, Cfv(vm.log)>> = proof[h].measured
  BY DEF SealedPayloadOpens
<1>1. PICK at \in {m \in Machines : HasCfv(m.log)} :
         proof[h] = [measured |-> <<at.mrtd, Cfv(at.log)>>,
                     seed |-> DeriveSeedFromMeasurements(at.mrtd, Cfv(at.log))]
  BY Zenon DEF Attested
<1>2. /\ DevMode \in BOOLEAN /\ id \in Seq(Words) /\ sealedId \in Seq(Words)
      /\ at.mrtd \in Seq(Words) /\ Cfv(at.log) \in Seq(Words)
      /\ vm.mrtd \in Seq(Words) /\ Cfv(vm.log) \in Seq(Words)
      /\ Len(at.mrtd) = Len(vm.mrtd)
  BY MeasurementAssumption
<1>3. DeriveHKDF(DevMode, id, proof[h].seed, context)
        = SealKey(mode, sealedId, vm.mrtd, Cfv(vm.log))
      <=> /\ at.mrtd \o Cfv(at.log) = vm.mrtd \o Cfv(vm.log)
          /\ Info(DevMode, context, id) = Info(mode, ContextVMBoot, sealedId)
  <2>1. proof[h].seed = DeriveSeedFromMeasurements(at.mrtd, Cfv(at.log))
    BY <1>1
  <2>. QED  BY <2>1, Zenon DEF DeriveHKDF, SealKey, DeriveSeedFromMeasurements
<1>4. Info(DevMode, context, id) = Info(mode, ContextVMBoot, sealedId)
      <=> mode = DevMode /\ id = sealedId /\ context = ContextVMBoot
  BY <1>2, InfoInjective DEF Contexts
<1>5. at.mrtd \o Cfv(at.log) = vm.mrtd \o Cfv(vm.log)
      <=> <<vm.mrtd, Cfv(vm.log)>> = proof[h].measured
  <2>1. proof[h].measured = <<at.mrtd, Cfv(at.log)>>
    BY <1>1
  <2>2. ASSUME at.mrtd \o Cfv(at.log) = vm.mrtd \o Cfv(vm.log)
        PROVE  at.mrtd = vm.mrtd /\ Cfv(at.log) = Cfv(vm.log)
    BY <1>2, <2>2, ConcatInjective, Zenon
  <2>3. <<vm.mrtd, Cfv(vm.log)>> = <<at.mrtd, Cfv(at.log)>>
        <=> vm.mrtd = at.mrtd /\ Cfv(vm.log) = Cfv(at.log)
    OBVIOUS
  <2>. QED  BY <2>1, <2>2, <2>3, Zenon
<1>. QED  BY <1>3, <1>4, <1>5, Zenon

(* What was sealed for a VM opens with the key the VM gets and with no     *)
(* other that the key endpoint derives, in every run, for ids of any text  *)
(* and logs that tell what was measured.                                   *)
THEOREM SealedPayloads ==
  ASSUME LogsAgree
  PROVE  Spec => []SealedPayloadOpens
<1>1. Init => ServerInv /\ Attested
  BY InitServer DEF Init, Attested
<1>2. ServerInv /\ Attested /\ [Next]_vars => ServerInv' /\ Attested'
  BY ServerStep, AttestedStep
<1>. QED  BY <1>1, <1>2, SealOpens, PTL DEF Spec
-----------------------------------------------------------------------------
(* A server with a journal is a server: what was shown above holds of it.  *)
LEMMA ApiStep == [ApiNext]_apiVars => [Next]_vars
<1>1. ASSUME NEW h \in Handlers, JournaledStep(h) \/ JournaledSeal(h)  PROVE Next
  BY <1>1 DEF JournaledStep, JournaledSeal, SealFails, Next
<1>. QED  BY <1>1 DEF ApiNext, apiVars, Next

(* The journal only watches: with it the key server takes no step that it  *)
(* could not take without it.                                              *)
THEOREM JournalIsHistory == ApiSpec => Spec
<1>1. ApiInit => Init
  BY DEF ApiInit
<1>. QED  BY <1>1, ApiStep, PTL DEF ApiSpec, Spec

(* A write that begins, and one that ends, in the bag of running writes.   *)
LEMMA WriteAdded ==
  ASSUME NEW B, IsABag(B), NEW e
  PROVE  /\ IsABag(B (+) SetToBag({e}))
         /\ BagToSet(B (+) SetToBag({e})) = BagToSet(B) \cup {e}
BY SMT DEF IsABag, BagToSet, SetToBag, (+)

(* Of two equal writes one is left when the other ends.                    *)
LEMMA WriteRemoved ==
  ASSUME NEW B, IsABag(B), NEW e
  PROVE  /\ IsABag(B (-) SetToBag({e}))
         /\ BagToSet(B (-) SetToBag({e})) \subseteq BagToSet(B)
         /\ BagToSet(B) \subseteq BagToSet(B (-) SetToBag({e})) \cup {e}
BY SMT DEF IsABag, BagToSet, SetToBag, (-)

(* What the lists of uploads still to do begin with and go on with.       *)
LEMMA Uploads ==
  LET all == <<"entry", "quote", "marker">>
      keys == <<"quote", "marker">>
      seal == <<"entry", "marker">>
      last == <<"marker">>
  IN  /\ Head(all) = "entry" /\ Tail(all) = keys /\ Len(all) = 3
      /\ Head(keys) = "quote" /\ Tail(keys) = last /\ Len(keys) = 2
      /\ Head(seal) = "entry" /\ Tail(seal) = last /\ Len(seal) = 2
      /\ Head(last) = "marker" /\ Len(last) = 1 /\ keys # last
OBVIOUS

(* The order of the uploads: a write that is not at its marker goes on     *)
(* with what is left.                                                      *)
LEMMA Order ==
  ASSUME NEW w \in Write, w.todo \in Left(w.type)
  PROVE  \/ /\ Head(w.todo) = "entry" /\ Len(w.todo) # 1 /\ Tail(w.todo) \in Left(w.type)
            /\ Head(Tail(w.todo)) # "entry"
            /\ w.type = "key_request" => Tail(w.todo) # <<"marker">>
         \/ /\ Head(w.todo) = "quote" /\ w.type = "key_request"
            /\ Len(w.todo) # 1 /\ Tail(w.todo) = <<"marker">>
         \/ w.todo = <<"marker">> /\ Len(w.todo) = 1 /\ Head(w.todo) = "marker"
<1>1. w.type \in RequestType
  BY DEF Write
<1>2. CASE w.type = "key_request"
  <2>1. \/ w.todo = <<"entry", "quote", "marker">> \/ w.todo = <<"quote", "marker">>
        \/ w.todo = <<"marker">>
    BY <1>2, Zenon DEF Left
  <2>2. <<"quote", "marker">> \in Left(w.type)
    BY <1>2, Zenon DEF Left
  <2>3. CASE w.todo = <<"entry", "quote", "marker">>
    BY <2>2, <2>3, Uploads
  <2>4. CASE w.todo = <<"quote", "marker">>
    BY <1>2, <2>4, Uploads
  <2>5. CASE w.todo = <<"marker">>
    BY <2>5, Uploads
  <2>. QED  BY <2>1, <2>3, <2>4, <2>5, Zenon
<1>3. CASE w.type = "tdx_seal"
  <2>1. w.todo = <<"entry", "marker">> \/ w.todo = <<"marker">>
    BY <1>3 DEF Left
  <2>2. <<"marker">> \in Left(w.type)
    BY <1>3 DEF Left
  <2>3. CASE w.todo = <<"entry", "marker">>
    BY <1>3, <2>2, <2>3, Uploads
  <2>4. CASE w.todo = <<"marker">>
    BY <2>4, Uploads
  <2>. QED  BY <2>1, <2>3, <2>4
<1>. QED  BY <1>1, <1>2, <1>3, Zenon DEF RequestType

(* An upload takes nothing away, and a marker comes after what it points   *)
(* at.                                                                     *)
LEMMA UploadStep ==
  ASSUME JournalInv, NEW w \in BagToSet(writes), Upload(w), stamp' = stamp
  PROVE  /\ entry' \in [Sessions -> [type : RequestType, status : Status] \cup {None}]
         /\ \A s \in Sessions : entry[s] # None => entry'[s] # None
         /\ Head(w.todo) = "entry" => entry' = [entry EXCEPT ![w.session] = Entry(w)]
         /\ Head(w.todo) # "entry" => entry' = entry
         /\ Head(w.todo) = "quote" => w.session \in quoted'
         /\ Head(w.todo) = "marker" => Marker(w) \in markers'
         /\ quoted \subseteq quoted' /\ markers \subseteq markers'
         /\ MarkerHasRecord'
<1>1. /\ w \in Write /\ w.session \in Sessions /\ w.todo \in Left(w.type) /\ Uploaded(w)
      /\ entry \in [Sessions -> [type : RequestType, status : Status] \cup {None}]
      /\ stamp \in [Sessions -> Milliseconds] /\ MarkerHasRecord
  BY DEF JournalInv, Write
<1>2. Entry(w) \in [type : RequestType, status : Status] /\ Entry(w) # None
  BY <1>1, JournalAssumption DEF Entry, Write
<1>3. CASE Head(w.todo) = "entry"
  <2>1. entry' = [entry EXCEPT ![w.session] = Entry(w)] /\ UNCHANGED <<quoted, markers>>
    BY <1>3 DEF Upload
  <2>2. /\ entry' \in [Sessions -> [type : RequestType, status : Status] \cup {None}]
        /\ \A s \in Sessions : entry[s] # None => entry'[s] # None
    BY <1>1, <1>2, <2>1
  <2>3. MarkerHasRecord'
    BY <1>1, <2>1, <2>2 DEF MarkerHasRecord
  <2>. QED  BY <1>3, <2>1, <2>2, <2>3
<1>4. CASE Head(w.todo) = "quote"
  <2>1. quoted' = quoted \cup {w.session} /\ UNCHANGED <<entry, markers>>
    BY <1>4 DEF Upload
  <2>2. MarkerHasRecord'
    BY <1>1, <2>1 DEF MarkerHasRecord
  <2>. QED  BY <1>1, <1>4, <2>1, <2>2
<1>5. CASE Head(w.todo) = "marker"
  <2>1. markers' = markers \cup {Marker(w)} /\ UNCHANGED <<entry, quoted>>
    BY <1>5 DEF Upload
  <2>2. entry[w.session] # None /\ (w.type = "key_request" => w.session \in quoted)
    BY <1>1, <1>5, Order DEF Uploaded
  <2>3. Marker(w)[1] = stamp[w.session] /\ Marker(w)[2] = w.type
    BY DEF Marker
  <2>4. MarkerHasRecord'
    BY <1>1, <2>1, <2>2, <2>3 DEF MarkerHasRecord
  <2>. QED  BY <1>1, <1>5, <2>1, <2>4
<1>. QED  BY <1>3, <1>4, <1>5 DEF Upload

(* What the writes that were under way have uploaded stays.                *)
LEMMA UploadedStays ==
  ASSUME JournalInv, NEW v \in BagToSet(writes), quoted \subseteq quoted',
         \A s \in Sessions : entry[s] # None => entry'[s] # None
  PROVE  v \in Write /\ v.todo \in Left(v.type) /\ Uploaded(v)'
BY DEF JournalInv, Uploaded, Write

(* An entry that is overwritten tells of another request that was logged. *)
LEMMA EntryTold ==
  ASSUME JournalInv, JournalTold, NEW w \in BagToSet(writes), served' = served,
         entry' = entry \/ entry' = [entry EXCEPT ![w.session] = Entry(w)]
  PROVE  JournaledKeysIssued'
<1>1. /\ w.session \in Sessions
      /\ entry \in [Sessions -> [type : RequestType, status : Status] \cup {None}]
  BY DEF JournalInv, Write
<1>. QED  BY <1>1 DEF JournalTold, JournaledKeysIssued

LEMMA WriteObjectStep ==
  ASSUME JournalInv, JournalTold, served \subseteq Sessions,
         NEW w \in BagToSet(writes), WriteObject(w), UNCHANGED vars
  PROVE  JournalInv' /\ JournalTold'
<1>. DEFINE next == [w EXCEPT !.todo = Tail(@)]
<1>1. /\ w \in Write /\ w.session \in Sessions /\ w.todo \in Left(w.type) /\ Uploaded(w)
      /\ IsABag(writes) /\ stamp \in [Sessions -> Milliseconds]
  BY DEF JournalInv, Write
<1>2. Upload(w) /\ stamp' = stamp /\ aborted' = aborted /\ served' = served
  BY DEF WriteObject, vars, historyVars
<1>3. /\ entry' \in [Sessions -> [type : RequestType, status : Status] \cup {None}]
      /\ \A s \in Sessions : entry[s] # None => entry'[s] # None
      /\ Head(w.todo) = "entry" => entry' = [entry EXCEPT ![w.session] = Entry(w)]
      /\ Head(w.todo) # "entry" => entry' = entry
      /\ Head(w.todo) = "quote" => w.session \in quoted'
      /\ Head(w.todo) = "marker" => Marker(w) \in markers'
      /\ quoted \subseteq quoted' /\ markers \subseteq markers'
      /\ MarkerHasRecord'
  BY <1>2, UploadStep
<1>4. PICK left : left = writes (-) SetToBag({w})
  OBVIOUS
<1>5. writes' = IF Len(w.todo) = 1 THEN left ELSE left (+) SetToBag({next})
  BY <1>4 DEF WriteObject
<1>6. /\ IsABag(left) /\ BagToSet(left) \subseteq BagToSet(writes)
      /\ BagToSet(writes) \subseteq BagToSet(left) \cup {w}
  BY <1>1, <1>4, WriteRemoved, Zenon
<1>7. /\ IsABag(writes')
      /\ BagToSet(writes') = BagToSet(left) \cup IF Len(w.todo) = 1 THEN {} ELSE {next}
  BY <1>5, <1>6, WriteAdded, Zenon
<1>8. entry[w.session] # None => entry'[w.session] # None
  BY <1>1, <1>3
<1>9. Head(w.todo) = "entry" => entry'[w.session] # None
  <2>1. Entry(w) # None /\ DOMAIN entry = Sessions
    BY <1>1, JournalAssumption DEF Entry, Write, JournalInv
  <2>. QED  BY <1>1, <1>3, <2>1
<1>10. next.session = w.session /\ next.type = w.type /\ next.status = w.status
       /\ next.todo = Tail(w.todo)
  BY <1>1 DEF Write
<1>11. ASSUME Len(w.todo) # 1
       PROVE  next \in Write /\ next.todo \in Left(next.type) /\ Uploaded(next)'
  <2>1. Tail(w.todo) \in Left(w.type)
    BY <1>1, <1>11, Order, Zenon DEF Left
  <2>2. next \in Write
    BY <1>1, <2>1, Zenon DEF Write
  <2>3. Uploaded(next)'
    BY <1>1, <1>3, <1>8, <1>9, <1>10, <1>11, Order DEF Uploaded
  <2>. QED  BY <1>10, <2>1, <2>2, <2>3
<1>12. JournalInv'
  <2>1. ASSUME NEW v \in BagToSet(writes')
        PROVE  v \in Write /\ v.todo \in Left(v.type) /\ Uploaded(v)'
    BY <1>3, <1>6, <1>7, <1>11, UploadedStays, Zenon
  <2>. QED  BY <1>1, <1>2, <1>3, <1>7, <2>1 DEF JournalInv
<1>13. JournaledKeysIssued'
  BY <1>2, <1>3, EntryTold
<1>14. \A v \in BagToSet(writes)' :
         Entry(v) = [type |-> "key_request", status |-> "SUCCESS"] => v.session \in served'
  <2>1. Entry(next) = Entry(w)
    BY <1>10 DEF Entry
  <2>. QED  BY <1>2, <1>6, <1>7, <1>10, <2>1, Zenon DEF JournalTold
<1>15. IssuedKeysJournaled'
  <2>. SUFFICES ASSUME NEW s \in served \ aborted
                PROVE  \/ entry'[s] # None /\ s \in quoted' /\ <<stamp[s], "key_request">> \in markers'
                       \/ \E v \in BagToSet(writes') : v.session = s /\ v.type = "key_request"
    BY <1>2 DEF IssuedKeysJournaled
  <2>1. CASE entry[s] # None /\ s \in quoted /\ <<stamp[s], "key_request">> \in markers
    <3>1. entry'[s] # None
      BY <1>3, <2>1
    <3>. QED  BY <1>3, <2>1, <3>1
  <2>2. ASSUME NEW v \in BagToSet(writes), v.session = s, v.type = "key_request", v # w
        PROVE  v \in BagToSet(writes')
    BY <1>6, <1>7, <2>2
  <2>3. CASE w.session = s /\ w.type = "key_request" /\ Len(w.todo) # 1
    BY <1>7, <1>10, <2>3, Zenon
  <2>4. CASE w.session = s /\ w.type = "key_request" /\ Len(w.todo) = 1
    <3>1. w.todo = <<"marker">> /\ Head(w.todo) = "marker"
      BY <1>1, <2>4, Order
    <3>2. entry[s] # None /\ s \in quoted
      BY <1>1, <2>4, <3>1 DEF Uploaded
    <3>. QED  BY <1>1, <1>3, <1>8, <2>4, <3>1, <3>2 DEF Marker
  <2>. QED  BY <2>1, <2>2, <2>3, <2>4 DEF JournalTold, IssuedKeysJournaled
<1>. QED  BY <1>12, <1>13, <1>14, <1>15 DEF JournalTold

LEMMA WriteAbortsStep ==
  ASSUME JournalInv, JournalTold, served \subseteq Sessions,
         NEW w \in BagToSet(writes), WriteAborts(w), UNCHANGED vars
  PROVE  JournalInv' /\ JournalTold'
<1>1. IsABag(writes) /\ stamp \in [Sessions -> Milliseconds]
  BY DEF JournalInv
<1>2. /\ stamp' = stamp /\ aborted' = aborted \cup {w.session} /\ served' = served
      /\ Upload(w) \/ UNCHANGED <<entry, quoted, markers>>
  BY DEF WriteAborts, bucketVars, vars, historyVars
<1>3. /\ entry' \in [Sessions -> [type : RequestType, status : Status] \cup {None}]
      /\ \A s \in Sessions : entry[s] # None => entry'[s] # None
      /\ entry' = entry \/ entry' = [entry EXCEPT ![w.session] = Entry(w)]
      /\ quoted \subseteq quoted' /\ markers \subseteq markers'
      /\ MarkerHasRecord'
  <2>1. CASE Upload(w)
    BY <1>2, <2>1, UploadStep
  <2>2. CASE UNCHANGED <<entry, quoted, markers>>
    BY <1>2, <2>2 DEF JournalInv, MarkerHasRecord
  <2>. QED  BY <1>2, <2>1, <2>2
<1>4. /\ IsABag(writes') /\ BagToSet(writes') \subseteq BagToSet(writes)
      /\ BagToSet(writes) \subseteq BagToSet(writes') \cup {w}
  BY <1>1, WriteRemoved, Zenon DEF WriteAborts
<1>5. JournalInv'
  <2>1. ASSUME NEW v \in BagToSet(writes')
        PROVE  v \in Write /\ v.todo \in Left(v.type) /\ Uploaded(v)'
    BY <1>3, <1>4, UploadedStays, Zenon
  <2>. QED  BY <1>1, <1>2, <1>3, <1>4, <2>1 DEF JournalInv
<1>6. JournaledKeysIssued'
  BY <1>2, <1>3, EntryTold
<1>7. IssuedKeysJournaled'
  <2>. SUFFICES ASSUME NEW s \in served \ aborted, s # w.session
                PROVE  \/ entry'[s] # None /\ s \in quoted' /\ <<stamp[s], "key_request">> \in markers'
                       \/ \E v \in BagToSet(writes') : v.session = s /\ v.type = "key_request"
    BY <1>2 DEF IssuedKeysJournaled
  <2>1. CASE entry[s] # None /\ s \in quoted /\ <<stamp[s], "key_request">> \in markers
    <3>1. entry'[s] # None
      BY <1>3, <2>1
    <3>. QED  BY <1>3, <2>1, <3>1
  <2>2. ASSUME NEW v \in BagToSet(writes), v.session = s, v.type = "key_request"
        PROVE  v \in BagToSet(writes')
    BY <1>4, <2>2
  <2>. QED  BY <2>1, <2>2 DEF JournalTold, IssuedKeysJournaled
<1>. QED  BY <1>2, <1>4, <1>5, <1>6, <1>7 DEF JournalTold

(* A request logs its outcome with its answer.                             *)
LEMMA LoggedStep ==
  ASSUME JournalInv, JournalTold, NEW s \in Sessions, NEW t \in RequestType, NEW u \in Status,
         LogJournal(s, t, u),
         served' = IF t = "key_request" /\ u = "SUCCESS" THEN served \cup {s} ELSE served
  PROVE  JournalInv' /\ JournalTold'
<1>. DEFINE w == [session |-> s, type |-> t, status |-> u, todo |-> Artifacts(t)]
<1>1. /\ writes' = writes (+) SetToBag({w}) /\ IsABag(writes)
      /\ UNCHANGED <<stamp, entry, quoted, markers, aborted>>
  BY DEF LogJournal, bucketVars, JournalInv
<1>2. IsABag(writes') /\ BagToSet(writes') = BagToSet(writes) \cup {w}
  BY <1>1, WriteAdded, Zenon
<1>3. Artifacts(t) \in Left(t) /\ Head(Artifacts(t)) = "entry"
      /\ (t = "key_request" => Artifacts(t) # <<"marker">>)
  <2>1. CASE t = "key_request"
    BY <2>1, Uploads DEF Artifacts, Left
  <2>2. CASE t = "tdx_seal"
    BY <2>2, Uploads DEF Artifacts, Left
  <2>. QED  BY <2>1, <2>2 DEF RequestType
<1>4. w \in Write /\ w.todo \in Left(w.type) /\ Uploaded(w)'
  BY <1>3 DEF Write, Uploaded
<1>5. JournalInv'
  <2>1. ASSUME NEW v \in BagToSet(writes')
        PROVE  v \in Write /\ v.todo \in Left(v.type) /\ Uploaded(v)'
    BY <1>1, <1>2, <1>4, UploadedStays, Zenon
  <2>. QED  BY <1>1, <1>2, <2>1, Zenon DEF JournalInv, MarkerHasRecord
<1>6. JournaledKeysIssued'
  BY <1>1, Zenon DEF JournalTold, JournaledKeysIssued
<1>7. IssuedKeysJournaled'
  <2>1. CASE t = "key_request" /\ u = "SUCCESS"
    <3>1. served' = served \cup {s} /\ w.session = s /\ w.type = "key_request"
      BY <2>1
    <3>. QED  BY <1>1, <1>2, <3>1, Zenon DEF JournalTold, IssuedKeysJournaled
  <2>2. CASE ~(t = "key_request" /\ u = "SUCCESS")
    <3>1. served' = served
      BY <2>2
    <3>. QED  BY <1>1, <1>2, <3>1, Zenon DEF JournalTold, IssuedKeysJournaled
  <2>. QED  BY <2>1, <2>2
<1>8. Entry(w) = [type |-> "key_request", status |-> "SUCCESS"]
      => t = "key_request" /\ u = "SUCCESS" /\ w.session = s
  BY DEF Entry
<1>9. Entry(w) = [type |-> "key_request", status |-> "SUCCESS"] => w.session \in served'
  BY <1>8
<1>10. served \subseteq served'
  OBVIOUS
<1>. QED  BY <1>2, <1>5, <1>6, <1>7, <1>9, <1>10 DEF JournalTold
-----------------------------------------------------------------------------
LEMMA ApiInductive == ApiInv /\ [ApiNext]_apiVars => ApiInv'
<1>. SUFFICES ASSUME ApiInv, [ApiNext]_apiVars  PROVE ApiInv'
  OBVIOUS
<1>. DEFINE Quiet == UNCHANGED journalVars /\ served' = served
<1>1. ServerInv'
  BY ApiStep, ServerStep DEF ApiInv
<1>2. JournalInv /\ JournalTold /\ served \subseteq Sessions
  BY DEF ApiInv, ServerInv, Requests
<1>3. SUFFICES JournalInv' /\ JournalTold'
  BY <1>1, <1>3 DEF ApiInv
<1>4. ASSUME Quiet  PROVE JournalInv' /\ JournalTold'
  BY <1>2, <1>4, Zenon
     DEF journalVars, bucketVars, JournalInv, Uploaded, MarkerHasRecord, JournalTold,
         JournaledKeysIssued, IssuedKeysJournaled
<1>5. ASSUME NEW h \in Handlers, pc[h] # "idle"  PROVE session[h] \in Sessions
  BY <1>5, Zenon DEF ApiInv, ServerInv, Requests
<1>6. ASSUME NEW s \in Sessions, InitStep(s), UNCHANGED journalVars  PROVE Quiet
  BY <1>6, Zenon DEF InitStep, KeyRequestInit, TdxSealRequestInit, WriteSession, ExpireSession,
              InitFails, Lapse, InitCutOff, historyVars
<1>7. ASSUME NEW h \in Handlers, RequestStep(h), UNCHANGED journalVars  PROVE Quiet
  BY <1>7, Zenon
     DEF RequestStep, Finalize, GetSession, SessionMissing, GetFails, RequestRefused, QuoteVerified,
         DeleteSession, DeleteFails, GenerateRSA, CutOff, AnswerOnly, historyVars
<1>8. ASSUME NEW h \in Handlers, JournaledStep(h)  PROVE JournalInv' /\ JournalTold'
  <2>1. CASE KeyRequestSucceeds(h) /\ LogJournal(session[h], "key_request", "SUCCESS")
    <3>1. pc[h] # "idle" /\ served' = served \cup {session[h]}
      BY <2>1, Zenon DEF KeyRequestSucceeds, DeriveKey, ReadRSA, WriteRSA, WriteRSAFails, Issue
    <3>. QED  BY <1>2, <1>5, <2>1, <3>1, LoggedStep DEF RequestType, Status
  <2>2. CASE KeyRequestFails(h) /\ LogJournal(session[h], "key_request", "FAIL")
    <3>1. pc[h] # "idle" /\ served' = served
      BY <2>2, Zenon DEF KeyRequestFails, TypeRefused, DeriveFails, ReadRSAFails, AnswerOnly, historyVars
    <3>. QED  BY <1>2, <1>5, <2>2, <3>1, LoggedStep DEF RequestType, Status
  <2>. QED  BY <1>8, <2>1, <2>2 DEF JournaledStep
<1>9. ASSUME NEW h \in Handlers, JournaledSeal(h)  PROVE JournalInv' /\ JournalTold'
  <2>1. pc[h] # "idle" /\ served' = served
    BY <1>9, Zenon DEF JournaledSeal, SealFails, SealPayload, AnswerOnly, historyVars
  <2>. QED  BY <1>2, <1>5, <1>9, <2>1, LoggedStep DEF JournaledSeal, RequestType, Status
<1>10. CASE JournalStep /\ UNCHANGED vars
  BY <1>2, <1>10, WriteObjectStep, WriteAbortsStep DEF JournalStep
<1>11. CASE UNCHANGED apiVars
  BY <1>4, <1>11 DEF apiVars, vars, historyVars
<1>. QED  BY <1>4, <1>6, <1>7, <1>8, <1>9, <1>10, <1>11 DEF ApiNext

(* In every run of the server with its journal, however the writes of its  *)
(* requests interleave, fail or are cut off.                               *)
THEOREM ApiInvariance == ApiSpec => []ApiInv
<1>1. ApiInit => ApiInv
  <2>. SUFFICES ASSUME ApiInit  PROVE ApiInv
    OBVIOUS
  <2>1. writes = EmptyBag /\ markers = {} /\ served = {} /\ entry = [s \in Sessions |-> None]
    BY DEF ApiInit, JournalInit, Init
  <2>2. IsABag(writes) /\ BagToSet(writes) = {}
    BY <2>1, SMT DEF IsABag, BagToSet, SetToBag, EmptyBag
  <2>3. JournalInv
    BY <2>1, <2>2 DEF ApiInit, JournalInit, JournalInv, MarkerHasRecord
  <2>. QED  BY <2>1, <2>2, <2>3, InitServer, JournalAssumption
            DEF ApiInit, ApiInv, JournalTold, JournaledKeysIssued, IssuedKeysJournaled,
                RequestType, Status
<1>. QED  BY <1>1, ApiInductive, PTL DEF ApiSpec

(* A marker never points at a missing record, ...                          *)
THEOREM MarkersHaveRecords == ApiSpec => []MarkerHasRecord
<1>1. ApiInv => MarkerHasRecord
  BY DEF ApiInv, JournalInv
<1>. QED  BY <1>1, ApiInvariance, PTL

(* ... a record tells of a key only when one was issued, ...               *)
THEOREM JournalTellsTruth == ApiSpec => []JournaledKeysIssued
<1>1. ApiInv => JournaledKeysIssued
  BY DEF ApiInv, JournalTold
<1>. QED  BY <1>1, ApiInvariance, PTL

(* ... and no issued key is missing from the journal unless a write of its *)
(* session failed.                                                         *)
THEOREM JournalTellsAll == ApiSpec => []IssuedKeysJournaled
<1>1. ApiInv => IssuedKeysJournaled
  BY DEF ApiInv, JournalTold
<1>. QED  BY <1>1, ApiInvariance, PTL
=============================================================================
