-------------------------------- MODULE Query --------------------------------
(***************************************************************************)
(* query.go: a node without a key asks one READY peer for it.              *)
(***************************************************************************)
EXTENDS ClusterBase

(* onNoKey saw the members in providers as READY: some may have crashed or *)
(* restarted since they gossiped it.                                       *)
QueryKey(n, providers) ==
  /\ status[n] = "NO_KEY" /\ main[n] = "wait"
  /\ providers # {} /\ providers \subseteq wasReady \ {n}
  /\ SetStatus(n, "QUERY_KEY")
  /\ main' = [main EXCEPT ![n] = "query"]
  /\ asking' = [asking EXCEPT ![n] = providers]
  /\ UNCHANGED <<disk, sealing, jobs, net, booted, boundVars, seeded>>

(* Mutant: any member is asked, READY or not.                              *)
SendQueryAnyMember(n, m) ==
  /\ main[n] = "query" /\ asking[n] # {}
  /\ m # n
  /\ Send(m, Msg("KEYQUERY", n, NoKey)) \/ SendFails(m)
  /\ asking' = [asking EXCEPT ![n] = {}]
  /\ UNCHANGED <<status, main, sealing, disk, jobs, viewVars, crashes, restarts, seeded>>

(* The goroutine of queryKey: the first peer whose Meta (a live pointer)   *)
(* says READY is asked once, whether or not the send succeeds.             *)
SendQuery(n, m) ==
  /\ main[n] = "query" /\ asking[n] # {}
  /\ m # n
  /\ m \in asking[n] \/ status[m] = "READY"
  /\ Send(m, Msg("KEYQUERY", n, NoKey)) \/ SendFails(m)
  /\ asking' = [asking EXCEPT ![n] = {}]
  /\ UNCHANGED <<status, main, sealing, disk, jobs, viewVars, crashes, restarts, seeded>>

(* ... and nobody is when every provider has restarted in the meantime.    *)
AskNobody(n) ==
  /\ main[n] = "query" /\ asking[n] # {}
  /\ \A m \in asking[n] : status[m] # "READY"
  /\ asking' = [asking EXCEPT ![n] = {}]
  /\ UNCHANGED <<status, main, sealing, disk, jobs, net, viewVars, boundVars,
                 seeded>>

HandleQueryKey(n, m) ==
  /\ Consume(n, m)
  /\ jobs' = [jobs EXCEPT ![n] = Put(@, Go("KEY_REPLY", m.from, disk[n]))]
  /\ UNCHANGED <<procVars, disk, viewVars, boundVars, seeded>>

(* The goroutine waits for the sender to be in the member list (it may     *)
(* stay there after a crash), sends once and ends.                         *)
SendKeyReply(n, p, k) ==
  /\ BagIn(Go("KEY_REPLY", p, k), jobs[n])
  /\ Send(p, Msg("KEYQUERY_RESP", n, k)) \/ SendFails(p)
  /\ jobs' = [jobs EXCEPT ![n] = Take(@, Go("KEY_REPLY", p, k))]
  /\ UNCHANGED <<procVars, disk, viewVars, crashes, restarts, seeded>>

(* handleKeyResponse up to masterKs.Write.                                 *)
HandleKeyResponse(n, m) ==
  /\ Consume(n, m)
  /\ sealing' = [sealing EXCEPT ![n] = m.key]
  /\ UNCHANGED <<status, main, asking, disk, jobs, viewVars, boundVars, seeded>>
=============================================================================
