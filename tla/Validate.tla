------------------------------ MODULE Validate ------------------------------
(***************************************************************************)
(* validate.go: a node that is not a seed node and finds a key on disk     *)
(* checks it against a READY peer by challenge and response.               *)
(***************************************************************************)
EXTENDS ClusterBase

(* Mutant: VALIDATING is set again when the wait is over.                  *)
FindValidatorsAgain(n, providers) ==
  /\ status[n] # "NO_KEY" /\ main[n] = "wait"
  /\ providers # {} /\ providers \subseteq wasReady \ {n}
  /\ SetStatus(n, "VALIDATING")
  /\ main' = [main EXCEPT ![n] = "validate"]
  /\ asking' = [asking EXCEPT ![n] = providers]
  /\ UNCHANGED <<disk, sealing, jobs, net, booted, boundVars, seeded>>

(* The wait loop of validatingExistingKey ends with a member list in which *)
(* providers are READY (the node may be READY itself by then: an answer to *)
(* a challenge of its previous life is as good as one to this one's).      *)
FindValidators(n, providers) ==
  /\ status[n] # "NO_KEY" /\ main[n] = "wait"
  /\ providers # {} /\ providers \subseteq wasReady \ {n}
  /\ main' = [main EXCEPT ![n] = "validate"]
  /\ asking' = [asking EXCEPT ![n] = providers]
  /\ UNCHANGED <<status, disk, sealing, jobs, net, viewVars, boundVars, seeded>>

(* The goroutine tries the READY members in turn until one send succeeds.  *)
SendChallenge(n, m) ==
  /\ main[n] = "validate" /\ m \in asking[n]
  /\ Send(m, Msg("CHALLENGE", n, NoKey))
  /\ asking' = [asking EXCEPT ![n] = {}]
  /\ UNCHANGED <<status, main, sealing, disk, jobs, viewVars, crashes, restarts, seeded>>

(* A member is passed over when the send fails, or when it has restarted   *)
(* and no longer says READY.                                               *)
PassOver(n, m) ==
  /\ main[n] = "validate" /\ m \in asking[n]
  /\ \/ SendFails(m)
     \/ Up(m) /\ status[m] # "READY" /\ UNCHANGED <<net, failures>>
  /\ asking' = [asking EXCEPT ![n] = @ \ {m}]
  /\ UNCHANGED <<status, main, sealing, disk, jobs, viewVars, crashes, restarts, seeded>>

(* handleKeyChallengeRequest: the answer is sealed under the local key.    *)
HandleKeyChallengeRequest(n, m) ==
  /\ Consume(n, m)
  /\ jobs' = [jobs EXCEPT ![n] = Put(@, Go("CHALLENGE_REPLY", m.from, disk[n]))]
  /\ UNCHANGED <<procVars, disk, viewVars, boundVars, seeded>>

(* The goroutine sends until a send succeeds, but err keeps the value of a *)
(* failed send, and the loop sends only while err is nil: after one        *)
(* failure it loops without ever sending again.                            *)
SendChallengeReply(n, p, k) ==
  /\ BagIn(Go("CHALLENGE_REPLY", p, k), jobs[n])
  /\ \/ /\ Send(p, Msg("CHALLENGE_RESP", n, k))
        /\ jobs' = [jobs EXCEPT ![n] = Take(@, Go("CHALLENGE_REPLY", p, k))]
     \/ /\ SendFails(p)
        /\ jobs' = [jobs EXCEPT ![n] = Put(Take(@, Go("CHALLENGE_REPLY", p, k)),
                                           Go("STUCK_REPLY", p, k))]
  /\ UNCHANGED <<procVars, disk, viewVars, crashes, restarts, seeded>>

(* Mutant: the answer is not compared.                                     *)
HandleAnyResponse(n, m) ==
  /\ Consume(n, m)
  /\ SetStatus(n, "READY")
  /\ UNCHANGED <<main, sealing, asking, disk, jobs, booted, boundVars, seeded>>

(* Unsealing succeeds, and gives the challenger's id back, only under the  *)
(* key that sealed it.                                                     *)
HandleKeyChallengeResponse(n, m) ==
  /\ m.key = disk[n]
  /\ Consume(n, m)
  /\ SetStatus(n, "READY")
  /\ UNCHANGED <<main, sealing, asking, disk, jobs, booted, boundVars, seeded>>

(* Otherwise the handler panics.                                           *)
ChallengeRejected(n, m) == m.key # disk[n]
=============================================================================
