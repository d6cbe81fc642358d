------------------------------ MODULE CertLock ------------------------------
(***************************************************************************)
(* cert_storage.go on valkey.go: the nodes share one Valkey key as the     *)
(* lock under which certmagic obtains a certificate.  Each command is one  *)
(* atomic step of Valkey; WriteNX is three of them and Unlock is two.      *)
(***************************************************************************)
EXTENDS Naturals

CONSTANTS
  Threads,     \* goroutines that manage the certificate
  NodeOf,      \* the node id each of them writes into the lock
  None,        \* no data, no certificate
  MaxCrashes,  \* bound on crashes
  MaxFailures  \* bound on failing commands and cancelled contexts

ASSUME ThreadsAssumption == None \notin Threads /\ None \notin {NodeOf[t] : t \in Threads}
ASSUME LimitsAssumption == MaxCrashes \in Nat /\ MaxFailures \in Nat

VARIABLES
  pc,        \* the next command of each thread
  data,      \* the "data" field of the lock's key: a node id or None
  meta,      \* are its "size" and "modtime" fields there?
  ttl,       \* does the key expire?
  holder,    \* history: the thread whose HSETNX wrote data
  cert,      \* the stored certificate: the thread that obtained it, or None
  overran,   \* history: has an owner outlived its lock's 300 seconds?
  stranded,  \* history: has a Lock ended after its HSETNX without an expiry?
  crashes, failures

keyVars == <<data, meta, ttl, holder>>
historyVars == <<overran, stranded>>
lockVars == <<pc, keyVars, cert, historyVars, crashes, failures>>

(* A thread has the lock from its HSETNX to its DEL.                       *)
Critical == {"hset", "expire", "check", "store", "load", "del"}
Pc == Critical \cup {"idle", "hsetnx", "done"}

LockInit ==
  /\ pc = [t \in Threads |-> "idle"]
  /\ data = None /\ meta = FALSE /\ ttl = FALSE /\ holder = None
  /\ cert = None
  /\ overran = FALSE /\ stranded = FALSE
  /\ crashes = 0 /\ failures = 0

Goto(t, l) == pc' = [pc EXCEPT ![t] = l]

(* The key is gone: DEL, or its time is over.                              *)
KeyRemoved == data' = None /\ meta' = FALSE /\ ttl' = FALSE /\ holder' = None

(* ManageSync takes the lock unless the certificate is stored; an error    *)
(* brings it back here (Setup retries).                                    *)
Manage(t) ==
  /\ pc[t] = "idle"
  /\ Goto(t, IF cert = None THEN "hsetnx" ELSE "done")
  /\ UNCHANGED <<keyVars, cert, historyVars, crashes, failures>>
-----------------------------------------------------------------------------
(* Mutant: HSET in place of HSETNX.                                        *)
AcquireAlways(t) ==
  /\ pc[t] = "hsetnx"
  /\ data' = NodeOf[t] /\ holder' = t
  /\ Goto(t, "hset")
  /\ UNCHANGED <<meta, ttl, cert, historyVars, crashes, failures>>

(* Lock: HSETNX succeeds only when there is no data field; until then Lock *)
(* polls.                                                                  *)
Acquire(t) ==
  /\ pc[t] = "hsetnx" /\ data = None
  /\ data' = NodeOf[t] /\ holder' = t
  /\ Goto(t, "hset")
  /\ UNCHANGED <<meta, ttl, cert, historyVars, crashes, failures>>

Describe(t) ==
  /\ pc[t] = "hset"
  /\ meta' = TRUE
  /\ Goto(t, "expire")
  /\ UNCHANGED <<data, ttl, holder, cert, historyVars, crashes, failures>>

(* Mutant: the key is left without an expiry.                              *)
SetNoExpiry(t) ==
  /\ pc[t] = "expire"
  /\ Goto(t, "check")
  /\ UNCHANGED <<keyVars, cert, historyVars, crashes, failures>>

(* EXPIRE does nothing to a key that is not there.                         *)
SetExpiry(t) ==
  /\ pc[t] = "expire"
  /\ ttl' = (data # None \/ meta)
  /\ Goto(t, "check")
  /\ UNCHANGED <<data, meta, holder, cert, historyVars, crashes, failures>>

(* Lock returns ctx.Err() to a caller that waits.                          *)
Cancel(t) ==
  /\ pc[t] = "hsetnx" /\ data # None /\ failures < MaxFailures
  /\ failures' = failures + 1
  /\ Goto(t, "idle")
  /\ UNCHANGED <<keyVars, cert, historyVars, crashes>>
-----------------------------------------------------------------------------
(* Under the lock certmagic looks for the certificate again and obtains    *)
(* one if there is none.                                                   *)
Check(t) ==
  /\ pc[t] = "check"
  /\ Goto(t, IF cert = None THEN "store" ELSE "load")
  /\ UNCHANGED <<keyVars, cert, historyVars, crashes, failures>>

Store(t) ==
  /\ pc[t] = "store"
  /\ cert' = t
  /\ Goto(t, "load")
  /\ UNCHANGED <<keyVars, historyVars, crashes, failures>>

(* Unlock loads the lock, compares the node id and then deletes the key.   *)
UnlockLoad(t) ==
  /\ pc[t] = "load"
  /\ Goto(t, IF data = NodeOf[t] THEN "del" ELSE "idle")
  /\ UNCHANGED <<keyVars, cert, historyVars, crashes, failures>>

UnlockDelete(t) ==
  /\ pc[t] = "del"
  /\ KeyRemoved
  /\ Goto(t, "idle")
  /\ UNCHANGED <<cert, historyVars, crashes, failures>>
-----------------------------------------------------------------------------
(* The key's time is over, perhaps before its owner is done.               *)
Lapse ==
  /\ ttl
  /\ overran' = (overran \/ \E t \in Threads : holder = t /\ pc[t] \in Critical)
  /\ KeyRemoved
  /\ UNCHANGED <<pc, cert, stranded, crashes, failures>>

(* A command fails, whether or not Valkey has executed it.  An error of    *)
(* any command of WriteNX makes Lock return it, and the key stays; Unlock  *)
(* returns that of its load and ignores that of its DEL; a failed Store    *)
(* still unlocks.                                                          *)
CommandFails(t) ==
  /\ pc[t] \notin {"idle", "done"} /\ failures < MaxFailures
  /\ failures' = failures + 1
  /\ \/ /\ pc[t] = "hsetnx" /\ data = None
        /\ data' = NodeOf[t] /\ holder' = t /\ UNCHANGED <<meta, ttl, cert>>
     \/ pc[t] = "hset" /\ meta' = TRUE /\ UNCHANGED <<data, ttl, holder, cert>>
     \/ pc[t] = "expire" /\ ttl' = TRUE /\ UNCHANGED <<data, meta, holder, cert>>
     \/ pc[t] = "store" /\ cert' = t /\ UNCHANGED keyVars
     \/ pc[t] = "del" /\ KeyRemoved /\ UNCHANGED cert
     \/ UNCHANGED <<keyVars, cert>>
  /\ stranded' = (stranded \/ (pc[t] \in {"hsetnx", "hset", "expire"} /\ holder' = t))
  /\ Goto(t, IF pc[t] = "store" THEN "load" ELSE "idle")
  /\ UNCHANGED <<overran, crashes>>

(* A node crashes with all its threads and starts again.                   *)
Crash(t) ==
  LET node == {u \in Threads : NodeOf[u] = NodeOf[t]}
  IN /\ crashes < MaxCrashes
     /\ crashes' = crashes + 1
     /\ stranded' = (stranded \/ \E u \in node : pc[u] \in {"hset", "expire"})
     /\ pc' = [u \in Threads |-> IF u \in node THEN "idle" ELSE pc[u]]
     /\ UNCHANGED <<keyVars, cert, overran, failures>>

Step(t) ==
  \/ Manage(t) \/ Acquire(t) \/ Describe(t) \/ SetExpiry(t)
  \/ Check(t) \/ Store(t) \/ UnlockLoad(t) \/ UnlockDelete(t)

LockNext == Lapse \/ \E t \in Threads : Step(t) \/ Cancel(t) \/ CommandFails(t) \/ Crash(t)

LockSpec == LockInit /\ [][LockNext]_lockVars

(* Commands are answered, and Valkey removes a key whose time is over.     *)
LockLiveSpec == LockSpec /\ WF_lockVars(Lapse) /\ \A t \in Threads : WF_lockVars(Step(t))
-----------------------------------------------------------------------------
CertTypeOK ==
  /\ pc \in [Threads -> Pc]
  /\ data \in {NodeOf[t] : t \in Threads} \cup {None}
  /\ holder \in Threads \cup {None} /\ cert \in Threads \cup {None}
  /\ meta \in BOOLEAN /\ ttl \in BOOLEAN
  /\ overran \in BOOLEAN /\ stranded \in BOOLEAN
  /\ crashes \in 0 .. MaxCrashes /\ failures \in 0 .. MaxFailures

(* Until an owner overruns its 300 seconds, Lock lets one thread at a time *)
(* obtain a certificate, whatever commands fail and whichever nodes crash  *)
(* between the commands of WriteNX and of Unlock.                          *)
MutualExclusion ==
  \/ overran
  \/ \A t, u \in Threads : pc[t] \in Critical /\ pc[u] \in Critical => t = u

(* ... so that nobody replaces a certificate that was just obtained.       *)
CertificateKept == [][cert # None => cert' = cert \/ overran]_lockVars

(* Nobody waits in Lock for ever: every caller gets the lock, even when    *)
(* owners crash or overrun it.  "the lock carries a TTL so a crashed owner *)
(* cannot deadlock the cluster".                                           *)
LockReturns == \A t \in Threads : pc[t] = "hsetnx" ~> pc[t] # "hsetnx"

(* ... which holds unless a Lock stops between its HSETNX and its EXPIRE:  *)
(* Unlock, the TTL and Lock's polling suffice for every other crash.       *)
LockReturnsUnlessStranded ==
  \A t \in Threads : pc[t] = "hsetnx" ~> (pc[t] # "hsetnx" \/ stranded)

(* Inductive: until an owner overruns, a thread in its critical section    *)
(* created the key, the key still has its node's id, and a thread that     *)
(* found no certificate still finds none when it stores its own.           *)
Owned(t) ==
  /\ pc[t] \in Critical => holder = t /\ data = NodeOf[t]
  /\ pc[t] = "store" => cert = None

LockInv == CertTypeOK /\ (overran \/ \A t \in Threads : Owned(t))
=============================================================================
