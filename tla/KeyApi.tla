-------------------------------- MODULE KeyApi --------------------------------
(***************************************************************************)
(* The key server with its journal: a finalize request that was let        *)
(* through verification logs its outcome, in a goroutine that nobody waits *)
(* for, and answers.                                                       *)
(***************************************************************************)
EXTENDS KeyServer, Journal

apiVars == <<vars, journalVars>>

ApiInit == Init /\ JournalInit

(* journalKeyRequest: after the session is gone, and before the answer.    *)
JournaledStep(h) ==
  \/ KeyRequestSucceeds(h) /\ LogJournal(session[h], "key_request", "SUCCESS")
  \/ KeyRequestFails(h) /\ LogJournal(session[h], "key_request", "FAIL")

(* journalSealRequest, which has no quote to record.                       *)
JournaledSeal(h) ==
  \/ SealPayload(h) /\ LogJournal(session[h], "tdx_seal", "SUCCESS")
  \/ SealFails(h) /\ LogJournal(session[h], "tdx_seal", "FAIL")

ApiNext ==
  \/ \E s \in Sessions : InitStep(s) /\ UNCHANGED journalVars
  \/ \E h \in Handlers : \/ RequestStep(h) /\ UNCHANGED journalVars
                        \/ JournaledStep(h) \/ JournaledSeal(h)
  \/ JournalStep /\ UNCHANGED vars

ApiSpec == ApiInit /\ [][ApiNext]_apiVars
-----------------------------------------------------------------------------
(* A record that tells of a key request that succeeded is about a session  *)
(* a key was issued for, though the writes of several requests of one      *)
(* session overwrite each other's record in any order.                     *)
JournaledKeysIssued ==
  \A s \in Sessions :
    entry[s] = [type |-> "key_request", status |-> "SUCCESS"] => s \in served

(* No issued key is missing from the journal unless a write of its session *)
(* failed: the record, the quote and the marker are there, or a write is   *)
(* under way that still has the marker to upload.  The client may have     *)
(* got its key long before, and the session's record may be gone.          *)
IssuedKeysJournaled ==
  \A s \in served \ aborted :
    \/ entry[s] # None /\ s \in quoted /\ <<stamp[s], "key_request">> \in markers
    \/ \E w \in BagToSet(writes) : w.session = s /\ w.type = "key_request"
-----------------------------------------------------------------------------
(* A write that tells of an issued key was started by the request that     *)
(* issued it.                                                              *)
JournalTold ==
  /\ JournaledKeysIssued /\ IssuedKeysJournaled
  /\ \A w \in BagToSet(writes) :
       Entry(w) = [type |-> "key_request", status |-> "SUCCESS"] => w.session \in served

(* What every step of the server with its journal preserves: the three     *)
(* properties need what the writes under way have uploaded, and which keys *)
(* they tell of, while requests end and writes fail in any order.          *)
ApiInv == ServerInv /\ JournalInv /\ JournalTold
=============================================================================
