------------------------------- MODULE Journal -------------------------------
(***************************************************************************)
(* The S3 journal (providers/journal/s3.go) as the key server uses it.     *)
(* Each outcome is written by a goroutine of its own, one object after the *)
(* other: the record, for a key request the quote, and last the marker     *)
(* that makes the record found.  Record and quote are named after the      *)
(* session; the marker after the millisecond the session was created in,   *)
(* and the type of the request (all requests are for one id).  An object   *)
(* that exists is overwritten.                                             *)
(***************************************************************************)
EXTENDS WebSessions, Naturals, Sequences, FiniteSets, Bags

CONSTANTS
  Milliseconds, \* in which sessions may be created
  MaxOutcomes,  \* bound on the outcomes that are logged
  MaxAborts     \* bound on sessions of which a write is aborted

VARIABLES
  stamp,        \* the millisecond in each session's id
  writes,       \* bag of the writes under way, with what they still upload
  entry,        \* journal.json of each session, None when there is none
  quoted,       \* sessions with a quote.b64
  markers,      \* the markers, as <<millisecond, type>>
  aborted,      \* history: sessions of which a write ended early
  logged        \* outcomes logged so far

bucketVars == <<entry, quoted, markers>>
journalVars == <<stamp, writes, bucketVars, aborted, logged>>

RequestType == {"key_request", "tdx_seal"}
Status == {"SUCCESS", "FAIL"}

ASSUME JournalAssumption == None \notin [type : RequestType, status : Status]

JournalInit ==
  /\ stamp \in [Sessions -> Milliseconds]
  /\ writes = EmptyBag
  /\ entry = [s \in Sessions |-> None] /\ quoted = {} /\ markers = {}
  /\ aborted = {} /\ logged = 0

(* Mutant: the marker is written first.                                    *)
MarkerFirst(type) ==
  IF type = "key_request" THEN <<"marker", "entry", "quote">> ELSE <<"marker", "entry">>

(* Mutant: a key request leaves no marker.                                 *)
Unmarked(type) ==
  IF type = "key_request" THEN <<"entry", "quote">> ELSE <<"entry", "marker">>

(* What Write uploads, in this order.                                      *)
Artifacts(type) ==
  IF type = "key_request" THEN <<"entry", "quote", "marker">> ELSE <<"entry", "marker">>

(* Mutant: every request is journaled as a success.                        *)
LogSuccess(s, type, status) ==
  /\ logged < MaxOutcomes /\ logged' = logged + 1
  /\ writes' = writes (+) SetToBag({[session |-> s, type |-> type, status |-> "SUCCESS",
                                     todo |-> Artifacts(type)]})
  /\ UNCHANGED <<stamp, bucketVars, aborted>>

LogJournal(s, type, status) ==
  /\ logged < MaxOutcomes /\ logged' = logged + 1
  /\ writes' = writes (+) SetToBag({[session |-> s, type |-> type, status |-> status,
                                     todo |-> Artifacts(type)]})
  /\ UNCHANGED <<stamp, bucketVars, aborted>>

(* What journal.json says of a request, and the marker's name.             *)
Entry(w) == [type |-> w.type, status |-> w.status]
Marker(w) == <<stamp[w.session], w.type>>

(* The next object of a write is stored.                                   *)
Upload(w) ==
  \/ /\ Head(w.todo) = "entry"
     /\ entry' = [entry EXCEPT ![w.session] = Entry(w)]
     /\ UNCHANGED <<quoted, markers>>
  \/ /\ Head(w.todo) = "quote"
     /\ quoted' = quoted \cup {w.session}
     /\ UNCHANGED <<entry, markers>>
  \/ /\ Head(w.todo) = "marker"
     /\ markers' = markers \cup {Marker(w)}
     /\ UNCHANGED <<entry, quoted>>

(* The write goes on with the next object, or is done.                     *)
WriteObject(w) ==
  /\ Upload(w)
  /\ LET left == writes (-) SetToBag({w})
     IN  writes' = IF Len(w.todo) = 1 THEN left
                   ELSE left (+) SetToBag({[w EXCEPT !.todo = Tail(@)]})
  /\ UNCHANGED <<stamp, aborted, logged>>

(* An upload that fails ends the write, as does the end of the process;    *)
(* the object may be stored all the same.                                  *)
WriteAborts(w) ==
  /\ Cardinality(aborted) < MaxAborts
  /\ Upload(w) \/ UNCHANGED bucketVars
  /\ writes' = writes (-) SetToBag({w})
  /\ aborted' = aborted \cup {w.session}
  /\ UNCHANGED <<stamp, logged>>

JournalStep == \E w \in BagToSet(writes) : WriteObject(w) \/ WriteAborts(w)
-----------------------------------------------------------------------------
(* Whoever follows a marker finds a record written by a request of a       *)
(* session of that millisecond, and the quote of a key request, whatever   *)
(* uploads failed and however the writes of several requests interleave    *)
(* ("a marker never points at a missing record", s3.go).                   *)
MarkerHasRecord ==
  \A m \in markers : \E s \in Sessions :
    /\ stamp[s] = m[1] /\ entry[s] # None
    /\ m[2] = "key_request" => s \in quoted
-----------------------------------------------------------------------------
(* What a write may still have to upload.                                  *)
Left(type) ==
  IF type = "key_request"
  THEN {<<"entry", "quote", "marker">>, <<"quote", "marker">>, <<"marker">>}
  ELSE {<<"entry", "marker">>, <<"marker">>}

Write == [session : Sessions, type : RequestType, status : Status,
          todo : UNION {Left(type) : type \in RequestType}]

(* What a write has uploaded is in the bucket.                             *)
Uploaded(w) ==
  /\ Head(w.todo) # "entry" => entry[w.session] # None
  /\ w.type = "key_request" /\ w.todo = <<"marker">> => w.session \in quoted

(* Every write under way has uploaded what comes before the rest of it.    *)
JournalInv ==
  /\ stamp \in [Sessions -> Milliseconds]
  /\ entry \in [Sessions -> [type : RequestType, status : Status] \cup {None}]
  /\ IsABag(writes)
  /\ \A w \in BagToSet(writes) : w \in Write /\ w.todo \in Left(w.type) /\ Uploaded(w)
  /\ MarkerHasRecord
=============================================================================
