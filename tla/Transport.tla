------------------------------ MODULE Transport ------------------------------
(***************************************************************************)
(* transport/tls.go, the receiving side: one goroutine accepts the TLS     *)
(* connections of peers and does their handshake itself, then hands them   *)
(* to memberlist, a stream by itself and a packet through a goroutine of   *)
(* its own, while Shutdown may come at any time.                           *)
(***************************************************************************)
EXTENDS Naturals, FiniteSets, Enclave

CONSTANTS
  Conns,       \* connections that peers may open
  Requests,    \* what they may send: type byte, length, and their certificates
  MaxErrors,   \* bound on the transient errors of Accept
  NoConn       \* the listener holds no connection

ASSUME ConnsAssumption == NoConn \notin Conns /\ MaxErrors \in Nat

VARIABLES
  peer,        \* what the peer has done with each connection
  sent,        \* what it means to send on it
  accepted,    \* connections that Accept returned
  closed,      \* connections that were closed on this side
  lpc, cur,    \* tcpListen: where it is, and its connection
  errors,      \* transient errors of Accept so far
  ingest,      \* connections in IngestPacket, and how far
  wg,          \* NetTransport.wg
  shut,        \* how far Shutdown is
  packets,     \* received by memberlist from packetCh
  streams      \* received by memberlist from streamCh

peers == <<peer, sent>>
listener == <<lpc, cur, errors, accepted>>
vars == <<peers, listener, closed, ingest, wg, shut, packets, streams>>

Init ==
  /\ peer = [c \in Conns |-> "idle"]
  /\ sent \in [Conns -> Requests]
  /\ accepted = {} /\ closed = {}
  /\ lpc = "bind" /\ cur = NoConn /\ errors = 0
  /\ ingest = [c \in {} |-> "copy"]
  /\ wg = 0
  /\ shut = "no"
  /\ packets = {} /\ streams = {}

Listening == lpc # "bind" /\ shut \in {"no", "flagged"}
Ingesting == DOMAIN ingest
-----------------------------------------------------------------------------
(* NewNetTransport: the listener is started once its address is bound.  A  *)
(* transport that cannot bind is shut down at once, before anything waits. *)
NewNetTransport ==
  /\ lpc = "bind"
  /\ lpc' = "accept" /\ wg' = wg + 1
  /\ UNCHANGED <<peers, cur, errors, accepted, closed, ingest, shut, packets, streams>>

BindFails ==
  /\ lpc = "bind"
  /\ lpc' = "returned" /\ shut' = "returned"
  /\ UNCHANGED <<peers, cur, errors, accepted, closed, ingest, wg, packets, streams>>
-----------------------------------------------------------------------------
(* The peer: WriteToAddress and DialAddressTimeout.  It writes as soon as  *)
(* its own half of the handshake is done, which tells it nothing of what   *)
(* this side makes of its certificate; it may time out or die before.      *)
PeerGoes(c, from, to) ==
  /\ peer[c] = from
  /\ peer' = [peer EXCEPT ![c] = to]
  /\ UNCHANGED <<sent, listener, closed, ingest, wg, shut, packets, streams>>

Dial(c) == Listening /\ PeerGoes(c, "idle", "dialed")
PeerShakes(c) == lpc = "handshake" /\ cur = c /\ PeerGoes(c, "dialed", "shaken")
PeerWrites(c) == PeerGoes(c, "shaken", "written")
PeerBreaks(c) == sent[c].type = "packet" /\ PeerGoes(c, "shaken", "broken")
PeerLeaves(c) == PeerGoes(c, "dialed", "gone") \/ PeerGoes(c, "shaken", "hung")

Peer(c) == PeerShakes(c) \/ PeerWrites(c) \/ PeerBreaks(c) \/ PeerLeaves(c)
-----------------------------------------------------------------------------
(* tcpListen.                                                              *)
Accept(c) ==
  /\ lpc = "accept" /\ Listening
  /\ peer[c] # "idle" /\ c \notin accepted
  /\ accepted' = accepted \cup {c}
  /\ cur' = c /\ lpc' = "handshake"
  /\ UNCHANGED <<peers, errors, closed, ingest, wg, shut, packets, streams>>

(* Mutant: the loop goes on whatever Shutdown has set.                     *)
AcceptErrorIgnored ==
  /\ lpc' = "delay" /\ UNCHANGED wg

(* The listener returns once Shutdown was called, and else tries again     *)
(* after a delay.                                                          *)
AcceptError ==
  IF shut = "no"
  THEN lpc' = "delay" /\ UNCHANGED wg
  ELSE lpc' = "returned" /\ wg' = wg - 1

AcceptFails ==
  /\ lpc = "accept"
  /\ \/ ~Listening /\ UNCHANGED errors
     \/ Listening /\ errors < MaxErrors /\ errors' = errors + 1
  /\ AcceptError
  /\ UNCHANGED <<peers, cur, accepted, closed, ingest, shut, packets, streams>>

DelayOver ==
  /\ lpc = "delay" /\ lpc' = "accept"
  /\ UNCHANGED <<peers, cur, errors, accepted, closed, ingest, wg, shut, packets, streams>>

(* A failed handshake closes the connection and goes on to read from it.   *)
Handshake ==
  /\ lpc = "handshake" /\ peer[cur] # "dialed"
  /\ lpc' = "type"
  /\ closed' = IF peer[cur] # "gone" /\ CertVerifier(sent[cur].certs) THEN closed ELSE closed \cup {cur}
  /\ UNCHANGED <<peers, cur, errors, accepted, ingest, wg, shut, packets, streams>>

(* The listener is done with its connection.                               *)
NextConn == lpc' = "accept" /\ cur' = NoConn

(* Mutant: a connection without a type byte is not closed.                 *)
TypeMissingUnclosed ==
  /\ lpc = "type" /\ (cur \in closed \/ peer[cur] = "hung")
  /\ NextConn
  /\ UNCHANGED <<peers, errors, accepted, closed, ingest, wg, shut, packets, streams>>

TypeMissing ==
  /\ lpc = "type" /\ (cur \in closed \/ peer[cur] = "hung")
  /\ closed' = closed \cup {cur}
  /\ NextConn
  /\ UNCHANGED <<peers, errors, accepted, ingest, wg, shut, packets, streams>>

TypeRead == lpc = "type" /\ cur \notin closed /\ peer[cur] \in {"written", "broken"}

(* Mutant: the goroutine is not counted (go instead of wg.Go).             *)
RoutePacketUncounted ==
  /\ TypeRead /\ sent[cur].type = "packet"
  /\ ingest' = [c \in Ingesting \cup {cur} |-> IF c = cur THEN "copy" ELSE ingest[c]]
  /\ NextConn
  /\ UNCHANGED <<peers, errors, accepted, closed, wg, shut, packets, streams>>

RoutePacket ==
  /\ TypeRead /\ sent[cur].type = "packet"
  /\ ingest' = [c \in Ingesting \cup {cur} |-> IF c = cur THEN "copy" ELSE ingest[c]]
  /\ wg' = wg + 1
  /\ NextConn
  /\ UNCHANGED <<peers, errors, accepted, closed, shut, packets, streams>>

(* streamCh has no buffer: the listener waits for memberlist.              *)
RouteStream ==
  /\ TypeRead /\ sent[cur].type = "stream"
  /\ streams' = streams \cup {cur}
  /\ NextConn
  /\ UNCHANGED <<peers, errors, accepted, closed, ingest, wg, shut, packets>>

RouteUnknown ==
  /\ TypeRead /\ sent[cur].type = "other"
  /\ closed' = closed \cup {cur}
  /\ NextConn
  /\ UNCHANGED <<peers, errors, accepted, ingest, wg, shut, packets, streams>>

Listen ==
  \/ AcceptFails \/ DelayOver \/ Handshake \/ TypeMissing
  \/ RoutePacket \/ RouteStream \/ RouteUnknown
  \/ \E c \in Conns : Accept(c)
-----------------------------------------------------------------------------
(* Mutant: an IngestPacket that ends is not counted out.                   *)
IngestEndsUncounted(c) ==
  /\ ingest' = [d \in Ingesting \ {c} |-> ingest[d]]
  /\ closed' = closed \cup {c}
  /\ UNCHANGED wg

(* IngestPacket, in its own goroutine: it reads to the end ...             *)
IngestEnds(c) ==
  /\ ingest' = [d \in Ingesting \ {c} |-> ingest[d]]
  /\ closed' = closed \cup {c}
  /\ wg' = wg - 1

(* Mutant: a packet of one byte is too short.                              *)
TooShortByOne(c) == sent[c].length < 2

TooShort(c) == sent[c].length < 1

CopyFails(c) ==
  /\ c \in Ingesting /\ ingest[c] = "copy"
  /\ peer[c] = "broken" \/ TooShort(c)
  /\ IngestEnds(c)
  /\ UNCHANGED <<peers, listener, shut, packets, streams>>

Copy(c) ==
  /\ c \in Ingesting /\ ingest[c] = "copy"
  /\ peer[c] # "broken" /\ ~TooShort(c)
  /\ ingest' = [ingest EXCEPT ![c] = "inject"]
  /\ UNCHANGED <<peers, listener, closed, wg, shut, packets, streams>>

(* ... and waits for memberlist to receive from packetCh.                  *)
Inject(c) ==
  /\ c \in Ingesting /\ ingest[c] = "inject"
  /\ packets' = packets \cup {c}
  /\ IngestEnds(c)
  /\ UNCHANGED <<peers, listener, shut, streams>>

IngestPacket(c) == CopyFails(c) \/ Copy(c) \/ Inject(c)
-----------------------------------------------------------------------------
ShutdownGoes(from, to) ==
  /\ shut = from /\ shut' = to
  /\ UNCHANGED <<peers, listener, closed, ingest, wg, packets, streams>>

SetShutdown == lpc # "bind" /\ ShutdownGoes("no", "flagged")
CloseListeners == ShutdownGoes("flagged", "waiting")
Waited == wg = 0 /\ ShutdownGoes("waiting", "returned")

Next ==
  \/ NewNetTransport \/ BindFails \/ Listen
  \/ \E c \in Conns : Dial(c) \/ Peer(c) \/ IngestPacket(c)
  \/ SetShutdown \/ CloseListeners \/ Waited

Spec == Init /\ [][Next]_vars

(* The goroutines are scheduled, memberlist receives from both channels    *)
(* until Shutdown has returned, and a peer goes on or leaves: it dials     *)
(* with a timeout, and keep-alives end the connection of a dead one.       *)
LiveSpec ==
  /\ Spec
  /\ WF_vars(Listen) /\ WF_vars(CloseListeners) /\ WF_vars(Waited)
  /\ \A c \in Conns : WF_vars(Peer(c)) /\ WF_vars(IngestPacket(c))
-----------------------------------------------------------------------------
(* The key the peer proved to hold is that of an enclave of this cluster.  *)
Attested(c) ==
  LET cert == Head(sent[c].certs)
      report == Head(cert.reports)
  IN /\ sent[c].certs # <<>> /\ cert.reports # <<>>
     /\ report.genuine /\ report.data = cert.key
     /\ VerifyReport(report.enclave)

(* What memberlist is handed comes from a peer whose handshake succeeded,  *)
(* though tcpListen marks a connection accepted after a failed handshake   *)
(* too and goes on to read its type byte: the key the peer proved to hold  *)
(* is one that an enclave of this cluster reported.                        *)
RoutedVerified == \A c \in packets \cup streams \cup Ingesting : Attested(c)

(* Every connection that was accepted is closed, handed to memberlist or   *)
(* still in the hands of one goroutine: no path through tcpListen and      *)
(* IngestPacket leaves one open.                                           *)
NoneLeaked == accepted \subseteq closed \cup streams \cup Ingesting \cup {cur}

(* Once Shutdown has returned no goroutine of the transport is left that   *)
(* would send on packetCh or streamCh, which memberlist no longer reads.   *)
QuietAfterShutdown == shut = "returned" => lpc = "returned" /\ Ingesting = {}

(* Shutdown returns: the listener and every IngestPacket come to an end.   *)
ShutdownReturns == shut = "flagged" ~> shut = "returned"

(* A packet that a verified peer has written is received by memberlist,    *)
(* even when Shutdown was called in between.                               *)
PacketsArrive ==
  \A c \in Conns :
    (/\ peer[c] = "written" /\ CertVerifier(sent[c].certs)
     /\ sent[c].type = "packet" /\ sent[c].length > 0) ~> c \in packets
-----------------------------------------------------------------------------
(* What every step preserves: wg counts the listener and the goroutines of *)
(* IngestPacket, and a connection whose handshake failed is closed before  *)
(* its type byte is read.                                                  *)
TransportInv ==
  /\ lpc \in {"bind", "accept", "delay", "handshake", "type", "returned"}
  /\ shut \in {"no", "flagged", "waiting", "returned"}
  /\ lpc = "bind" => shut = "no" /\ Ingesting = {}
  /\ cur \in (IF lpc \in {"handshake", "type"} THEN accepted \ Ingesting ELSE {NoConn})
  /\ accepted \subseteq Conns /\ Ingesting \subseteq accepted
  /\ IsFiniteSet(Ingesting)
  /\ wg = Cardinality(Ingesting) + (IF lpc \in {"bind", "returned"} THEN 0 ELSE 1)
  /\ lpc = "type" => cur \in closed \/ CertVerifier(sent[cur].certs)
  /\ \A c \in packets \cup streams \cup Ingesting : CertVerifier(sent[c].certs)
  /\ NoneLeaked /\ QuietAfterShutdown
=============================================================================
