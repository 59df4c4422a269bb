---------------------------- MODULE RelaySession ---------------------------
(***************************************************************************)
(* RelayTx with either of two peers.  One follows the protocol, as the     *)
(* Bitcoin Inquisition node the program relays to does: it answers a       *)
(* version with its own and a verack, takes announcements after the        *)
(* client's verack, asks for a transaction it does not have, and pings.    *)
(* The node is external: it is modelled from what relay.go expects of it.  *)
(* The other is a stranger, who sends anything at any time.                *)
(***************************************************************************)
EXTENDS RelayTx, SequencesExt

VARIABLES
    patient,    \* no deadline passes and nobody hangs up during this session
    peer,       \* "stranger"; or the node: "fresh", "greeted" (version and
                \* verack sent), "ready"
    has,        \* the node has the claim: "not", "before" the session, "now"
    fetching,   \* it has asked for the claim
    ping,       \* the ping it has sent and not seen answered, or Nothing
    misused     \* history: the client broke the protocol

peerVars == <<patient, peer, has, fetching, ping, misused>>
sessionVars == <<vars, peerVars>>

SessionInit ==
    /\ Init
    /\ patient \in BOOLEAN
    /\ peer \in {"stranger", "fresh"}
    /\ has \in {"not", "before"}
    /\ peer = "stranger" => ~patient /\ has = "not"
    /\ fetching = FALSE
    /\ ping = Nothing
    /\ misused = FALSE

(***************************************************************************)
(* The node                                                                *)
(***************************************************************************)

\* The node takes the next message and answers with "replies".
Handles(m, replies) ==
    /\ peer # "stranger"
    /\ toPeer # <<>>
    /\ m = Head(toPeer)
    /\ open
    /\ Len(toClient) + Len(replies) <= Buffer
    /\ toPeer' = Tail(toPeer)
    /\ toClient' = toClient \o replies
    /\ UNCHANGED <<client, listenAfterTx, left, open, history>>

PeerGetsVersion ==
    /\ Handles(Plain("version"), <<Plain("version"), Plain("verack")>>)
    /\ peer' = "greeted"
    /\ misused' = (misused \/ peer # "fresh")
    /\ UNCHANGED <<patient, has, fetching, ping>>

PeerGetsVerAck ==
    /\ Handles(Plain("verack"), <<>>)
    /\ peer' = "ready"
    /\ misused' = (misused \/ peer # "greeted")
    /\ UNCHANGED <<patient, has, fetching, ping>>

\* A claim the node already has is not asked for.
PeerGetsInv ==
    /\ Handles(Plain("inv"), IF has = "not" THEN <<Plain("getdata")>> ELSE <<>>)
    /\ fetching' = (has = "not")
    /\ misused' = (misused \/ peer # "ready")
    /\ UNCHANGED <<patient, peer, has, ping>>

PeerGetsTx ==
    /\ Handles(Plain("tx"), <<>>)
    /\ has' = IF has = "before" THEN has ELSE "now"
    /\ fetching' = FALSE
    /\ misused' = (misused \/ ~fetching)
    /\ UNCHANGED <<patient, peer, ping>>

PeerGetsPong ==
    \E n \in PingNonces :
        /\ Handles(Pong(n), <<>>)
        /\ ping' = Nothing
        /\ misused' = (misused \/ ping # Ping(n))
        /\ UNCHANGED <<patient, peer, has, fetching>>

PeerHandles ==
    PeerGetsVersion \/ PeerGetsVerAck \/ PeerGetsInv \/ PeerGetsTx \/ PeerGetsPong

\* One ping at a time, once the handshake is over.
PeerPings ==
    \E n \in PingNonces :
        /\ peer = "ready"
        /\ ping = Nothing
        /\ PeerSends(Ping(n))
        /\ ping' = Ping(n)
        /\ UNCHANGED <<patient, peer, has, fetching, misused>>

\* Feature messages and announcements that the client passes over.
PeerChats ==
    /\ peer = "ready"
    /\ PeerSends(Plain("other"))
    /\ UNCHANGED peerVars

Node == PeerHandles \/ PeerPings \/ PeerChats

\* The stranger: any message, or none, and it may stop reading.
Stranger ==
    /\ peer = "stranger"
    /\ PeerReads \/ \E m \in FromPeer : PeerSends(m)
    /\ UNCHANGED peerVars

ClientRuns == Client /\ UNCHANGED peerVars

TimePasses == ~patient /\ Tick /\ UNCHANGED peerVars

\* The connection is refused, or the peer closes it.
Disconnects == ~patient /\ (DialFails \/ PeerCloses) /\ UNCHANGED peerVars

SessionNext == ClientRuns \/ Node \/ Stranger \/ TimePasses \/ Disconnects

\* The client and the node run, and the clock does.  The node does not put its
\* own pings and chatter before the messages it gets for ever, although they may
\* take the room of its answers again and again: strong fairness.  Nothing makes
\* it ping or hang up, and nothing is asked of the stranger.
SessionSpec ==
    /\ SessionInit
    /\ [][SessionNext]_sessionVars
    /\ WF_sessionVars(ClientRuns)
    /\ WF_sessionVars(TimePasses)
    /\ SF_sessionVars(PeerHandles)

(***************************************************************************)
(* Properties                                                              *)
(***************************************************************************)

\* The values the variables take, the node's included.
SessionTypeOK ==
    /\ TypeOK
    /\ patient \in BOOLEAN
    /\ peer \in {"stranger", "fresh", "greeted", "ready"}
    /\ has \in {"not", "before", "now"}
    /\ fetching \in BOOLEAN
    /\ ping \in {Ping(n) : n \in PingNonces} \cup {Nothing}
    /\ misused \in BOOLEAN

\* Seen from the node, in the order in which the messages arrive: one version
\* first, then the verack, no announcement before it, no claim it did not ask
\* for, and to each ping the pong with its nonce (relay.go:79 to relay.go:158).
PeerNeverMisused == ~misused

\* RelayTx says that the claim was relayed only if a node that lacked it has got
\* it, will get it, or hung up before it read it.  A claim that the node already
\* has is never asked for, and relaying it again is no success (relay.go:128 and
\* relay.go:154).
OkMeansDelivered ==
    phase = "ok" /\ peer # "stranger" =>
        \/ has = "now"
        \/ has = "not" /\ (~open \/ Plain("tx") \in ToSet(toPeer))

\* If there is time, a node that lacks the claim gets it and the client learns
\* of it, whatever the node pings and chats meanwhile: neither side waits for
\* the other for ever (relay.go:125).
Delivered == patient /\ has = "not" => <>(has = "now" /\ phase \in {"ok", "listen"})

\* Where time passes every call ends within its deadlines, with either peer and
\* also when the node has the claim already and never asks for it (relay.go:59
\* and relay.go:128).
Returns == ~patient => <>Returned
=============================================================================
