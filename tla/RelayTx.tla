------------------------------- MODULE RelayTx -----------------------------
(***************************************************************************)
(* RelayTxWithOptions (powcoins/relay.go): the client that shakes hands    *)
(* with a peer, announces the claim, hands it over when it is asked for    *)
(* it, and may keep listening.  One goroutine reads and writes one TCP     *)
(* connection under an absolute deadline.                                  *)
(*                                                                         *)
(* The peer is external, and here it may send any message at any time,     *)
(* stop reading, or close; RelaySession adds a peer that follows the       *)
(* protocol.  A write blocks while the connection holds Buffer messages.   *)
(* Time passes in ticks.                                                   *)
(***************************************************************************)
EXTENDS Integers, Sequences

CONSTANTS
    Timeout,      \* RelayOptions.Timeout in ticks
    ListenFor,    \* the values of RelayOptions.ListenAfterTx in ticks
    PingNonces,   \* nonces of the peer's pings
    Buffer        \* messages the connection holds in each direction

ASSUME TimeoutAssumption == Timeout \in Nat \ {0}
ASSUME ListenForAssumption == ListenFor \subseteq Nat
ASSUME BufferAssumption == Buffer \in Nat \ {0}

\* The messages the client tells apart.  "getdata" asks for the claim, "other"
\* stands for the commands it ignores and for a getdata for something else,
\* "garbage" for a foreign magic, an oversized or an undecodable payload.
Plain(command) == [cmd |-> command]
Ping(n) == [cmd |-> "ping", nonce |-> n]
Pong(n) == [cmd |-> "pong", nonce |-> n]

FromPeer ==
    {Plain(c) : c \in {"version", "verack", "getdata", "other", "garbage"}}
        \cup {Ping(n) : n \in PingNonces}

FromClient ==
    {Plain(c) : c \in {"version", "verack", "inv", "tx"}} \cup {Pong(n) : n \in PingNonces}

Nothing == Plain("nothing")

VARIABLES
    phase,             \* "dial", "handshake", "wait", "send", "listen", then "ok" or "failed"
    listenAfterTx,     \* the option; 0 is "return once the claim is sent"
    versionReceived,   \* the two flags of the handshake loop
    verackReceived,
    writing,           \* the message being written, or Nothing
    left,              \* ticks to the deadline
    open,              \* the peer has not closed the connection
    toClient,          \* messages on their way
    toPeer,
    sent,              \* history: the commands written so far
    asked,             \* history: a getdata for the claim was read after the inv was written
    copies             \* history: how often the claim was written

client == <<phase, versionReceived, verackReceived, writing>>
wire == <<open, toClient, toPeer>>
history == <<sent, asked, copies>>
vars == <<client, listenAfterTx, left, wire, history>>

Init ==
    /\ phase = "dial"
    /\ listenAfterTx \in ListenFor
    /\ versionReceived = FALSE
    /\ verackReceived = FALSE
    /\ writing = Nothing
    /\ left = Timeout
    /\ open = TRUE
    /\ toClient = <<>>
    /\ toPeer = <<>>
    /\ sent = {}
    /\ asked = FALSE
    /\ copies = 0

Returned == phase \in {"ok", "failed"}

(***************************************************************************)
(* The peer and the clock                                                  *)
(***************************************************************************)

PeerSends(m) ==
    /\ phase \notin {"dial", "ok", "failed"}
    /\ open
    /\ Len(toClient) < Buffer
    /\ toClient' = Append(toClient, m)
    /\ UNCHANGED <<client, listenAfterTx, left, open, toPeer, history>>

PeerReads ==
    /\ toPeer # <<>>
    /\ toPeer' = Tail(toPeer)
    /\ UNCHANGED <<client, listenAfterTx, left, open, toClient, history>>

PeerCloses ==
    /\ phase # "dial"
    /\ open
    /\ open' = FALSE
    /\ UNCHANGED <<client, listenAfterTx, left, toClient, toPeer, history>>

Tick ==
    /\ ~Returned
    /\ left > 0
    /\ left' = left - 1
    /\ UNCHANGED <<client, listenAfterTx, wire, history>>

(***************************************************************************)
(* Connecting and writing                                                  *)
(***************************************************************************)

\* net.DialTimeout has its own timeout; the deadline is set when it is over.
Dial ==
    /\ phase = "dial"
    /\ left' = Timeout
    /\ phase' = "handshake"
    /\ writing' = Plain("version")
    /\ UNCHANGED <<listenAfterTx, versionReceived, verackReceived, wire, history>>

\* No connection, or an address that does not parse or resolve.
DialFails ==
    /\ phase = "dial"
    /\ phase' = "failed"
    /\ UNCHANGED <<listenAfterTx, versionReceived, verackReceived, writing, left, wire, history>>

\* Mutation: the deadline of the handshake is kept for the listening.
AfterTxSameDeadline ==
    /\ phase' = IF listenAfterTx > 0 THEN "listen" ELSE "ok"
    /\ UNCHANGED left

\* Mutation: the call does not return after the claim is written.
AfterTxWaits ==
    /\ phase' = IF listenAfterTx > 0 THEN "listen" ELSE "wait"
    /\ left' = IF listenAfterTx > 0 THEN listenAfterTx ELSE left

\* What follows the write of the claim.
AfterTx ==
    IF listenAfterTx > 0
    THEN phase' = "listen" /\ left' = listenAfterTx
    ELSE phase' = "ok" /\ UNCHANGED left

\* writeMessage returns: the message is in the connection.
Written ==
    /\ writing # Nothing
    /\ ~Returned
    /\ left > 0
    /\ Len(toPeer) < Buffer
    /\ toPeer' = Append(toPeer, writing)
    /\ writing' = Nothing
    /\ sent' = sent \cup {writing.cmd}
    /\ copies' = IF writing.cmd = "tx" THEN copies + 1 ELSE copies
    /\ IF phase = "send" THEN AfterTx ELSE UNCHANGED <<phase, left>>
    /\ UNCHANGED <<listenAfterTx, versionReceived, verackReceived, open, toClient, asked>>

\* The deadline passes while the write blocks, or the connection is gone.
WriteFails ==
    /\ writing # Nothing
    /\ ~Returned
    /\ left = 0 \/ ~open
    /\ phase' = "failed"
    /\ UNCHANGED <<listenAfterTx, versionReceived, verackReceived, writing, left, wire, history>>

(***************************************************************************)
(* Reading                                                                 *)
(***************************************************************************)

HandshakeOver == versionReceived /\ verackReceived

\* The client waits in readRawMessage.
Reading ==
    /\ phase \in {"handshake", "wait", "listen"}
    /\ phase = "handshake" => ~HandshakeOver
    /\ writing = Nothing

\* A whole message arrives before the deadline.
Receives(m) ==
    /\ Reading
    /\ left > 0
    /\ toClient # <<>>
    /\ m = Head(toClient)
    /\ toClient' = Tail(toClient)
    /\ UNCHANGED <<listenAfterTx, open, toPeer, sent, copies>>

\* Mutation: the version is not answered.
RecvVersionSilent ==
    /\ phase = "handshake"
    /\ Receives(Plain("version"))
    /\ versionReceived' = TRUE
    /\ UNCHANGED <<phase, verackReceived, writing, left, asked>>

\* The peer's version is answered with a verack, whether its own came or not.
RecvVersion ==
    /\ phase = "handshake"
    /\ Receives(Plain("version"))
    /\ versionReceived' = TRUE
    /\ writing' = Plain("verack")
    /\ UNCHANGED <<phase, verackReceived, left, asked>>

RecvVerAck ==
    /\ phase = "handshake"
    /\ Receives(Plain("verack"))
    /\ verackReceived' = TRUE
    /\ UNCHANGED <<phase, versionReceived, writing, left, asked>>

\* Mutation of RecvPing: each ping pushes the deadline back.
RecvPingExtends ==
    \E n \in PingNonces :
        /\ Receives(Ping(n))
        /\ writing' = Pong(n)
        /\ left' = Timeout
        /\ UNCHANGED <<phase, versionReceived, verackReceived, asked>>

\* handlePing, in all three loops.
RecvPing ==
    \E n \in PingNonces :
        /\ Receives(Ping(n))
        /\ writing' = Pong(n)
        /\ UNCHANGED <<phase, versionReceived, verackReceived, left, asked>>

\* Mutation: a getdata is served at any time.
RecvGetDataAnyTime ==
    /\ Receives(Plain("getdata"))
    /\ asked' = (asked \/ "inv" \in sent)
    /\ phase' = "send"
    /\ writing' = Plain("tx")
    /\ UNCHANGED <<versionReceived, verackReceived, left>>

\* Mutation: a getdata of the witness type, which nodes send, is not served.
RecvGetDataUnserved ==
    /\ phase = "wait"
    /\ Receives(Plain("getdata"))
    /\ asked' = TRUE
    /\ UNCHANGED <<phase, writing, versionReceived, verackReceived, left>>

\* The peer asks for the claim, with or without the witness flag.
RecvGetData ==
    /\ phase = "wait"
    /\ Receives(Plain("getdata"))
    /\ asked' = TRUE
    /\ phase' = "send"
    /\ writing' = Plain("tx")
    /\ UNCHANGED <<versionReceived, verackReceived, left>>

\* What each loop passes over.
Ignores(m) ==
    \/ m.cmd = "other"
    \/ m.cmd = "getdata" /\ phase \in {"handshake", "listen"}
    \/ m.cmd \in {"version", "verack"} /\ phase \in {"wait", "listen"}

RecvIgnored(m) ==
    /\ Ignores(m)
    /\ Receives(m)
    /\ asked' = (asked \/ (m.cmd = "getdata" /\ "inv" \in sent))
    /\ UNCHANGED <<client, left>>

\* A frame that cannot be read, or a payload that cannot be decoded.
RecvGarbage ==
    /\ Receives(Plain("garbage"))
    /\ phase' = "failed"
    /\ UNCHANGED <<versionReceived, verackReceived, writing, left, asked>>

\* Mutation: any read that times out ends the call well.
ReadTimeoutIsWell ==
    /\ Reading
    /\ left = 0
    /\ phase' = "ok"
    /\ UNCHANGED <<listenAfterTx, versionReceived, verackReceived, writing, left, wire, history>>

\* The deadline passes while the client waits: that ends the listening well.
ReadTimeout ==
    /\ Reading
    /\ left = 0
    /\ phase' = IF phase = "listen" THEN "ok" ELSE "failed"
    /\ UNCHANGED <<listenAfterTx, versionReceived, verackReceived, writing, left, wire, history>>

\* The peer has closed and everything it sent is read.
ReadEof ==
    /\ Reading
    /\ left > 0
    /\ ~open
    /\ toClient = <<>>
    /\ phase' = "failed"
    /\ UNCHANGED <<listenAfterTx, versionReceived, verackReceived, writing, left, wire, history>>

\* Mutation: the announcement waits for the peer's verack alone.
AnnounceEarly ==
    /\ phase = "handshake"
    /\ verackReceived
    /\ writing = Nothing
    /\ phase' = "wait"
    /\ writing' = Plain("inv")
    /\ UNCHANGED <<listenAfterTx, versionReceived, verackReceived, left, wire, history>>

\* The handshake is over: the claim is announced.
Announce ==
    /\ phase = "handshake"
    /\ HandshakeOver
    /\ writing = Nothing
    /\ phase' = "wait"
    /\ writing' = Plain("inv")
    /\ UNCHANGED <<listenAfterTx, versionReceived, verackReceived, left, wire, history>>

RecvAny ==
    \/ RecvVersion \/ RecvVerAck \/ RecvPing \/ RecvGetData \/ RecvGarbage
    \/ \E m \in FromPeer : RecvIgnored(m)

Client ==
    \/ Dial
    \/ Written \/ WriteFails
    \/ RecvAny \/ ReadTimeout \/ ReadEof
    \/ Announce

Next ==
    \/ Client
    \/ DialFails
    \/ \E m \in FromPeer : PeerSends(m)
    \/ PeerReads
    \/ PeerCloses
    \/ Tick

\* The client's goroutine runs and time passes; the peer does as it likes.
Spec == Init /\ [][Next]_vars /\ WF_vars(Client) /\ WF_vars(Tick)

(***************************************************************************)
(* Properties                                                              *)
(***************************************************************************)

\* The values the variables take; the listening has its own deadline
\* (relay.go:161).
TypeOK ==
    /\ phase \in {"dial", "handshake", "wait", "send", "listen", "ok", "failed"}
    /\ listenAfterTx \in ListenFor
    /\ versionReceived \in BOOLEAN
    /\ verackReceived \in BOOLEAN
    /\ writing \in FromClient \cup {Nothing}
    /\ left \in Nat
    /\ phase = "listen" => left <= listenAfterTx
    /\ open \in BOOLEAN
    /\ toClient \in Seq(FromPeer) /\ Len(toClient) <= Buffer
    /\ toPeer \in Seq(FromClient) /\ Len(toPeer) <= Buffer
    /\ sent \subseteq {m.cmd : m \in FromClient}
    /\ asked \in BOOLEAN
    /\ copies \in Nat

\* The relay as its callers see it.
Contract == INSTANCE RelayContract WITH
    listens <- listenAfterTx > 0,
    greeted <- HandshakeOver /\ {"version", "verack"} \subseteq sent,
    offered <- "inv" \in sent,
    requested <- asked,
    given <- copies,
    answer <- IF Returned THEN phase ELSE "none"

\* The client implements RelayContract, whatever the peer sends, in whatever
\* order, and whenever it goes silent or hangs up: handshake, offer, request, one
\* hand-over and the answer come in this order, the claim is written once though
\* the peer goes on asking, and the answer fits what was done (relay.go:91 to
\* relay.go:177).
KeepsContract == Contract!Spec
=============================================================================
