---------------------------- MODULE RelayProofs ----------------------------
(***************************************************************************)
(* Proofs about the relay client, for every timeout, every capacity of the *)
(* connection and every set of ping nonces: it implements RelayContract    *)
(* with any peer, its success is no mistake about a node that follows the  *)
(* protocol, and such a node never sees it break the protocol.             *)
(***************************************************************************)
EXTENDS RelaySession, TLAPS

(***************************************************************************)
(* The contract                                                            *)
(***************************************************************************)

\* The variables the contract and the invariant speak of.
clientSide == <<phase, versionReceived, verackReceived, writing, listenAfterTx, sent, asked,
                copies>>

Greeted == HandshakeOver /\ "version" \in sent /\ "verack" \in sent

\* A version is answered, or being answered.
Answering ==
    /\ versionReceived => "version" \in sent
    /\ versionReceived => "verack" \in sent \/ writing.cmd = "verack"

\* What has been written and asked for, place by place.
DialInv ==
    phase = "dial" =>
        /\ ~versionReceived /\ ~verackReceived
        /\ writing = Nothing /\ sent = {} /\ ~asked /\ copies = 0

HandshakeInv ==
    phase = "handshake" =>
        /\ writing.cmd \notin {"inv", "tx"}
        /\ "version" \in sent \/ writing.cmd = "version"
        /\ "inv" \notin sent /\ ~asked /\ copies = 0

WaitInv ==
    phase = "wait" =>
        /\ Greeted
        /\ writing.cmd \notin {"version", "verack", "tx"}
        /\ "inv" \in sent \/ writing.cmd = "inv"
        /\ ~asked /\ copies = 0

SendInv ==
    phase = "send" =>
        /\ Greeted
        /\ writing.cmd = "tx"
        /\ "inv" \in sent /\ asked /\ copies = 0

ListenInv ==
    phase = "listen" =>
        /\ Greeted
        /\ writing.cmd \notin {"version", "verack", "inv", "tx"}
        /\ "inv" \in sent /\ asked /\ copies = 1
        /\ listenAfterTx > 0

OkInv == phase = "ok" => asked /\ copies = 1

Phases == {"dial", "handshake", "wait", "send", "listen", "ok", "failed"}

RelayInv ==
    /\ phase \in Phases
    /\ listenAfterTx \in Nat
    /\ asked \in BOOLEAN
    /\ Answering
    /\ DialInv /\ HandshakeInv /\ WaitInv /\ SendInv /\ ListenInv /\ OkInv

\* The messages are records all through.
USE DEF Plain, Ping, Pong, Nothing

\* The invariant holds when RelayTxWithOptions is called (relay.go:59).
LEMMA RelayInvInitially == Init => RelayInv
BY ListenForAssumption DEF Init, RelayInv, Phases, Answering, DialInv, HandshakeInv,
   WaitInv, SendInv, ListenInv, OkInv

\* A step that touches nothing of the client keeps its invariant.
LEMMA FrameKeeps ==
  ASSUME RelayInv, UNCHANGED clientSide PROVE RelayInv'
BY DEF clientSide, RelayInv, Phases, Answering, DialInv, HandshakeInv, WaitInv, SendInv,
   ListenInv, OkInv, Greeted, HandshakeOver

\* Every step of the client, in each of the three loops of relay.go:91 to
\* relay.go:177, keeps the invariant.
LEMMA ClientKeeps ==
  ASSUME RelayInv, Client PROVE RelayInv'
<1> USE DEF RelayInv, Answering, DialInv, HandshakeInv, WaitInv, SendInv, ListenInv, OkInv,
            Greeted, HandshakeOver, client, wire, history, Phases
<1>1. CASE Dial
  BY <1>1 DEF Dial
<1>2. CASE Written
  <2>1. /\ phase \notin {"ok", "failed"}
        /\ sent' = sent \cup {writing.cmd} /\ writing'.cmd = "nothing"
        /\ copies' = IF writing.cmd = "tx" THEN copies + 1 ELSE copies
        /\ UNCHANGED <<listenAfterTx, versionReceived, verackReceived, asked>>
    BY <1>2 DEF Written, Returned
  <2>2. CASE phase = "send"
    BY <1>2, <2>1, <2>2 DEF Written, AfterTx
  <2>3. CASE phase # "send"
    <3>1. phase' = phase
      BY <1>2, <2>3 DEF Written
    <3>2. phase # "dial"
      BY <1>2 DEF Written
    <3> QED
      BY <2>1, <2>3, <3>1, <3>2
  <2> QED
    BY <2>2, <2>3
<1>3. CASE WriteFails
  BY <1>3 DEF WriteFails
<1>4. CASE RecvVersion
  BY <1>4 DEF RecvVersion, Receives, Reading
<1>5. CASE RecvVerAck
  BY <1>5 DEF RecvVerAck, Receives, Reading
<1>6. CASE RecvPing
  BY <1>6 DEF RecvPing, Receives, Reading
<1>7. CASE RecvGetData
  BY <1>7 DEF RecvGetData, Receives, Reading
<1>8. CASE RecvGarbage
  BY <1>8 DEF RecvGarbage, Receives, Reading
<1>9. CASE \E m \in FromPeer : RecvIgnored(m)
  <2>1. PICK m \in FromPeer : RecvIgnored(m)
    BY <1>9
  <2>2. UNCHANGED <<phase, versionReceived, verackReceived, writing, listenAfterTx, sent, copies>>
    BY <2>1 DEF RecvIgnored, Receives
  <2>3. phase \in {"handshake", "wait", "listen"}
    BY <2>1 DEF RecvIgnored, Receives, Reading
  <2>4. asked' <=> asked \/ (m.cmd = "getdata" /\ "inv" \in sent)
    BY <2>1 DEF RecvIgnored
  <2>5. phase = "wait" => m.cmd # "getdata"
    BY <2>1 DEF RecvIgnored, Ignores
  <2> QED
    BY <2>2, <2>3, <2>4, <2>5
<1>10. CASE ReadTimeout
  BY <1>10 DEF ReadTimeout
<1>11. CASE ReadEof
  BY <1>11 DEF ReadEof
<1>12. CASE Announce
  BY <1>12 DEF Announce
<1> QED
  BY <1>1, <1>2, <1>3, <1>4, <1>5, <1>6, <1>7, <1>8, <1>9, <1>10, <1>11, <1>12
     DEF Client, RecvAny

\* A call that begins has promised nothing yet.
LEMMA ContractInitially == Init => Contract!Init
<1> SUFFICES ASSUME Init PROVE Contract!Init
  OBVIOUS
<1>1. (listenAfterTx > 0) \in BOOLEAN
  OBVIOUS
<1>2. (HandshakeOver /\ {"version", "verack"} \subseteq sent) = FALSE
  BY DEF Init, HandshakeOver
<1>3. ("inv" \in sent) = FALSE /\ asked = FALSE /\ copies = 0
  BY DEF Init
<1>4. (IF Returned THEN phase ELSE "none") = "none"
  BY DEF Init, Returned
<1> QED
  BY <1>1, <1>2, <1>3, <1>4 DEF Contract!Init

\* The contract's variables, as the client has them.
greetedNow == HandshakeOver /\ {"version", "verack"} \subseteq sent
offeredNow == "inv" \in sent
answerNow == IF Returned THEN phase ELSE "none"

\* What leaves the client alone is no step of the contract.
LEMMA ContractStutters ==
  ASSUME UNCHANGED clientSide PROVE UNCHANGED Contract!vars
BY DEF clientSide, Contract!vars, HandshakeOver, Returned

\* A write that returns is the offer if it wrote the inv, the greeting if it
\* wrote the verack last, the hand-over if it wrote the claim, and nothing the
\* caller sees otherwise (relay.go:104 to relay.go:152).
LEMMA WrittenStep ==
  ASSUME RelayInv, Written PROVE [Contract!Next]_(Contract!vars)
<1>1. /\ phase \notin {"ok", "failed", "dial"}
      /\ sent' = sent \cup {writing.cmd}
      /\ copies' = IF writing.cmd = "tx" THEN copies + 1 ELSE copies
      /\ UNCHANGED <<listenAfterTx, versionReceived, verackReceived, asked>>
      /\ UNCHANGED HandshakeOver
  BY DEF Written, Returned, RelayInv, DialInv, HandshakeOver
<1>2. CASE phase = "send"
  <2>1. Contract!Give
    BY <1>1, <1>2 DEF Contract!Give, RelayInv, SendInv, Written, AfterTx, Greeted,
       HandshakeOver, Returned
  <2> QED
    BY <2>1 DEF Contract!Next
<1>3. CASE phase # "send"
  <2>1. phase' = phase /\ writing.cmd # "tx" /\ UNCHANGED copies
    BY <1>1, <1>3 DEF Written, RelayInv, Phases, HandshakeInv, WaitInv, ListenInv
  <2>2. UNCHANGED <<listenAfterTx > 0, asked, copies, answerNow>> /\ answerNow = "none"
    BY <1>1, <2>1 DEF answerNow, Returned
  <2>3. CASE writing.cmd = "inv" /\ "inv" \notin sent
    <3>1. Contract!Offer
      BY <1>1, <1>3, <2>1, <2>2, <2>3
         DEF Contract!Offer, RelayInv, Phases, HandshakeInv, WaitInv, ListenInv, Greeted,
             answerNow
    <3> QED
      BY <3>1 DEF Contract!Next
  <2>4. CASE ~(writing.cmd = "inv" /\ "inv" \notin sent)
    <3>1. UNCHANGED offeredNow
      BY <1>1, <2>4 DEF offeredNow
    <3>2. CASE UNCHANGED greetedNow
      BY <2>2, <3>1, <3>2 DEF Contract!vars, offeredNow, greetedNow, answerNow
    <3>3. CASE ~greetedNow /\ greetedNow'
      <4>1. Contract!Greet
        BY <2>2, <3>1, <3>3 DEF Contract!Greet, offeredNow, greetedNow, answerNow
      <4> QED
        BY <4>1 DEF Contract!Next
    <3>4. greetedNow => greetedNow'
      BY <1>1 DEF greetedNow
    <3> QED
      BY <3>2, <3>3, <3>4 DEF greetedNow
  <2> QED
    BY <2>3, <2>4
<1> QED
  BY <1>2, <1>3

\* A return is the end of the listening, or giving up (relay.go:163 to
\* relay.go:174).
LEMMA FailedStep ==
  ASSUME RelayInv, phase \in {"dial", "handshake", "wait", "send", "listen"},
         phase' = "failed" \/ (phase = "listen" /\ phase' = "ok"),
         UNCHANGED <<listenAfterTx, versionReceived, verackReceived, sent, asked, copies>>
  PROVE  [Contract!Next]_(Contract!vars)
<1>1. UNCHANGED <<listenAfterTx > 0, greetedNow, offeredNow, asked, copies>>
  BY DEF greetedNow, offeredNow, HandshakeOver
<1>2. answerNow = "none" /\ answerNow' = phase' /\ answerNow' \in {"ok", "failed"}
  BY DEF answerNow, Returned
<1>3. CASE phase = "listen"
  <2>1. Contract!EndListening
    BY <1>1, <1>2, <1>3 DEF Contract!EndListening, RelayInv, ListenInv, greetedNow,
       offeredNow, answerNow
  <2> QED
    BY <2>1 DEF Contract!Next
<1>4. CASE phase # "listen"
  <2>1. Contract!GiveUp
    BY <1>1, <1>2, <1>4 DEF Contract!GiveUp, RelayInv, DialInv, HandshakeInv, WaitInv,
       SendInv, greetedNow, offeredNow, answerNow
  <2> QED
    BY <2>1 DEF Contract!Next
<1> QED
  BY <1>3, <1>4

\* A message read may complete the greeting and does nothing else to the contract
\* (relay.go:91 to relay.go:138).
LEMMA ReadingStep ==
  ASSUME RelayInv, RecvVersion \/ RecvVerAck \/ RecvPing \/ \E m \in FromPeer : RecvIgnored(m)
  PROVE  [Contract!Next]_(Contract!vars)
<1>1. /\ phase \in {"handshake", "wait", "listen"} /\ phase' = phase
      /\ UNCHANGED <<listenAfterTx, sent, copies, asked>>
      /\ HandshakeOver => HandshakeOver'
  <2>1. CASE RecvVersion
    BY <2>1 DEF RecvVersion, Receives, Reading, HandshakeOver
  <2>2. CASE RecvVerAck
    BY <2>2 DEF RecvVerAck, Receives, Reading, HandshakeOver
  <2>3. CASE RecvPing
    BY <2>3 DEF RecvPing, Receives, Reading, HandshakeOver
  <2>4. CASE \E m \in FromPeer : RecvIgnored(m)
    <3>1. PICK m \in FromPeer : RecvIgnored(m)
      BY <2>4
    <3>2. /\ phase \in {"handshake", "wait", "listen"} /\ phase' = phase
          /\ UNCHANGED <<listenAfterTx, sent, copies, versionReceived, verackReceived>>
      BY <3>1 DEF RecvIgnored, Receives, Reading, client
    <3>3. asked' = (asked \/ (m.cmd = "getdata" /\ "inv" \in sent))
      BY <3>1 DEF RecvIgnored
    <3>4. phase = "wait" => m.cmd # "getdata"
      BY <3>1 DEF RecvIgnored, Ignores
    <3>5. asked' = asked
      <4>1. CASE phase = "listen"
        BY <3>3, <4>1, Zenon DEF RelayInv, ListenInv
      <4>2. CASE ~(m.cmd = "getdata" /\ "inv" \in sent)
        BY <3>3, <4>2, Zenon DEF RelayInv
      <4> QED
        BY <3>2, <3>4, <4>1, <4>2 DEF RelayInv, HandshakeInv
    <3> QED
      BY <3>2, <3>5 DEF HandshakeOver
  <2> QED
    BY <2>1, <2>2, <2>3, <2>4
<1>2. UNCHANGED <<listenAfterTx > 0, offeredNow, asked, copies, answerNow>> /\ answerNow = "none"
  BY <1>1 DEF offeredNow, answerNow, Returned
<1>3. greetedNow => greetedNow'
  BY <1>1 DEF greetedNow
<1>4. CASE UNCHANGED greetedNow
  BY <1>2, <1>4 DEF Contract!vars, offeredNow, greetedNow, answerNow
<1>5. CASE ~greetedNow /\ greetedNow'
  <2>1. Contract!Greet
    BY <1>2, <1>5 DEF Contract!Greet, offeredNow, greetedNow, answerNow
  <2> QED
    BY <2>1 DEF Contract!Next
<1> QED
  BY <1>3, <1>4, <1>5 DEF greetedNow

\* The getdata that is served is the request of the contract (relay.go:144).
LEMMA GetDataStep ==
  ASSUME RelayInv, RecvGetData
  PROVE  [Contract!Next]_(Contract!vars)
<1>1. /\ phase = "wait" /\ phase' = "send" /\ asked' = TRUE
      /\ UNCHANGED <<listenAfterTx, sent, copies, versionReceived, verackReceived>>
      /\ "inv" \in sent
  BY DEF RecvGetData, Receives, Reading, RelayInv, WaitInv
<1>2. UNCHANGED <<listenAfterTx > 0, greetedNow, offeredNow, copies, answerNow>>
        /\ answerNow = "none"
  BY <1>1 DEF greetedNow, offeredNow, answerNow, Returned, HandshakeOver
<1>3. asked = FALSE
  BY <1>1, Zenon DEF RelayInv, WaitInv
<1>4. Contract!Request
  BY <1>1, <1>2, <1>3 DEF Contract!Request, greetedNow, offeredNow, answerNow
<1> QED
  BY <1>4 DEF Contract!Next

\* Dialing and the queuing of the inv are not seen by the caller.
LEMMA SilentStep ==
  ASSUME RelayInv, Dial \/ Announce
  PROVE  [Contract!Next]_(Contract!vars)
<1>1. /\ UNCHANGED <<listenAfterTx, sent, copies, asked, versionReceived, verackReceived>>
      /\ UNCHANGED answerNow
  BY DEF Dial, Announce, history, answerNow, Returned
<1> QED
  BY <1>1 DEF Contract!vars, answerNow, HandshakeOver

\* Every step of the client is a step of the contract or leaves it as it is.
LEMMA ClientStep ==
  ASSUME RelayInv, Client \/ DialFails
  PROVE  [Contract!Next]_(Contract!vars)
<1>1. CASE WriteFails
  BY <1>1, FailedStep DEF WriteFails, Returned, history, RelayInv, Phases
<1>2. CASE RecvGarbage
  BY <1>2, FailedStep DEF RecvGarbage, Receives, Reading
<1>3. CASE ReadTimeout
  BY <1>3, FailedStep DEF ReadTimeout, Reading, history
<1>4. CASE ReadEof
  BY <1>4, FailedStep DEF ReadEof, Reading, history
<1>5. CASE DialFails
  BY <1>5, FailedStep DEF DialFails, history
<1> QED
  BY <1>1, <1>2, <1>3, <1>4, <1>5, WrittenStep, ReadingStep, GetDataStep, SilentStep
     DEF Client, RecvAny

\* A refused connection keeps the invariant (relay.go:54).
LEMMA DialFailsKeeps ==
  ASSUME RelayInv, DialFails PROVE RelayInv'
BY DEF DialFails, history, RelayInv, Phases, Answering, DialInv, HandshakeInv, WaitInv,
   SendInv, ListenInv, OkInv

\* The peer and the clock touch nothing of the client.
LEMMA PeerLeaves ==
  ASSUME Tick \/ PeerReads \/ PeerCloses \/ \E m \in FromPeer : PeerSends(m)
  PROVE  UNCHANGED clientSide
BY DEF Tick, PeerReads, PeerCloses, PeerSends, clientSide, client, history

\* The client implements RelayContract with any peer at all, for every timeout,
\* capacity and set of nonces: handshake, offer, request, one hand-over and a
\* truthful answer, in this order (relay.go:91 to relay.go:177).
THEOREM ContractKept == Spec => KeepsContract
<1>1. RelayInv /\ [Next]_vars => RelayInv' /\ [Contract!Next]_(Contract!vars)
  <2> SUFFICES ASSUME RelayInv, [Next]_vars PROVE RelayInv' /\ [Contract!Next]_(Contract!vars)
    OBVIOUS
  <2>1. CASE Client \/ DialFails
    BY <2>1, ClientKeeps, DialFailsKeeps, ClientStep
  <2>2. CASE UNCHANGED clientSide
    BY <2>2, FrameKeeps, ContractStutters
  <2>3. UNCHANGED vars => UNCHANGED clientSide
    BY DEF vars, client, history, clientSide
  <2> QED
    BY <2>1, <2>2, <2>3, PeerLeaves DEF Next
<1> QED
  BY RelayInvInitially, ContractInitially, <1>1, PTL DEF Spec, KeepsContract, Contract!Spec

\* The node touches nothing of the client.
LEMMA NodeLeaves ==
  ASSUME Node PROVE UNCHANGED clientSide
BY DEF Node, PeerHandles, PeerGetsVersion, PeerGetsVerAck, PeerGetsInv, PeerGetsTx,
   PeerGetsPong, PeerPings, PeerChats, Handles, PeerSends, clientSide, client, history

\* So does the client of a session with the node or with the stranger.
THEOREM SessionKeepsContract == SessionSpec => KeepsContract
<1>1. RelayInv /\ [SessionNext]_sessionVars => RelayInv' /\ [Contract!Next]_(Contract!vars)
  <2> SUFFICES ASSUME RelayInv, [SessionNext]_sessionVars
               PROVE  RelayInv' /\ [Contract!Next]_(Contract!vars)
    OBVIOUS
  <2>1. CASE Client \/ DialFails
    BY <2>1, ClientKeeps, DialFailsKeeps, ClientStep
  <2>2. CASE UNCHANGED clientSide
    BY <2>2, FrameKeeps, ContractStutters
  <2>3. UNCHANGED sessionVars => UNCHANGED clientSide
    BY DEF sessionVars, vars, client, history, clientSide
  <2> QED
    BY <2>1, <2>2, <2>3, PeerLeaves, NodeLeaves
       DEF SessionNext, ClientRuns, Stranger, TimePasses, Disconnects
<1>2. SessionInit => Init
  BY DEF SessionInit
<1> QED
  BY RelayInvInitially, ContractInitially, <1>1, <1>2, PTL
     DEF SessionSpec, KeepsContract, Contract!Spec

(*************************************************************************)
(* Sequences of messages                                                 *)
(*************************************************************************)

\* What is in the connection is the next message and what is left after it is
\* taken.
LEMMA SetOfTail ==
  ASSUME NEW S, NEW s \in Seq(S), s # <<>>
  PROVE  ToSet(s) = {Head(s)} \cup ToSet(Tail(s)) /\ Tail(s) \in Seq(S) /\ Head(s) \in S
<1>1. /\ Len(Tail(s)) = Len(s) - 1 /\ Len(s) \in Nat \ {0} /\ Head(s) = s[1] /\ Tail(s) \in Seq(S)
      /\ DOMAIN s = 1..Len(s) /\ DOMAIN Tail(s) = 1..(Len(s) - 1)
  OBVIOUS
<1>2. \A i \in 1..(Len(s) - 1) : Tail(s)[i] = s[i + 1]
  OBVIOUS
<1>3. ASSUME NEW x \in ToSet(s) PROVE x \in {Head(s)} \cup ToSet(Tail(s))
  <2>1. PICK i \in 1..Len(s) : x = s[i]
    BY <1>1, <1>3 DEF ToSet
  <2>2. CASE i = 1
    BY <1>1, <2>1, <2>2
  <2>3. CASE i # 1
    <3>1. i - 1 \in 1..(Len(s) - 1) /\ x = Tail(s)[i - 1]
      BY <1>1, <1>2, <2>1, <2>3
    <3> QED
      BY <1>1, <3>1 DEF ToSet
  <2> QED
    BY <2>2, <2>3
<1>4. ASSUME NEW x \in ToSet(Tail(s)) PROVE x \in ToSet(s)
  <2>1. PICK i \in 1..(Len(s) - 1) : x = Tail(s)[i]
    BY <1>1 DEF ToSet
  <2>2. i + 1 \in 1..Len(s) /\ x = s[i + 1]
    BY <1>1, <1>2, <2>1
  <2> QED
    BY <1>1, <2>2 DEF ToSet
<1>5. Head(s) \in ToSet(s) /\ Head(s) \in S
  BY <1>1 DEF ToSet
<1> QED
  BY <1>1, <1>3, <1>4, <1>5

\* A message that is written is added to what is in the connection.
LEMMA SetOfAppend ==
  ASSUME NEW S, NEW s \in Seq(S), NEW e
  PROVE  ToSet(Append(s, e)) = ToSet(s) \cup {e}
<1>1. /\ DOMAIN s = 1..Len(s) /\ DOMAIN Append(s, e) = 1..(Len(s) + 1) /\ Len(s) \in Nat
      /\ \A i \in 1..Len(s) : Append(s, e)[i] = s[i]
      /\ Append(s, e)[Len(s) + 1] = e
  OBVIOUS
<1>2. 1..(Len(s) + 1) = 1..Len(s) \cup {Len(s) + 1}
  BY <1>1
<1> QED
  BY <1>1, <1>2 DEF ToSet

\* The node's answers are added to what is in the connection.
LEMMA SetOfConcat ==
  ASSUME NEW S, NEW s \in Seq(S), NEW t \in Seq(S)
  PROVE  ToSet(s \o t) = ToSet(s) \cup ToSet(t)
<1>1. /\ DOMAIN s = 1..Len(s) /\ DOMAIN t = 1..Len(t) /\ DOMAIN (s \o t) = 1..(Len(s) + Len(t))
      /\ Len(s) \in Nat /\ Len(t) \in Nat
      /\ \A i \in 1..Len(s) : (s \o t)[i] = s[i]
      /\ \A i \in 1..Len(t) : (s \o t)[Len(s) + i] = t[i]
  OBVIOUS
<1>2. ASSUME NEW x \in ToSet(s \o t) PROVE x \in ToSet(s) \cup ToSet(t)
  <2>1. PICK i \in 1..(Len(s) + Len(t)) : x = (s \o t)[i]
    BY <1>1 DEF ToSet
  <2>2. CASE i <= Len(s)
    BY <1>1, <2>1, <2>2 DEF ToSet
  <2>3. CASE i > Len(s)
    <3>1. i - Len(s) \in 1..Len(t) /\ x = t[i - Len(s)]
      BY <1>1, <2>1, <2>3
    <3> QED
      BY <1>1, <3>1 DEF ToSet
  <2> QED
    BY <1>1, <2>2, <2>3
<1>3. ASSUME NEW x \in ToSet(s) PROVE x \in ToSet(s \o t)
  BY <1>1 DEF ToSet
<1>4. ASSUME NEW x \in ToSet(t) PROVE x \in ToSet(s \o t)
  <2>1. PICK i \in 1..Len(t) : x = t[i]
    BY <1>1 DEF ToSet
  <2>2. Len(s) + i \in 1..(Len(s) + Len(t)) /\ x = (s \o t)[Len(s) + i]
    BY <1>1, <2>1
  <2> QED
    BY <1>1, <2>2 DEF ToSet
<1> QED
  BY <1>2, <1>3, <1>4

(*************************************************************************)
(* Types                                                                 *)
(*************************************************************************)

\* The part of the type that only the client's own variables are in.
ClientTypes ==
    /\ phase \in Phases
    /\ listenAfterTx \in ListenFor
    /\ versionReceived \in BOOLEAN /\ verackReceived \in BOOLEAN
    /\ writing \in FromClient \cup {Nothing}
    /\ left \in Nat
    /\ phase = "listen" => left <= listenAfterTx
    /\ sent \subseteq {m.cmd : m \in FromClient}
    /\ asked \in BOOLEAN /\ copies \in Nat

\* The part about the connection.
WireTypes ==
    /\ open \in BOOLEAN
    /\ toClient \in Seq(FromPeer) /\ Len(toClient) <= Buffer
    /\ toPeer \in Seq(FromClient) /\ Len(toPeer) <= Buffer

\* The type of the relay splits into the client and the connection.
LEMMA TypeParts == TypeOK <=> ClientTypes /\ WireTypes
BY DEF TypeOK, ClientTypes, WireTypes, Phases

\* What the client writes is one of its messages, and what a peer sends is one of
\* its own.
LEMMA ClientMessages ==
    /\ \A c \in {"version", "verack", "inv", "tx"} : Plain(c) \in FromClient
    /\ \A n \in PingNonces : Pong(n) \in FromClient /\ Ping(n) \in FromPeer
    /\ \A c \in {"version", "verack", "getdata", "other", "garbage"} : Plain(c) \in FromPeer
    /\ Nothing \notin FromClient
<1>1. \A c \in {"version", "verack", "inv", "tx"} : Plain(c) \in FromClient
  BY DEF FromClient
<1>2. \A n \in PingNonces : Pong(n) \in FromClient /\ Ping(n) \in FromPeer
  BY DEF FromClient, FromPeer
<1>3. \A c \in {"version", "verack", "getdata", "other", "garbage"} : Plain(c) \in FromPeer
  BY DEF FromPeer
<1>4. ASSUME Nothing \in FromClient PROVE FALSE
  <2>1. CASE \E c \in {"version", "verack", "inv", "tx"} : Nothing = Plain(c)
    <3>1. PICK c \in {"version", "verack", "inv", "tx"} : Nothing = Plain(c)
      BY <2>1
    <3>2. Nothing.cmd = "nothing" /\ Plain(c).cmd = c
      OBVIOUS
    <3> QED
      BY <3>1, <3>2
  <2>2. CASE \E n \in PingNonces : Nothing = Pong(n)
    <3>1. PICK n \in PingNonces : Nothing = Pong(n)
      BY <2>2
    <3>2. Nothing.cmd = "nothing" /\ Pong(n).cmd = "pong"
      OBVIOUS
    <3> QED
      BY <3>1, <3>2
  <2> QED
    BY <1>4, <2>1, <2>2 DEF FromClient
<1>5. Nothing \notin FromClient
  BY <1>4
<1> QED
  BY <1>1, <1>2, <1>3, <1>5

\* The client's steps keep the type of its variables; the listening never has
\* more time left than its option gives (relay.go:161).
LEMMA ClientKeepsClientTypes ==
  ASSUME ClientTypes, Client \/ DialFails PROVE ClientTypes'
<1> USE DEF ClientTypes, Phases
<1>1. CASE Dial
  BY <1>1, TimeoutAssumption, ListenForAssumption, ClientMessages DEF Dial, history
<1>2. CASE Written
  <2>1. /\ writing \in FromClient /\ writing' = Nothing
        /\ sent' = sent \cup {writing.cmd}
        /\ UNCHANGED <<listenAfterTx, versionReceived, verackReceived, asked>>
    BY <1>2 DEF Written
  <2>2. writing.cmd \in {m.cmd : m \in FromClient}
    BY <2>1
  <2>3. copies' \in Nat
    BY <1>2 DEF Written
  <2>4. /\ phase' \in Phases /\ left' \in Nat
        /\ phase' = "listen" => left' <= listenAfterTx
    BY <1>2, ListenForAssumption DEF Written, AfterTx
  <2> QED
    BY <2>1, <2>2, <2>3, <2>4
<1>3. CASE WriteFails
  BY <1>3 DEF WriteFails, history
<1>4. CASE RecvVersion
  BY <1>4, ClientMessages DEF RecvVersion, Receives
<1>5. CASE RecvVerAck
  BY <1>5 DEF RecvVerAck, Receives
<1>6. CASE RecvPing
  BY <1>6, ClientMessages DEF RecvPing, Receives
<1>7. CASE RecvGetData
  BY <1>7, ClientMessages DEF RecvGetData, Receives
<1>8. CASE RecvGarbage
  BY <1>8 DEF RecvGarbage, Receives
<1>9. CASE \E m \in FromPeer : RecvIgnored(m)
  <2>1. PICK m \in FromPeer : RecvIgnored(m)
    BY <1>9
  <2>2. /\ UNCHANGED <<phase, listenAfterTx, versionReceived, verackReceived, writing, left,
             sent, copies>>
        /\ asked' = (asked \/ (m.cmd = "getdata" /\ "inv" \in sent))
    BY <2>1 DEF RecvIgnored, Receives, client
  <2>3. asked' \in BOOLEAN
    BY <2>2, Zenon
  <2> QED
    BY <2>2, <2>3
<1>10. CASE ReadTimeout
  BY <1>10 DEF ReadTimeout, history
<1>11. CASE ReadEof
  BY <1>11 DEF ReadEof, history
<1>12. CASE Announce
  BY <1>12, ClientMessages DEF Announce, history
<1>13. CASE DialFails
  BY <1>13 DEF DialFails, history
<1> QED
  BY <1>1, <1>2, <1>3, <1>4, <1>5, <1>6, <1>7, <1>8, <1>9, <1>10, <1>11, <1>12, <1>13
     DEF Client, RecvAny

\* The client takes at most the next message from the connection and adds at most
\* the one it is writing.
LEMMA ClientAndWire ==
  ASSUME Client \/ DialFails
  PROVE  /\ UNCHANGED open
         /\ \/ UNCHANGED toClient
            \/ toClient # <<>> /\ toClient' = Tail(toClient) /\ Reading
         /\ \/ UNCHANGED toPeer
            \/ writing # Nothing /\ Len(toPeer) < Buffer /\ toPeer' = Append(toPeer, writing)
BY DEF Client, RecvAny, DialFails, Dial, Written, WriteFails, RecvVersion, RecvVerAck,
   RecvPing, RecvGetData, RecvGarbage, RecvIgnored, Receives, ReadTimeout, ReadEof, Announce, wire

\* The client's steps keep the whole type.
LEMMA ClientKeepsTypes ==
  ASSUME TypeOK, Client \/ DialFails PROVE TypeOK'
<1>1. ClientTypes'
  BY TypeParts, ClientKeepsClientTypes
<1>2. WireTypes'
  <2>1. open' \in BOOLEAN
    BY ClientAndWire DEF TypeOK
  <2>2. toClient' \in Seq(FromPeer) /\ Len(toClient') <= Buffer
    <3>1. toClient \in Seq(FromPeer) /\ Len(toClient) <= Buffer
      BY DEF TypeOK
    <3>2. CASE toClient # <<>> /\ toClient' = Tail(toClient)
      BY <3>1, <3>2, BufferAssumption
    <3> QED
      BY <3>1, <3>2, ClientAndWire
  <2>3. toPeer' \in Seq(FromClient) /\ Len(toPeer') <= Buffer
    BY ClientAndWire, BufferAssumption DEF TypeOK
  <2> QED
    BY <2>1, <2>2, <2>3 DEF WireTypes
<1> QED
  BY <1>1, <1>2 DEF TypeOK, ClientTypes, WireTypes, Phases

\* So does whatever leaves the client alone and keeps to the capacity.
LEMMA OthersKeepTypes ==
  ASSUME TypeOK,
         UNCHANGED <<phase, listenAfterTx, versionReceived, verackReceived, writing, history>>,
         left' \in {left} \cup {left - 1}, left' \in Nat,
         open' \in BOOLEAN,
         toClient' \in Seq(FromPeer), Len(toClient') <= Buffer,
         toPeer' \in Seq(FromClient), Len(toPeer') <= Buffer
  PROVE  TypeOK'
<1>1. phase' = "listen" => left' <= listenAfterTx'
  BY ListenForAssumption DEF TypeOK
<1> QED
  BY <1>1 DEF TypeOK, history

\* The stranger's steps and the clock keep the type.
LEMMA PeerActsKeepTypes ==
  ASSUME TypeOK, Tick \/ PeerReads \/ PeerCloses \/ \E m \in FromPeer : PeerSends(m)
  PROVE  TypeOK'
<1>1. CASE Tick
  BY <1>1, OthersKeepTypes DEF Tick, TypeOK, client, wire
<1>2. CASE PeerReads
  <2>1. toPeer' \in Seq(FromClient) /\ Len(toPeer') <= Buffer
    BY <1>2, BufferAssumption DEF PeerReads, TypeOK
  <2> QED
    BY <1>2, <2>1, OthersKeepTypes DEF PeerReads, TypeOK, client
<1>3. CASE PeerCloses
  BY <1>3, OthersKeepTypes DEF PeerCloses, TypeOK, client
<1>4. CASE \E m \in FromPeer : PeerSends(m)
  <2>1. toClient' \in Seq(FromPeer) /\ Len(toClient') <= Buffer
    BY <1>4, BufferAssumption DEF PeerSends, TypeOK
  <2> QED
    BY <1>4, <2>1, OthersKeepTypes DEF PeerSends, TypeOK, client
<1> QED
  BY <1>1, <1>2, <1>3, <1>4

\* The values of the node's variables.
PeerTypes ==
    /\ patient \in BOOLEAN
    /\ peer \in {"stranger", "fresh", "greeted", "ready"}
    /\ has \in {"not", "before", "now"}
    /\ fetching \in BOOLEAN
    /\ ping \in {Ping(n) : n \in PingNonces} \cup {Nothing}
    /\ misused \in BOOLEAN

\* So does the node when it takes a message and answers it.
LEMMA HandlingKeepsTypes ==
  ASSUME TypeOK, NEW m, NEW replies \in Seq(FromPeer), Handles(m, replies)
  PROVE  TypeOK'
<1>1. toPeer' \in Seq(FromClient) /\ Len(toPeer') <= Buffer
  BY BufferAssumption DEF Handles, TypeOK
<1>2. toClient' \in Seq(FromPeer) /\ Len(toClient') <= Buffer
  BY BufferAssumption DEF Handles, TypeOK
<1> QED
  BY <1>1, <1>2, OthersKeepTypes DEF Handles, TypeOK, client

\* The node's steps keep the type and the values of its own variables.
LEMMA NodeKeepsTypes ==
  ASSUME TypeOK, PeerTypes, Node PROVE TypeOK' /\ PeerTypes'
<1>1. CASE PeerGetsVersion
  <2>1. <<Plain("version"), Plain("verack")>> \in Seq(FromPeer)
    BY ClientMessages
  <2> QED
    BY <1>1, <2>1, HandlingKeepsTypes DEF PeerGetsVersion, PeerTypes
<1>2. CASE PeerGetsVerAck
  <2>1. <<>> \in Seq(FromPeer)
    OBVIOUS
  <2> QED
    BY <1>2, <2>1, HandlingKeepsTypes DEF PeerGetsVerAck, PeerTypes
<1>3. CASE PeerGetsInv
  <2>1. (IF has = "not" THEN <<Plain("getdata")>> ELSE <<>>) \in Seq(FromPeer)
    BY ClientMessages
  <2> QED
    BY <1>3, <2>1, HandlingKeepsTypes DEF PeerGetsInv, PeerTypes
<1>4. CASE PeerGetsTx
  <2>1. <<>> \in Seq(FromPeer)
    OBVIOUS
  <2> QED
    BY <1>4, <2>1, HandlingKeepsTypes DEF PeerGetsTx, PeerTypes
<1>5. CASE PeerGetsPong
  <2>1. <<>> \in Seq(FromPeer)
    OBVIOUS
  <2> QED
    BY <1>5, <2>1, HandlingKeepsTypes DEF PeerGetsPong, PeerTypes
<1>6. CASE PeerPings
  BY <1>6, PeerActsKeepTypes, ClientMessages DEF PeerPings, PeerTypes
<1>7. CASE PeerChats
  BY <1>7, PeerActsKeepTypes, ClientMessages DEF PeerChats, PeerTypes, peerVars
<1> QED
  BY <1>1, <1>2, <1>3, <1>4, <1>5, <1>6, <1>7 DEF Node, PeerHandles

\* The session's variables have the values SessionTypeOK names, for every
\* timeout, capacity and set of nonces; the listening never outlasts its own
\* deadline (relay.go:161).
THEOREM SessionTypeCorrect == SessionSpec => []SessionTypeOK
<1>1. SessionTypeOK <=> TypeOK /\ PeerTypes
  BY DEF SessionTypeOK, PeerTypes
<1>2. SessionInit => TypeOK /\ PeerTypes
  <2> SUFFICES ASSUME SessionInit PROVE TypeOK /\ PeerTypes
    OBVIOUS
  <2>1. TypeOK
    <3>1. Init
      BY DEF SessionInit
    <3>2. toClient \in Seq(FromPeer) /\ Len(toClient) = 0 /\ toPeer \in Seq(FromClient)
            /\ Len(toPeer) = 0
      BY <3>1 DEF Init
    <3>3. ClientTypes
      BY <3>1, TimeoutAssumption DEF Init, ClientTypes, Phases
    <3> QED
      BY <3>1, <3>2, <3>3, TypeParts, BufferAssumption DEF Init, WireTypes
  <2> QED
    BY <2>1 DEF SessionInit, PeerTypes
<1>3. TypeOK /\ PeerTypes /\ [SessionNext]_sessionVars => (TypeOK /\ PeerTypes)'
  <2> SUFFICES ASSUME TypeOK, PeerTypes, [SessionNext]_sessionVars PROVE TypeOK' /\ PeerTypes'
    OBVIOUS
  <2>1. UNCHANGED peerVars => PeerTypes'
    BY DEF peerVars, PeerTypes
  <2>2. CASE UNCHANGED sessionVars
    BY <2>1, <2>2 DEF sessionVars, vars, client, wire, history, TypeOK
  <2> QED
    BY <2>1, <2>2, ClientKeepsTypes, PeerActsKeepTypes, NodeKeepsTypes
       DEF SessionNext, ClientRuns, Stranger, TimePasses, Disconnects
<1> QED
  BY <1>1, <1>2, <1>3, PTL DEF SessionSpec

(*************************************************************************)
(* The claim is not lost                                                 *)
(*************************************************************************)

\* A node that had the claim before never asks, and a claim that was written is
\* at the node or on its way there.
DeliveryInv ==
    peer # "stranger" =>
        /\ has = "before" => ~asked /\ Plain("getdata") \notin ToSet(toClient)
        /\ has = "not" /\ copies > 0 => Plain("tx") \in ToSet(toPeer)

\* A getdata and a claim are known by their command alone.
LEMMA CommandTells ==
    /\ \A m \in FromPeer : m.cmd = "getdata" => m = Plain("getdata")
    /\ \A m \in FromClient : m.cmd = "tx" => m = Plain("tx")
<1>1. ASSUME NEW m \in FromPeer, m.cmd = "getdata" PROVE m = Plain("getdata")
  <2>1. CASE \E c \in {"version", "verack", "getdata", "other", "garbage"} : m = Plain(c)
    BY <1>1, <2>1
  <2>2. CASE \E n \in PingNonces : m = Ping(n)
    BY <1>1, <2>2
  <2> QED
    BY <2>1, <2>2 DEF FromPeer
<1>2. ASSUME NEW m \in FromClient, m.cmd = "tx" PROVE m = Plain("tx")
  <2>1. CASE \E c \in {"version", "verack", "inv", "tx"} : m = Plain(c)
    BY <1>2, <2>1
  <2>2. CASE \E n \in PingNonces : m = Pong(n)
    BY <1>2, <2>2
  <2> QED
    BY <2>1, <2>2 DEF FromClient
<1> QED
  BY <1>1, <1>2

\* The claim counts as asked for only when a getdata was there to read
\* (relay.go:140).
LEMMA AskedByGetData ==
  ASSUME TypeOK, Client \/ DialFails, asked', ~asked
  PROVE  Plain("getdata") \in ToSet(toClient)
<1>1. CASE RecvGetData
  <2>1. toClient # <<>> /\ Plain("getdata") = Head(toClient)
    BY <1>1 DEF RecvGetData, Receives
  <2> QED
    BY <2>1, SetOfTail DEF TypeOK
<1>2. CASE \E m \in FromPeer : RecvIgnored(m)
  <2>1. PICK m \in FromPeer : RecvIgnored(m)
    BY <1>2
  <2>2. m.cmd = "getdata" /\ toClient # <<>> /\ m = Head(toClient)
    BY <2>1 DEF RecvIgnored, Receives
  <2> QED
    BY <2>2, SetOfTail, CommandTells DEF TypeOK
<1>3. ~(RecvGetData \/ \E m \in FromPeer : RecvIgnored(m)) => asked' = asked
  BY DEF Client, RecvAny, DialFails, Dial, Written, WriteFails, RecvVersion, RecvVerAck,
     RecvPing,
         RecvGarbage, ReadTimeout, ReadEof, Announce, history
<1> QED
  BY <1>1, <1>2, <1>3

\* The count of copies grows only with a write of the claim (relay.go:148).
LEMMA CopiesAreWritten ==
  ASSUME TypeOK, Client \/ DialFails, copies' # copies
  PROVE  Plain("tx") \in ToSet(toPeer')
<1>1. Written /\ writing.cmd = "tx"
  BY DEF Client, RecvAny, DialFails, Dial, Written, WriteFails, RecvVersion, RecvVerAck,
     RecvPing,
         RecvGetData, RecvIgnored, RecvGarbage, Receives, ReadTimeout, ReadEof, Announce,
         history
<1>2. writing \in FromClient /\ toPeer' = Append(toPeer, writing)
  BY <1>1 DEF Written, TypeOK
<1>3. writing = Plain("tx")
  BY <1>1, <1>2, CommandTells
<1> QED
  BY <1>2, <1>3, SetOfAppend DEF TypeOK

\* The client's steps lose no claim.
LEMMA ClientDelivers ==
  ASSUME TypeOK, DeliveryInv, Client \/ DialFails, UNCHANGED peerVars
  PROVE  DeliveryInv'
<1> SUFFICES ASSUME peer # "stranger"
             PROVE  /\ has = "before" => ~asked' /\ Plain("getdata") \notin ToSet(toClient')
                    /\ has = "not" /\ copies' > 0 => Plain("tx") \in ToSet(toPeer')
  BY DEF DeliveryInv, peerVars
<1>1. ToSet(toClient') \subseteq ToSet(toClient)
  BY ClientAndWire, SetOfTail DEF TypeOK
<1>2. ToSet(toPeer) \subseteq ToSet(toPeer')
  BY ClientAndWire, SetOfAppend DEF TypeOK
<1>3. has = "before" => ~asked' /\ Plain("getdata") \notin ToSet(toClient')
  BY <1>1, AskedByGetData DEF DeliveryInv
<1>4. has = "not" /\ copies' > 0 => Plain("tx") \in ToSet(toPeer')
  BY <1>2, CopiesAreWritten DEF DeliveryInv
<1> QED
  BY <1>3, <1>4

\* A node that takes another message than the claim loses no claim, and does not
\* ask for one it has.
LEMMA HandlingDelivers ==
  ASSUME TypeOK, DeliveryInv, NEW m, NEW replies \in Seq(FromPeer), Handles(m, replies),
         m # Plain("tx"), UNCHANGED has, peer' # "stranger",
         has = "before" => Plain("getdata") \notin ToSet(replies)
  PROVE  DeliveryInv'
<1>1. ToSet(toClient') = ToSet(toClient) \cup ToSet(replies)
  BY SetOfConcat DEF Handles, TypeOK
<1>2. ToSet(toPeer) \subseteq ToSet(toPeer') \cup {m}
  BY SetOfTail DEF Handles, TypeOK
<1> QED
  BY <1>1, <1>2 DEF DeliveryInv, Handles, history

\* The node's steps lose no claim.
LEMMA NodeDelivers ==
  ASSUME TypeOK, PeerTypes, DeliveryInv, Node
  PROVE  DeliveryInv'
<1> DEFINE none == <<>>
<1>1. none \in Seq(FromPeer) /\ ToSet(none) = {}
  BY DEF ToSet
<1> HIDE DEF none
<1>2. CASE PeerGetsVersion
  <2> DEFINE both == <<Plain("version"), Plain("verack")>>
  <2>1. both \in Seq(FromPeer) /\ Plain("getdata") \notin ToSet(both)
    <3>1. DOMAIN both = 1..2 /\ both[1] = Plain("version") /\ both[2] = Plain("verack")
      OBVIOUS
    <3> QED
      BY <3>1, ClientMessages DEF ToSet
  <2> QED
    BY <1>2, <2>1, HandlingDelivers DEF PeerGetsVersion
<1>3. CASE PeerGetsVerAck
  BY <1>1, <1>3, HandlingDelivers DEF PeerGetsVerAck, none
<1>4. CASE PeerGetsInv
  <2> DEFINE reply == IF has = "not" THEN <<Plain("getdata")>> ELSE <<>>
  <2>1. reply \in Seq(FromPeer) /\ (has = "before" => Plain("getdata") \notin ToSet(reply))
    BY <1>1, ClientMessages DEF none
  <2>2. peer # "stranger"
    BY <1>4 DEF PeerGetsInv, Handles
  <2> QED
    BY <1>4, <2>1, <2>2, HandlingDelivers DEF PeerGetsInv
<1>5. CASE PeerGetsTx
  <2>1. toClient' = toClient
    BY <1>5 DEF PeerGetsTx, Handles, TypeOK
  <2> QED
    BY <1>5, <2>1 DEF PeerGetsTx, Handles, DeliveryInv, history, PeerTypes
<1>6. CASE PeerGetsPong
  <2>1. peer # "stranger"
    BY <1>6 DEF PeerGetsPong, Handles
  <2> QED
    BY <1>1, <1>6, <2>1, HandlingDelivers DEF PeerGetsPong, none
<1>7. CASE PeerPings \/ PeerChats
  <2>1. PICK m \in FromPeer : PeerSends(m) /\ m.cmd # "getdata"
    BY <1>7, ClientMessages DEF PeerPings, PeerChats
  <2>2. ToSet(toClient') = ToSet(toClient) \cup {m}
    BY <2>1, SetOfAppend DEF PeerSends, TypeOK
  <2> QED
    <3>1. UNCHANGED <<peer, has, asked, copies, toPeer>>
      BY <1>7, <2>1 DEF PeerPings, PeerChats, PeerSends, history, peerVars
    <3>2. m # Plain("getdata")
      BY <2>1
    <3> QED
      BY <2>2, <3>1, <3>2 DEF DeliveryInv
<1> QED
  BY <1>2, <1>3, <1>4, <1>5, <1>6, <1>7 DEF Node, PeerHandles

\* "ok" is no mistake: a node that lacked the claim has it, or the claim is on
\* its way to it, or it hung up before it read it, for every timeout and capacity
\* and with any pings and delays in between (relay.go:154).
THEOREM SuccessMeansDelivery == SessionSpec => []OkMeansDelivered
<1>1. SessionInit => RelayInv /\ DeliveryInv
  BY RelayInvInitially DEF SessionInit, Init, DeliveryInv, ToSet
<1>2. RelayInv /\ TypeOK /\ PeerTypes /\ DeliveryInv
        /\ [SessionNext]_sessionVars => RelayInv' /\ DeliveryInv'
  <2> SUFFICES ASSUME RelayInv, TypeOK, PeerTypes, DeliveryInv, [SessionNext]_sessionVars
               PROVE  RelayInv' /\ DeliveryInv'
    OBVIOUS
  <2>1. CASE ClientRuns \/ (DialFails /\ UNCHANGED peerVars)
    BY <2>1, ClientKeeps, DialFailsKeeps, ClientDelivers DEF ClientRuns
  <2>2. CASE Node
    BY <2>2, NodeLeaves, FrameKeeps, NodeDelivers
  <2>3. CASE Stranger
    <3>1. RelayInv'
      BY <2>3, PeerLeaves, FrameKeeps DEF Stranger
    <3> QED
      BY <2>3, <3>1 DEF Stranger, DeliveryInv, peerVars
  <2>4. CASE (Tick \/ PeerCloses) /\ UNCHANGED peerVars
    <3>1. RelayInv'
      BY <2>4, PeerLeaves, FrameKeeps
    <3> QED
      BY <2>4, <3>1 DEF Tick, PeerCloses, wire, DeliveryInv, peerVars, history
  <2>5. CASE UNCHANGED sessionVars
    <3>1. RelayInv'
      BY <2>5, FrameKeeps DEF sessionVars, vars, client, history, clientSide
    <3> QED
      BY <2>5, <3>1 DEF sessionVars, vars, wire, history, DeliveryInv, peerVars
  <2> QED
    BY <2>1, <2>2, <2>3, <2>4, <2>5 DEF SessionNext, TimePasses, Disconnects
<1>3. RelayInv /\ PeerTypes /\ DeliveryInv => OkMeansDelivered
  BY DEF RelayInv, OkInv, PeerTypes, DeliveryInv, OkMeansDelivered
<1>4. SessionTypeOK => TypeOK /\ PeerTypes
  BY DEF SessionTypeOK, PeerTypes
<1> QED
  BY <1>1, <1>2, <1>3, <1>4, SessionTypeCorrect, PTL DEF SessionSpec

(*************************************************************************)
(* The client keeps to the protocol.  Its steps by what they do to the   *)
(* connection; before the node is ready every message in it is known.    *)
(*************************************************************************)

\* The client writes.
Wrote ==
    /\ phase \in {"handshake", "wait", "send", "listen"}
    /\ writing # Nothing /\ writing' = Nothing
    /\ toPeer' = Append(toPeer, writing)
    /\ sent' = sent \cup {writing.cmd}
    /\ copies' = IF writing.cmd = "tx" THEN copies + 1 ELSE copies
    /\ phase' = phase \/ phase = "send"
    /\ UNCHANGED <<versionReceived, toClient, asked>>

\* It takes the next message.
Took(m) ==
    /\ Reading
    /\ toClient # <<>> /\ m = Head(toClient) /\ toClient' = Tail(toClient)
    /\ UNCHANGED <<toPeer, sent, copies>>

TookVersion ==
    /\ phase = "handshake" /\ phase' = phase
    /\ Took(Plain("version"))
    /\ versionReceived' /\ writing' = Plain("verack")
    /\ UNCHANGED asked

TookPing ==
    \E n \in PingNonces :
        Took(Ping(n)) /\ writing' = Pong(n) /\ UNCHANGED <<phase, versionReceived, asked>>

TookGetData ==
    /\ Took(Plain("getdata"))
    /\ phase \in {"wait", "listen"}
    /\ asked' /\ writing' \in {Nothing, Plain("tx")}
    /\ UNCHANGED versionReceived

TookOther ==
    \E m \in FromPeer :
        /\ Took(m)
        /\ m.cmd # "ping"
        /\ phase = "handshake" => m # Plain("version")
        /\ phase \in {"wait", "listen"} => m # Plain("getdata")
        /\ phase' \in {phase, "failed"}
        /\ UNCHANGED <<versionReceived, writing, asked>>

\* It starts with its version, or announces the claim.
Starts ==
    /\ phase = "dial" /\ phase' = "handshake" /\ writing' = Plain("version")
    /\ UNCHANGED <<versionReceived, toClient, toPeer, sent, asked, copies>>

Announces ==
    /\ phase = "handshake" /\ phase' = "wait" /\ HandshakeOver
    /\ writing = Nothing /\ writing' = Plain("inv")
    /\ UNCHANGED <<versionReceived, toClient, toPeer, sent, asked, copies>>

\* It returns.
Ends ==
    /\ phase' = "failed" \/ (phase = "listen" /\ phase' = "ok")
    /\ UNCHANGED <<versionReceived, writing, toClient, toPeer, sent, asked, copies>>

\* Every step of the client is one of these, by what it does to the connection
\* (relay.go:91 to relay.go:177).
LEMMA ClientCases ==
  ASSUME TypeOK, RelayInv, Client \/ DialFails
  PROVE  Wrote \/ TookVersion \/ TookPing \/ TookGetData \/ TookOther \/ Starts \/ Announces
           \/ Ends
<1>1. CASE Written
  <2>1. phase \in {"handshake", "wait", "send", "listen"}
    BY <1>1 DEF Written, Returned, RelayInv, Phases, DialInv
  <2> QED
    BY <1>1, <2>1 DEF Written, Wrote
<1>2. CASE RecvVersion
  BY <1>2 DEF RecvVersion, Receives, TookVersion, Took
<1>3. CASE RecvVerAck
  <2>1. Plain("verack") \in FromPeer
    BY ClientMessages
  <2> QED
    BY <1>3, <2>1 DEF RecvVerAck, Receives, TookOther, Took
<1>4. CASE RecvPing
  BY <1>4 DEF RecvPing, Receives, TookPing, Took
<1>5. CASE RecvGetData
  BY <1>5 DEF RecvGetData, Receives, TookGetData, Took
<1>6. CASE RecvGarbage
  <2>1. Plain("garbage") \in FromPeer
    BY ClientMessages
  <2> QED
    BY <1>6, <2>1 DEF RecvGarbage, Receives, TookOther, Took
<1>7. CASE \E m \in FromPeer : RecvIgnored(m)
  <2>1. PICK m \in FromPeer : RecvIgnored(m)
    BY <1>7
  <2>2. Took(m) /\ UNCHANGED <<phase, versionReceived, writing>>
    BY <2>1 DEF RecvIgnored, Receives, Took, client
  <2>3. asked' = (asked \/ (m.cmd = "getdata" /\ "inv" \in sent))
    BY <2>1 DEF RecvIgnored
  <2>4. writing = Nothing /\ phase \in {"handshake", "wait", "listen"}
    BY <2>2 DEF Took, Reading
  <2>5. CASE m.cmd = "getdata" /\ phase # "handshake"
    <3>1. phase = "listen" /\ m = Plain("getdata")
      BY <2>1, <2>4, <2>5, CommandTells DEF RecvIgnored, Ignores
    <3>2. asked'
      BY <2>3, <2>5, <3>1 DEF RelayInv, ListenInv
    <3> QED
      BY <2>2, <2>4, <3>1, <3>2 DEF TookGetData
  <2>6. CASE ~(m.cmd = "getdata" /\ phase # "handshake")
    <3>1. asked' = asked
      <4>1. ~(m.cmd = "getdata" /\ "inv" \in sent)
        BY <2>6 DEF RelayInv, HandshakeInv
      <4> QED
        BY <2>3, <4>1, Zenon DEF TypeOK
    <3>2. m.cmd # "ping" /\ (phase = "handshake" => m # Plain("version"))
      BY <2>1 DEF RecvIgnored, Ignores
    <3> QED
      BY <2>2, <2>6, <3>1, <3>2 DEF TookOther
  <2> QED
    BY <2>5, <2>6
<1>8. CASE Dial
  BY <1>8 DEF Dial, wire, history, Starts
<1>9. CASE Announce
  BY <1>9 DEF Announce, wire, history, Announces
<1>10. CASE WriteFails \/ ReadTimeout \/ ReadEof \/ DialFails
  BY <1>10 DEF WriteFails, ReadTimeout, ReadEof, DialFails, wire, history, Ends
<1> QED
  BY <1>1, <1>2, <1>3, <1>4, <1>5, <1>6, <1>7, <1>8, <1>9, <1>10 DEF Client, RecvAny

\* Sequences of one or two messages.
LEMMA ShortSequences ==
  ASSUME NEW x, NEW y
  PROVE  /\ Head(<<x>>) = x /\ Tail(<<x>>) = <<>> /\ <<x>> # <<>>
         /\ Head(<<x, y>>) = x /\ Tail(<<x, y>>) = <<y>> /\ <<x, y>> # <<x>> /\ <<x, y>> # <<>>
         /\ Append(<<>>, x) = <<x>> /\ Append(<<x>>, y) = <<x, y>>
<1>1. Head(<<x>>) = x /\ Tail(<<x>>) = <<>> /\ <<x>> # <<>>
  OBVIOUS
<1>2. Head(<<x, y>>) = x /\ <<x, y>> # <<x>> /\ <<x, y>> # <<>>
  OBVIOUS
<1>3. Tail(<<x, y>>) = <<y>>
  OBVIOUS
<1>4. Append(<<>>, x) = <<x>>
  OBVIOUS
<1>5. Append(<<x>>, y) = <<x, y>>
  <2> DEFINE s == Append(<<x>>, y)
             t == <<x, y>>
  <2>1. s \in Seq({x, y}) /\ Len(s) = 2 /\ s[1] = x /\ s[2] = y
    OBVIOUS
  <2>2. t \in Seq({x, y}) /\ Len(t) = 2 /\ t[1] = x /\ t[2] = y
    OBVIOUS
  <2> HIDE DEF s, t
  <2>3. s \in [1..2 -> {x, y}] /\ t \in [1..2 -> {x, y}]
    BY <2>1, <2>2
  <2>4. \A i \in 1..2 : s[i] = t[i]
    BY <2>1, <2>2
  <2>5. s = t
    BY <2>3, <2>4
  <2> QED
    BY <2>5 DEF s, t
<1> QED
  BY <1>1, <1>2, <1>3, <1>4, <1>5

\* What kind of message each of the reading steps takes.
LEMMA TakenCommand ==
    /\ TookVersion => Head(toClient).cmd = "version"
    /\ TookPing => Head(toClient).cmd = "ping"
    /\ TookGetData => Head(toClient).cmd = "getdata"
    /\ TookOther => /\ Head(toClient).cmd # "ping"
                    /\ phase = "handshake" => Head(toClient) # Plain("version")
                    /\ phase \in {"wait", "listen"} => Head(toClient) # Plain("getdata")
    /\ TookVersion \/ TookPing \/ TookGetData \/ TookOther =>
          toClient # <<>> /\ Reading /\ toClient' = Tail(toClient)
<1>1. TookVersion => Head(toClient).cmd = "version"
  BY DEF TookVersion, Took
<1>2. TookPing => Head(toClient).cmd = "ping"
  BY DEF TookPing, Took
<1>3. TookGetData => Head(toClient).cmd = "getdata"
  BY DEF TookGetData, Took
<1>4. TookOther => /\ Head(toClient).cmd # "ping"
                   /\ phase = "handshake" => Head(toClient) # Plain("version")
                   /\ phase \in {"wait", "listen"} => Head(toClient) # Plain("getdata")
  BY DEF TookOther, Took
<1>5. TookVersion \/ TookPing \/ TookGetData \/ TookOther =>
        toClient # <<>> /\ Reading /\ toClient' = Tail(toClient)
  BY DEF TookVersion, TookPing, TookGetData, TookOther, Took
<1> QED
  BY <1>1, <1>2, <1>3, <1>4, <1>5

\* The node has seen nothing of the client.
FreshInv ==
    peer = "fresh" =>
        /\ phase \in {"dial", "handshake", "failed"}
        /\ toClient = <<>> /\ ~versionReceived /\ sent \subseteq {"version"}
        /\ \/ toPeer = <<>> /\ writing \in {Nothing, Plain("version")}
           \/ toPeer = <<Plain("version")>> /\ writing = Nothing /\ phase # "dial"

\* It has answered the client's version.
GreetedInv ==
    peer = "greeted" =>
        /\ phase \in {"handshake", "wait", "failed"}
        /\ \/ /\ toClient = <<Plain("version"), Plain("verack")>> /\ ~versionReceived
              /\ phase # "wait"
              /\ toPeer = <<>> /\ writing = Nothing /\ "inv" \notin sent
           \/ /\ toClient \in {<<Plain("verack")>>, <<>>} /\ versionReceived
              /\ \/ toPeer = <<>> /\ writing = Plain("verack") /\ "inv" \notin sent
                 \/ toPeer = <<Plain("verack")>> /\ writing \in {Nothing, Plain("inv")}
                      /\ "inv" \notin sent
                 \/ toPeer = <<Plain("verack"), Plain("inv")>> /\ writing = Nothing
                      /\ "inv" \in sent

\* Nothing has been asked of the client yet.
EarlyInv == peer \in {"fresh", "greeted"} => ping = Nothing /\ ~fetching /\ ~asked /\ copies = 0

\* While the node has seen nothing, the client has written its version at most
\* (relay.go:85).
LEMMA ClientWhileFresh ==
  ASSUME TypeOK, RelayInv, FreshInv, Client \/ DialFails, UNCHANGED peer PROVE FreshInv'
<1> SUFFICES ASSUME peer = "fresh" PROVE FreshInv'
  BY DEF FreshInv
<1>1. ~(TookVersion \/ TookPing \/ TookGetData \/ TookOther \/ Announces)
  BY DEF FreshInv, TookVersion, TookPing, TookGetData, TookOther, Took, Announces, HandshakeOver
<1>2. CASE Wrote
  <2>1. toPeer = <<>> /\ writing = Plain("version")
    BY <1>2 DEF Wrote, FreshInv
  <2>2. toPeer' = <<Plain("version")>>
    BY <1>2, <2>1 DEF Wrote
  <2> QED
    BY <1>2, <2>1, <2>2 DEF Wrote, FreshInv
<1>3. CASE Starts
  BY <1>3 DEF Starts, FreshInv
<1>4. CASE Ends
  BY <1>4 DEF Ends, FreshInv
<1> QED
  BY <1>1, <1>2, <1>3, <1>4, ClientCases

\* Until the node has the verack, the client has written it and the inv at most,
\* in this order (relay.go:104, relay.go:121).
LEMMA ClientWhileGreeted ==
  ASSUME TypeOK, RelayInv, GreetedInv, Client \/ DialFails, UNCHANGED peer PROVE GreetedInv'
<1> SUFFICES ASSUME peer = "greeted" PROVE GreetedInv'
  BY DEF GreetedInv
<1>1. ~Starts
  BY DEF Starts, GreetedInv
<1>2. CASE toClient = <<Plain("version"), Plain("verack")>>
  <2>1. /\ ~versionReceived /\ phase \in {"handshake", "failed"}
        /\ toPeer = <<>> /\ writing = Nothing /\ "inv" \notin sent
        /\ Head(toClient) = Plain("version") /\ Tail(toClient) = <<Plain("verack")>>
        /\ toClient # <<Plain("verack")>> /\ toClient # <<>>
    BY <1>2 DEF GreetedInv
  <2>2. CASE TookVersion
    BY <2>1, <2>2 DEF TookVersion, Took, GreetedInv
  <2>3. ~(Wrote \/ TookPing \/ TookGetData \/ TookOther \/ Announces)
    <3>1. Head(toClient).cmd = "version"
      BY <2>1
    <3>2. ~(TookPing \/ TookGetData)
      BY <3>1, TakenCommand
    <3>3. ~TookOther
      BY <2>1, TakenCommand DEF Reading
    <3>4. ~(Wrote \/ Announces)
      BY <2>1 DEF Wrote, Announces, HandshakeOver
    <3> QED
      BY <3>2, <3>3, <3>4
  <2>4. CASE Ends
    BY <1>2, <2>1, <2>4 DEF Ends, GreetedInv
  <2> QED
    BY <1>1, <2>2, <2>3, <2>4, ClientCases
<1>3. CASE toClient # <<Plain("version"), Plain("verack")>>
  <2>1. /\ toClient \in {<<Plain("verack")>>, <<>>} /\ versionReceived
        /\ phase \in {"handshake", "wait", "failed"}
        /\ \/ toPeer = <<>> /\ writing = Plain("verack") /\ "inv" \notin sent
           \/ toPeer = <<Plain("verack")>> /\ writing \in {Nothing, Plain("inv")}
                /\ "inv" \notin sent
           \/ toPeer = <<Plain("verack"), Plain("inv")>> /\ writing = Nothing /\ "inv" \in sent
    BY <1>3 DEF GreetedInv
  <2>2. toClient # <<>> => Head(toClient) = Plain("verack") /\ Tail(toClient) = <<>>
    BY <2>1, ShortSequences
  <2>3. ~(TookVersion \/ TookPing \/ TookGetData)
    <3>1. toClient # <<>> => Head(toClient).cmd = "verack"
      BY <2>2
    <3> QED
      BY <3>1, TakenCommand
  <2>4. CASE Wrote
    <3>1. CASE toPeer = <<>> /\ writing = Plain("verack")
      <4>1. toPeer' = <<Plain("verack")>> /\ "inv" \notin sent' /\ writing' = Nothing
        BY <2>1, <2>4, <3>1 DEF Wrote
      <4> QED
        BY <2>1, <2>4, <4>1 DEF Wrote, GreetedInv
    <3>2. CASE toPeer = <<Plain("verack")>> /\ writing = Plain("inv")
      <4>1. toPeer' = <<Plain("verack"), Plain("inv")>> /\ "inv" \in sent' /\ writing' = Nothing
        BY <2>4, <3>2, ShortSequences DEF Wrote
      <4> QED
        BY <2>1, <2>4, <4>1 DEF Wrote, GreetedInv
    <3> QED
      BY <2>1, <2>4, <3>1, <3>2 DEF Wrote
  <2>5. CASE TookOther
    <3>1. toClient' = <<>> /\ UNCHANGED <<toPeer, sent, writing, versionReceived>>
            /\ phase' \in {phase, "failed"}
      BY <2>2, <2>5 DEF TookOther, Took
    <3> QED
      BY <2>1, <3>1 DEF GreetedInv
  <2>6. CASE Announces
    <3>1. "inv" \notin sent
      BY <2>6 DEF Announces, RelayInv, HandshakeInv
    <3>2. toPeer = <<Plain("verack")>>
      BY <2>1, <2>6, <3>1 DEF Announces
    <3> QED
      BY <2>1, <2>6, <3>1, <3>2 DEF Announces, GreetedInv
  <2>7. CASE Ends
    BY <2>1, <2>7 DEF Ends, GreetedInv
  <2> QED
    BY <1>1, <2>3, <2>4, <2>5, <2>6, <2>7, ClientCases
<1> QED
  BY <1>2, <1>3

\* Before the node is ready nobody asks for the claim, so the client writes none.
LEMMA ClientWhileEarly ==
  ASSUME TypeOK, RelayInv, FreshInv, GreetedInv, EarlyInv, Client \/ DialFails, UNCHANGED peerVars
  PROVE  EarlyInv'
<1> SUFFICES ASSUME peer \in {"fresh", "greeted"} PROVE asked' = asked /\ copies' = copies
  BY DEF EarlyInv, peerVars
<1>1. ~TookGetData
  <2>1. toClient # <<>> => Head(toClient) \in {Plain("version"), Plain("verack")}
    BY DEF FreshInv, GreetedInv
  <2> QED
    BY <2>1 DEF TookGetData, Took
<1>2. writing.cmd # "tx"
  BY DEF FreshInv, GreetedInv
<1> QED
  BY <1>1, <1>2, ClientCases
     DEF Wrote, TookVersion, TookPing, TookOther, Took, Starts, Announces, Ends

(*************************************************************************)
(* Messages that are in the connection at most once, and the order of    *)
(* the claim once the node is ready                                      *)
(*************************************************************************)

Once(s, m) == \A i, j \in DOMAIN s : s[i] = m /\ s[j] = m => i = j

\* A message that is there once is gone when it is taken.
LEMMA OnceAfterTail ==
  ASSUME NEW S, NEW s \in Seq(S), s # <<>>, NEW m, Once(s, m)
  PROVE  Once(Tail(s), m) /\ (Head(s) = m => m \notin ToSet(Tail(s)))
<1>1. /\ Len(Tail(s)) = Len(s) - 1 /\ Len(s) \in Nat \ {0} /\ Head(s) = s[1]
      /\ DOMAIN s = 1..Len(s) /\ DOMAIN Tail(s) = 1..(Len(s) - 1)
  OBVIOUS
<1>2. \A i \in 1..(Len(s) - 1) : Tail(s)[i] = s[i + 1] /\ i + 1 \in 1..Len(s) /\ i + 1 # 1
  OBVIOUS
<1>3. Once(Tail(s), m)
  <2> SUFFICES ASSUME NEW i \in 1..(Len(s) - 1), NEW j \in 1..(Len(s) - 1),
                      Tail(s)[i] = m, Tail(s)[j] = m
               PROVE  i = j
    BY <1>1 DEF Once
  <2>1. s[i + 1] = m /\ s[j + 1] = m
    BY <1>2
  <2>2. i + 1 = j + 1
    BY <1>1, <1>2, <2>1 DEF Once
  <2> QED
    BY <2>2
<1>4. ASSUME Head(s) = m, m \in ToSet(Tail(s)) PROVE FALSE
  <2>1. PICK i \in 1..(Len(s) - 1) : Tail(s)[i] = m
    BY <1>1, <1>4 DEF ToSet
  <2>2. s[i + 1] = m /\ s[1] = m /\ 1 \in 1..Len(s)
    BY <1>1, <1>2, <1>4, <2>1
  <2> QED
    BY <1>1, <1>2, <2>2 DEF Once
<1> QED
  BY <1>3, <1>4

\* Writing a message puts it there once if it was not there.
LEMMA OnceAfterAppend ==
  ASSUME NEW S, NEW s \in Seq(S), NEW e, NEW m, Once(s, m), e = m => m \notin ToSet(s)
  PROVE  Once(Append(s, e), m)
<1>1. /\ DOMAIN s = 1..Len(s) /\ DOMAIN Append(s, e) = 1..(Len(s) + 1) /\ Len(s) \in Nat
      /\ \A i \in 1..Len(s) : Append(s, e)[i] = s[i]
      /\ Append(s, e)[Len(s) + 1] = e
  OBVIOUS
<1> DEFINE t == Append(s, e)
<1> SUFFICES ASSUME NEW i \in 1..(Len(s) + 1), NEW j \in 1..(Len(s) + 1), t[i] = m, t[j] = m
             PROVE  i = j
  BY <1>1 DEF Once
<1>2. \A k \in 1..Len(s) : s[k] = m => e # m
  BY <1>1 DEF ToSet
<1>3. i \in 1..Len(s) \/ i = Len(s) + 1
  BY <1>1
<1>4. j \in 1..Len(s) \/ j = Len(s) + 1
  BY <1>1
<1> HIDE DEF t
<1>5. (i \in 1..Len(s) => s[i] = m) /\ (i = Len(s) + 1 => e = m)
  BY <1>1 DEF t
<1>6. (j \in 1..Len(s) => s[j] = m) /\ (j = Len(s) + 1 => e = m)
  BY <1>1 DEF t
<1>7. CASE i \in 1..Len(s) /\ j \in 1..Len(s)
  BY <1>1, <1>5, <1>6, <1>7 DEF Once
<1> QED
  BY <1>2, <1>3, <1>4, <1>5, <1>6, <1>7

\* What is not there is there at most once.
LEMMA OnceWhenAbsent ==
  ASSUME NEW s, NEW m, m \notin ToSet(s) PROVE Once(s, m)
BY DEF Once, ToSet

\* No greeting is on its way any more.
ReadyInv ==
    peer = "ready" =>
        /\ phase # "dial" /\ versionReceived
        /\ Plain("version") \notin ToSet(toClient)
        /\ Plain("version") \notin ToSet(toPeer) /\ Plain("verack") \notin ToSet(toPeer)
        /\ writing \notin {Plain("version"), Plain("verack")}

\* The claim is announced, asked for and written, one after the other.
CourseInv ==
    peer = "ready" =>
        /\ writing = Plain("inv") => "inv" \notin sent
        /\ "inv" \notin sent =>
              Plain("inv") \notin ToSet(toPeer) /\ ~fetching
                /\ Plain("getdata") \notin ToSet(toClient) /\ ~asked
        /\ Plain("inv") \in ToSet(toPeer) =>
              ~fetching /\ Plain("getdata") \notin ToSet(toClient) /\ ~asked
        /\ Plain("getdata") \in ToSet(toClient) => fetching /\ ~asked
        /\ asked /\ copies = 0 => fetching
        /\ copies > 0 => asked
        /\ copies = 0 => Plain("tx") \notin ToSet(toPeer)
        /\ Plain("tx") \in ToSet(toPeer) => fetching
        /\ Once(toPeer, Plain("inv")) /\ Once(toClient, Plain("getdata"))
             /\ Once(toPeer, Plain("tx"))

\* After the handshake the client greets no more (relay.go:91).
LEMMA ClientWhileReady ==
  ASSUME TypeOK, RelayInv, ReadyInv, Client \/ DialFails, UNCHANGED peer PROVE ReadyInv'
<1> SUFFICES ASSUME peer = "ready" PROVE ReadyInv'
  BY DEF ReadyInv
<1>0. /\ phase # "dial" /\ versionReceived
      /\ Plain("version") \notin ToSet(toClient)
      /\ Plain("version") \notin ToSet(toPeer) /\ Plain("verack") \notin ToSet(toPeer)
      /\ writing \notin {Plain("version"), Plain("verack")}
  BY DEF ReadyInv
<1>1. ToSet(toClient') \subseteq ToSet(toClient)
  BY ClientAndWire, SetOfTail DEF TypeOK
<1>2. Plain("version") \notin ToSet(toPeer') /\ Plain("verack") \notin ToSet(toPeer')
  <2>1. ToSet(toPeer') \subseteq ToSet(toPeer) \cup {writing}
    BY ClientAndWire, SetOfAppend DEF TypeOK
  <2> QED
    BY <1>0, <2>1
<1>3. ~TookVersion
  BY <1>0, SetOfTail DEF TookVersion, Took, TypeOK
<1>4. phase' # "dial" /\ versionReceived'
  BY <1>0, <1>3, ClientAndWire
     DEF Client, RecvAny, DialFails, Dial, Written, AfterTx, WriteFails, RecvVersion,
     RecvVerAck, RecvPing, RecvGetData, RecvIgnored, RecvGarbage, Receives, ReadTimeout,
     ReadEof, Announce, client
<1>5. writing' \notin {Plain("version"), Plain("verack")}
  <2>1. writing' \in {writing, Nothing, Plain("tx"),
          Plain("inv")} \/ \E n \in PingNonces : writing' = Pong(n)
    BY <1>0, <1>3, ClientCases
       DEF Wrote, TookPing, TookGetData, TookOther, Starts, Announces, Ends
  <2>2. \A n \in PingNonces : Pong(n).cmd = "pong"
    OBVIOUS
  <2> QED
    BY <1>0, <2>1, <2>2
<1> QED
  BY <1>0, <1>1, <1>2, <1>4, <1>5 DEF ReadyInv

\* A message for the client is taken or left, and nothing else appears.
LEMMA TakenOrLeft ==
  ASSUME TypeOK, Client \/ DialFails, NEW m, Once(toClient, m)
  PROVE  Once(toClient', m) /\ (m \in ToSet(toClient') => m \in ToSet(toClient))
<1>1. CASE UNCHANGED toClient
  BY <1>1 DEF Once
<1>2. CASE toClient # <<>> /\ toClient' = Tail(toClient)
  <2>1. Once(Tail(toClient), m) /\ ToSet(Tail(toClient)) \subseteq ToSet(toClient)
    BY <1>2, SetOfTail, OnceAfterTail DEF TypeOK
  <2>2. Once(toClient', m) <=> Once(Tail(toClient), m)
    BY <1>2 DEF Once
  <2> QED
    BY <1>2, <2>1, <2>2
<1> QED
  BY <1>1, <1>2, ClientAndWire

\* The client writes one inv and one claim, the claim after it was asked for
\* (relay.go:116 to relay.go:155).
LEMMA CourseKept ==
  ASSUME TypeOK, RelayInv, CourseInv, Client \/ DialFails, UNCHANGED peerVars PROVE CourseInv'
<1> SUFFICES ASSUME peer = "ready" PROVE CourseInv'
  BY DEF CourseInv, peerVars
<1> DEFINE inv == Plain("inv")
           tx == Plain("tx")
           getdata == Plain("getdata")
<1>0. /\ writing = inv => "inv" \notin sent
      /\ "inv" \notin sent => inv \notin ToSet(toPeer) /\ ~fetching
           /\ getdata \notin ToSet(toClient) /\ ~asked
      /\ inv \in ToSet(toPeer) => ~fetching /\ getdata \notin ToSet(toClient) /\ ~asked
      /\ getdata \in ToSet(toClient) => fetching /\ ~asked
      /\ asked /\ copies = 0 => fetching
      /\ copies > 0 => asked
      /\ copies = 0 => tx \notin ToSet(toPeer)
      /\ tx \in ToSet(toPeer) => fetching
      /\ Once(toPeer, inv) /\ Once(toClient, getdata) /\ Once(toPeer, tx)
  BY DEF CourseInv
<1>1. copies \in Nat /\ UNCHANGED fetching /\ peer' = "ready"
  BY DEF TypeOK, peerVars
<1>2. Once(toClient', getdata) /\ (getdata \in ToSet(toClient') => getdata \in ToSet(toClient))
  BY <1>0, TakenOrLeft
<1>3. CASE Wrote
  <2>1. /\ toPeer' = Append(toPeer, writing) /\ ToSet(toPeer') = ToSet(toPeer) \cup {writing}
        /\ writing' = Nothing /\ sent' = sent \cup {writing.cmd}
        /\ copies' = IF writing.cmd = "tx" THEN copies + 1 ELSE copies
        /\ UNCHANGED <<toClient, asked>>
        /\ writing \in FromClient
    BY <1>3, SetOfAppend DEF Wrote, TypeOK
  <2>2. CASE writing = inv
    <3>1. writing.cmd = "inv" /\ writing # tx
      BY <2>2
    <3>2. inv \notin ToSet(toPeer)
      BY <1>0, <2>2
    <3>3. Once(toPeer', inv) /\ Once(toPeer', tx)
      BY <1>0, <2>1, <2>2, <3>1, <3>2, OnceAfterAppend DEF TypeOK
    <3>4. "inv" \in sent' /\ copies' = copies /\ writing' # inv
      BY <2>1, <3>1
    <3>5. tx \in ToSet(toPeer') => tx \in ToSet(toPeer)
      BY <2>1, <3>1
    <3> HIDE DEF inv, tx, getdata
    <3> QED
      BY <1>0, <1>1, <2>1, <2>2, <3>3, <3>4, <3>5 DEF CourseInv, inv, tx, getdata
  <2>3. CASE writing = tx
    <3>1. writing.cmd = "tx" /\ writing # inv
      BY <2>3
    <3>2. phase = "send" /\ asked /\ copies = 0
      BY <1>3, <3>1 DEF Wrote, RelayInv, HandshakeInv, WaitInv, SendInv, ListenInv
    <3>3. tx \notin ToSet(toPeer) /\ fetching
      BY <1>0, <3>2
    <3>4. Once(toPeer', inv) /\ Once(toPeer', tx)
      BY <1>0, <2>1, <2>3, <3>1, <3>3, OnceAfterAppend DEF TypeOK
    <3>5. "inv" \in sent /\ "inv" \in sent' /\ copies' = 1 /\ writing' # inv
      BY <1>0, <2>1, <3>1, <3>2
    <3>6. inv \in ToSet(toPeer') => inv \in ToSet(toPeer)
      BY <2>1, <3>1
    <3> HIDE DEF inv, tx, getdata
    <3> QED
      BY <1>0, <1>1, <2>1, <3>2, <3>3, <3>4, <3>5, <3>6 DEF CourseInv, inv, tx, getdata
  <2>4. CASE writing # inv /\ writing # tx
    <3>1. writing.cmd # "inv" /\ writing.cmd # "tx"
      BY <2>1, <2>4, CommandTells DEF FromClient
    <3>2. Once(toPeer', inv) /\ Once(toPeer', tx)
      BY <1>0, <2>1, <2>4, OnceAfterAppend DEF TypeOK
    <3>3. ("inv" \in sent' <=> "inv" \in sent) /\ copies' = copies /\ writing' # inv
      BY <2>1, <3>1
    <3>4. (inv \in ToSet(toPeer') => inv \in ToSet(toPeer))
            /\ (tx \in ToSet(toPeer') => tx \in ToSet(toPeer))
      BY <2>1, <2>4
    <3> HIDE DEF inv, tx, getdata
    <3> QED
      BY <1>0, <1>1, <2>1, <3>2, <3>3, <3>4 DEF CourseInv, inv, tx, getdata
  <2> QED
    BY <2>2, <2>3, <2>4
<1>4. CASE TookGetData
  <2>1. /\ toClient # <<>> /\ getdata = Head(toClient) /\ toClient' = Tail(toClient) /\ asked'
        /\ UNCHANGED <<toPeer, sent, copies>> /\ writing' \in {Nothing, tx}
    BY <1>4 DEF TookGetData, Took
  <2>2. getdata \in ToSet(toClient) /\ getdata \notin ToSet(toClient')
    BY <1>0, <2>1, SetOfTail, OnceAfterTail DEF TypeOK
  <2>3. writing' # inv
    BY <2>1
  <2> HIDE DEF inv, tx, getdata
  <2> QED
    BY <1>0, <1>1, <1>2, <2>1, <2>2, <2>3 DEF CourseInv, inv, tx, getdata
<1>5. CASE TookVersion \/ TookPing \/ TookOther \/ Starts \/ Announces \/ Ends
  <2>1. UNCHANGED <<toPeer, sent, asked, copies>>
    BY <1>5 DEF TookVersion, TookPing, TookOther, Took, Starts, Announces, Ends
  <2>2. writing' = inv => "inv" \notin sent
    <3>1. CASE Announces
      BY <3>1 DEF Announces, RelayInv, HandshakeInv
    <3>2. CASE TookPing
      BY <3>2 DEF TookPing
    <3>3. CASE TookVersion \/ TookOther \/ Starts \/ Ends
      BY <1>0, <3>3 DEF TookVersion, TookOther, Starts, Ends
    <3> QED
      BY <1>5, <3>1, <3>2, <3>3
  <2> HIDE DEF inv, tx, getdata
  <2> QED
    BY <1>0, <1>1, <1>2, <2>1, <2>2 DEF CourseInv, inv, tx, getdata
<1> QED
  BY <1>3, <1>4, <1>5, ClientCases

(*************************************************************************)
(* The pings                                                             *)
(*************************************************************************)

\* At most one ping is open, and it is in one place: on its way to the client,
\* being answered, or answered and on its way back.
NoPong(s) == \A m \in s : m.cmd # "pong"
NoPing(s) == \A m \in s : m.cmd # "ping"

PongInv ==
    peer = "ready" =>
        /\ \A m \in ToSet(toClient) : m.cmd = "ping" => m = ping
        /\ writing.cmd = "pong" => ping.cmd = "ping" /\ writing = Pong(ping.nonce)
        /\ \A m \in ToSet(toPeer) : m.cmd = "pong" => ping.cmd = "ping" /\ m = Pong(ping.nonce)
        /\ ~NoPing(ToSet(toClient)) => writing.cmd # "pong" /\ NoPong(ToSet(toPeer))
        /\ writing.cmd = "pong" => NoPong(ToSet(toPeer))
        /\ Once(toClient, ping) /\ Once(toPeer, Pong(ping.nonce))

\* The client answers the open ping once, with its nonce (relay.go:203).
LEMMA PongKept ==
  ASSUME TypeOK, RelayInv, PongInv, Client \/ DialFails, UNCHANGED peerVars PROVE PongInv'
<1> SUFFICES ASSUME peer = "ready" PROVE PongInv'
  BY DEF PongInv, peerVars
<1> DEFINE back == Pong(ping.nonce)
<1>0. /\ \A m \in ToSet(toClient) : m.cmd = "ping" => m = ping
      /\ writing.cmd = "pong" => ping.cmd = "ping" /\ writing = back
      /\ \A m \in ToSet(toPeer) : m.cmd = "pong" => ping.cmd = "ping" /\ m = back
      /\ ~NoPing(ToSet(toClient)) => writing.cmd # "pong" /\ NoPong(ToSet(toPeer))
      /\ writing.cmd = "pong" => NoPong(ToSet(toPeer))
      /\ Once(toClient, ping) /\ Once(toPeer, back)
  BY DEF PongInv
<1>1. ping' = ping /\ back' = back /\ peer' = "ready" /\ back.cmd = "pong"
  BY DEF peerVars
<1>2. Once(toClient', ping)
  BY <1>0, TakenOrLeft
<1>3. ToSet(toClient') \subseteq ToSet(toClient)
  BY ClientAndWire, SetOfTail DEF TypeOK
<1>4. NoPing(ToSet(toClient)) => NoPing(ToSet(toClient'))
  BY <1>3 DEF NoPing
<1>5. CASE Wrote
  <2>1. /\ toPeer' = Append(toPeer, writing) /\ ToSet(toPeer') = ToSet(toPeer) \cup {writing}
        /\ writing'.cmd # "pong" /\ UNCHANGED toClient
    BY <1>5, SetOfAppend DEF Wrote, TypeOK
  <2>2. \A m \in ToSet(toPeer') : m.cmd = "pong" => ping.cmd = "ping" /\ m = back
    BY <1>0, <2>1
  <2>3. Once(toPeer', back)
    <3>1. writing = back => back \notin ToSet(toPeer)
      BY <1>0, <1>1 DEF NoPong
    <3>2. Once(Append(toPeer, writing), back)
      BY <1>0, <3>1, OnceAfterAppend DEF TypeOK
    <3> QED
      BY <2>1, <3>2 DEF Once
  <2>4. ~NoPing(ToSet(toClient')) => NoPong(ToSet(toPeer'))
    BY <1>0, <2>1 DEF NoPong
  <2> HIDE DEF back
  <2> QED
    BY <1>0, <1>1, <1>2, <2>1, <2>2, <2>3, <2>4 DEF PongInv, back
<1>6. CASE TookPing
  <2>1. PICK n \in PingNonces : Took(Ping(n)) /\ writing' = Pong(n)
    BY <1>6 DEF TookPing
  <2>2. /\ toClient # <<>> /\ Ping(n) = Head(toClient) /\ toClient' = Tail(toClient)
             /\ toPeer' = toPeer
    BY <2>1 DEF Took
  <2>3. Ping(n) \in ToSet(toClient) /\ Ping(n).cmd = "ping" /\ Ping(n).nonce = n
    BY <2>2, SetOfTail DEF TypeOK
  <2>4. ping = Ping(n)
    BY <1>0, <2>3
  <2>5. NoPong(ToSet(toPeer))
    BY <1>0, <2>3 DEF NoPing
  <2>6. ping \notin ToSet(toClient')
    BY <1>0, <2>2, <2>4, OnceAfterTail DEF TypeOK
  <2>7. NoPing(ToSet(toClient'))
    BY <1>0, <1>3, <2>6 DEF NoPing
  <2>8. writing' = back /\ ping.cmd = "ping"
    BY <2>1, <2>3, <2>4
  <2> HIDE DEF back
  <2>9. Once(toPeer', back) /\ NoPong(ToSet(toPeer'))
    BY <1>0, <2>2, <2>5
  <2> QED
    BY <1>0, <1>1, <1>2, <1>3, <2>2, <2>7, <2>8, <2>9 DEF PongInv, back, NoPong
<1>7. CASE TookVersion \/ TookGetData \/ TookOther \/ Starts \/ Announces \/ Ends
  <2>1. toPeer' = toPeer
    BY <1>7 DEF TookVersion, TookGetData, TookOther, Took, Starts, Announces, Ends
  <2>2. writing' = writing \/ writing'.cmd # "pong"
    BY <1>7 DEF TookVersion, TookGetData, TookOther, Starts, Announces, Ends
  <2> HIDE DEF back
  <2>3. Once(toPeer', back)
    BY <1>0, <2>1
  <2> QED
    BY <1>0, <1>1, <1>2, <1>3, <1>4, <2>1, <2>2, <2>3 DEF PongInv, back
<1> QED
  BY <1>5, <1>6, <1>7, ClientCases

(*************************************************************************)
(* The node takes the greeting                                           *)
(*************************************************************************)

\* The sets of the empty connection and of one message.
LEMMA SetOfShort == ToSet(<<>>) = {} /\ \A x : ToSet(<<x>>) = {x}
<1>1. ToSet(<<>>) = {}
  BY DEF ToSet
<1>2. ASSUME NEW x PROVE ToSet(<<x>>) = {x}
  <2>1. DOMAIN <<x>> = {1} /\ <<x>>[1] = x
    OBVIOUS
  <2> QED
    BY <2>1 DEF ToSet
<1> QED
  BY <1>1, <1>2

\* The next message the node takes tells how far the handshake is: the version
\* first, then the verack, and nothing else before them.
LEMMA HeadTells ==
  ASSUME TypeOK, PeerTypes, FreshInv, GreetedInv, ReadyInv, peer # "stranger", toPeer # <<>>
  PROVE  /\ Head(toPeer) = Plain("version") =>
              peer = "fresh" /\ toPeer = <<Plain("version")>>
         /\ Head(toPeer) = Plain("verack") =>
              /\ peer = "greeted"
              /\ toPeer \in {<<Plain("verack")>>, <<Plain("verack"), Plain("inv")>>}
         /\ Head(toPeer) \notin {Plain("version"), Plain("verack")} => peer = "ready"
<1>1. CASE peer = "fresh"
  <2>1. toPeer = <<Plain("version")>>
    BY <1>1 DEF FreshInv
  <2>2. Head(toPeer) = Plain("version") /\ Plain("version").cmd = "version"
          /\ Plain("verack").cmd = "verack"
    BY <2>1, ShortSequences
  <2> QED
    BY <1>1, <2>1, <2>2
<1>2. CASE peer = "greeted"
  <2>1. toPeer \in {<<Plain("verack")>>, <<Plain("verack"), Plain("inv")>>}
    BY <1>2 DEF GreetedInv
  <2>2. Head(toPeer) = Plain("verack") /\ Plain("version").cmd = "version"
          /\ Plain("verack").cmd = "verack"
    BY <2>1, ShortSequences
  <2> QED
    BY <1>2, <2>1, <2>2
<1>3. CASE peer = "ready"
  <2>1. Head(toPeer) \in ToSet(toPeer)
    BY SetOfTail DEF TypeOK
  <2> QED
    BY <1>3, <2>1 DEF ReadyInv
<1> QED
  BY <1>1, <1>2, <1>3 DEF PeerTypes

ManneredInv ==
    /\ peer # "stranger" => FreshInv /\ GreetedInv /\ EarlyInv /\ ReadyInv /\ CourseInv /\ PongInv
    /\ ~misused

\* The node gets the client's version: it is the first it hears of it
\* (relay.go:85).
LEMMA VersionMannered ==
  ASSUME TypeOK, PeerTypes, RelayInv, ManneredInv, PeerGetsVersion PROVE ManneredInv'
<1>1. peer = "fresh" /\ toPeer = <<Plain("version")>> /\ peer' = "greeted" /\ ~misused'
  BY HeadTells DEF PeerGetsVersion, Handles, ManneredInv
<1>2. /\ phase' = phase /\ versionReceived' = versionReceived /\ writing' = writing
      /\ UNCHANGED <<sent, asked, copies, ping, fetching>>
      /\ toPeer' = Tail(toPeer) /\ toClient' = toClient \o <<Plain("version"), Plain("verack")>>
  BY DEF PeerGetsVersion, Handles, client, history
<1>3. /\ phase \in {"handshake", "failed"} /\ toClient = <<>> /\ ~versionReceived
      /\ sent \subseteq {"version"} /\ writing = Nothing
  BY <1>1 DEF ManneredInv, FreshInv
<1>4. toPeer' = <<>> /\ toClient' = <<Plain("version"), Plain("verack")>>
  <2>1. toPeer' = <<>>
    BY <1>1, <1>2, ShortSequences
  <2>2. \A x, y : <<>> \o <<x, y>> = <<x, y>>
    OBVIOUS
  <2> QED
    BY <1>2, <1>3, <2>1, <2>2
<1>5. GreetedInv'
  BY <1>1, <1>2, <1>3, <1>4 DEF GreetedInv
<1>6. EarlyInv'
  BY <1>1, <1>2 DEF EarlyInv, ManneredInv
<1> QED
  BY <1>1, <1>5, <1>6 DEF ManneredInv, FreshInv, ReadyInv, CourseInv, PongInv

\* The node gets the client's verack: it has greeted and is ready now
\* (relay.go:104).
LEMMA VerAckMannered ==
  ASSUME TypeOK, PeerTypes, RelayInv, ManneredInv, PeerGetsVerAck PROVE ManneredInv'
<1>1. /\ peer = "greeted" /\ peer' = "ready" /\ ~misused'
      /\ toPeer \in {<<Plain("verack")>>, <<Plain("verack"), Plain("inv")>>}
  BY HeadTells DEF PeerGetsVerAck, Handles, ManneredInv
<1>2. /\ UNCHANGED <<phase, versionReceived, writing, sent, asked, copies, ping, fetching>>
      /\ toPeer' = Tail(toPeer)
  BY DEF PeerGetsVerAck, Handles, client, history
<1>3. toClient' = toClient
  BY DEF PeerGetsVerAck, Handles, TypeOK
<1>4. /\ phase \in {"handshake", "wait", "failed"} /\ versionReceived
      /\ toClient \in {<<Plain("verack")>>, <<>>}
      /\ \/ toPeer = <<Plain("verack")>> /\ writing \in {Nothing, Plain("inv")}
              /\ "inv" \notin sent
         \/ toPeer = <<Plain("verack"), Plain("inv")>> /\ writing = Nothing /\ "inv" \in sent
  <2>1. toPeer # <<>>
    BY <1>1, ShortSequences
  <2>2. GreetedInv
    BY <1>1 DEF ManneredInv
  <2>3. /\ phase \in {"handshake", "wait", "failed"} /\ versionReceived
        /\ toClient \in {<<Plain("verack")>>, <<>>}
        /\ \/ toPeer = <<Plain("verack")>> /\ writing \in {Nothing, Plain("inv")}
                /\ "inv" \notin sent
           \/ toPeer = <<Plain("verack"), Plain("inv")>> /\ writing = Nothing /\ "inv" \in sent
    <3> HIDE DEF Plain, Nothing
    <3> QED
      BY <1>1, <2>1, <2>2 DEF GreetedInv
  <2> QED
    BY <2>3
<1>5. ToSet(toClient') \subseteq {Plain("verack")}
  BY <1>3, <1>4, SetOfShort
<1>6. \/ ToSet(toPeer') = {} /\ writing \in {Nothing, Plain("inv")} /\ "inv" \notin sent
           /\ toPeer' = <<>>
      \/ ToSet(toPeer') = {Plain("inv")} /\ writing = Nothing /\ "inv" \in sent
           /\ toPeer' = <<Plain("inv")>>
  <2>1. CASE toPeer = <<Plain("verack")>> /\ writing \in {Nothing, Plain("inv")}
               /\ "inv" \notin sent
    <3>1. toPeer' = <<>>
      BY <1>2, <2>1, ShortSequences
    <3> QED
      BY <2>1, <3>1, SetOfShort
  <2>2. CASE toPeer = <<Plain("verack"), Plain("inv")>> /\ writing = Nothing /\ "inv" \in sent
    <3>1. toPeer' = <<Plain("inv")>>
      BY <1>2, <2>2, ShortSequences
    <3> QED
      BY <2>2, <3>1, SetOfShort
  <2> QED
    BY <1>4, <2>1, <2>2
<1>7. /\ ping = Nothing /\ ~fetching /\ ~asked /\ copies = 0
  BY <1>1 DEF ManneredInv, EarlyInv
<1>8. ReadyInv'
  BY <1>1, <1>2, <1>4, <1>5, <1>6 DEF ReadyInv
<1>9. CourseInv'
  <2>1. Once(toPeer', Plain("inv"))
    <3>1. \A x : Once(<<>>, x) /\ Once(<<x>>, x)
      BY DEF Once
    <3> QED
      BY <1>6, <3>1
  <2>2. Plain("getdata") \notin ToSet(toClient') /\ Plain("tx") \notin ToSet(toPeer')
    BY <1>5, <1>6
  <2>3. Once(toClient', Plain("getdata")) /\ Once(toPeer', Plain("tx"))
    BY <2>2, OnceWhenAbsent
  <2>4. writing' = Plain("inv") => "inv" \notin sent'
    BY <1>2, <1>6
  <2>5. "inv" \notin sent' => Plain("inv") \notin ToSet(toPeer')
    BY <1>2, <1>6
  <2> QED
    BY <1>2, <1>7, <2>1, <2>2, <2>3, <2>4, <2>5 DEF CourseInv
<1>10. PongInv'
  <2>1. NoPing(ToSet(toClient')) /\ ping \notin ToSet(toClient') /\ writing'.cmd # "pong"
    BY <1>2, <1>5, <1>6, <1>7 DEF NoPing
  <2>2. NoPong(ToSet(toPeer'))
    BY <1>6 DEF NoPong
  <2>3. Pong(ping.nonce) \notin ToSet(toPeer')
    BY <2>2 DEF NoPong
  <2>4. Once(toClient', ping) /\ Once(toPeer', Pong(ping.nonce))
    BY <2>1, <2>3, OnceWhenAbsent
  <2>5. ping' = ping
    BY <1>2
  <2> QED
    BY <2>1, <2>2, <2>4, <2>5 DEF PongInv, NoPing, NoPong
<1> QED
  BY <1>1, <1>8, <1>9, <1>10 DEF ManneredInv, FreshInv, GreetedInv, EarlyInv

(*************************************************************************)
(* The node takes other messages                                         *)
(*************************************************************************)

\* What taking a message changes: it is gone, everything else stays, and the
\* answers are added.
LEMMA Handling ==
  ASSUME TypeOK, NEW m, NEW replies \in Seq(FromPeer), Handles(m, replies)
  PROVE  /\ UNCHANGED <<phase, versionReceived, writing, sent, asked, copies>>
         /\ m \in ToSet(toPeer) /\ ToSet(toPeer') \subseteq ToSet(toPeer)
         /\ \A x : Once(toPeer, x) => Once(toPeer', x) /\ (m = x => x \notin ToSet(toPeer'))
         /\ ToSet(toClient') = ToSet(toClient) \cup ToSet(replies)
<1>1. /\ UNCHANGED <<phase, versionReceived, writing, sent, asked, copies>>
      /\ toPeer # <<>> /\ m = Head(toPeer) /\ toPeer' = Tail(toPeer)
           /\ toClient' = toClient \o replies
  BY DEF Handles, client, history
<1>2. toPeer \in Seq(FromClient) /\ toClient \in Seq(FromPeer)
  BY DEF TypeOK
<1>3. m \in ToSet(toPeer) /\ ToSet(toPeer') \subseteq ToSet(toPeer)
  BY <1>1, <1>2, SetOfTail
<1>4. ToSet(toClient') = ToSet(toClient) \cup ToSet(replies)
  BY <1>1, <1>2, SetOfConcat
<1>5. ASSUME NEW x, Once(toPeer, x) PROVE Once(Tail(toPeer), x)
               /\ (m = x => x \notin ToSet(Tail(toPeer)))
  BY <1>1, <1>2, <1>5, OnceAfterTail
<1>6. ASSUME NEW x PROVE Once(toPeer', x) <=> Once(Tail(toPeer), x)
  BY <1>1 DEF Once
<1> QED
  BY <1>1, <1>3, <1>4, <1>5, <1>6

\* No answer of a node that is ready greets.
LEMMA ReadyAfterHandling ==
  ASSUME TypeOK, ReadyInv, peer = "ready", NEW m, NEW replies \in Seq(FromPeer), Handles(m,
           replies),
         ToSet(replies) \subseteq {Plain("getdata")}
  PROVE  ReadyInv'
<1>1. Plain("version") # Plain("getdata")
  <2>1. Plain("version").cmd = "version" /\ Plain("getdata").cmd = "getdata"
    OBVIOUS
  <2> QED
    BY <2>1
<1> QED
  BY <1>1, Handling DEF ReadyInv

\* The open ping is no getdata.
LEMMA PingIsNoRequest == ASSUME PeerTypes PROVE ping # Plain("getdata")
<1>1. ping.cmd \in {"ping", "nothing"}
  BY DEF PeerTypes
<1>2. Plain("getdata").cmd = "getdata"
  OBVIOUS
<1> QED
  BY <1>1, <1>2

\* Taking anything but a pong leaves the ping where it is.
LEMMA PongAfterHandling ==
  ASSUME TypeOK, PeerTypes, PongInv, peer = "ready", NEW m, NEW replies \in {<<>>,
           <<Plain("getdata")>>},
         Handles(m, replies), UNCHANGED ping
  PROVE  PongInv'
<1> DEFINE back == Pong(ping.nonce)
<1>1. replies \in Seq(FromPeer) /\ ToSet(replies) \subseteq {Plain("getdata")}
  <2>1. CASE replies = <<>>
    BY <2>1, SetOfShort
  <2>2. CASE replies = <<Plain("getdata")>>
    <3>1. Plain("getdata") \in FromPeer
      BY ClientMessages
    <3> QED
      BY <2>2, <3>1, SetOfShort
  <2> QED
    BY <2>1, <2>2
<1>2. /\ writing' = writing /\ ToSet(toPeer') \subseteq ToSet(toPeer)
      /\ Once(toPeer, back) => Once(toPeer', back)
      /\ ToSet(toClient') \subseteq ToSet(toClient) \cup {Plain("getdata")}
  BY <1>1, Handling
<1>3. /\ \A x \in ToSet(toClient) : x.cmd = "ping" => x = ping
      /\ writing.cmd = "pong" => ping.cmd = "ping" /\ writing = back
      /\ \A x \in ToSet(toPeer) : x.cmd = "pong" => ping.cmd = "ping" /\ x = back
      /\ ~NoPing(ToSet(toClient)) => writing.cmd # "pong" /\ NoPong(ToSet(toPeer))
      /\ writing.cmd = "pong" => NoPong(ToSet(toPeer))
      /\ Once(toClient, ping) /\ Once(toPeer, back)
  BY DEF PongInv
<1>4. Plain("getdata").cmd = "getdata"
  OBVIOUS
<1>5. Once(toClient', ping)
  <2>1. toClient \in Seq(FromPeer)
    BY DEF TypeOK
  <2>2. CASE replies = <<>>
    <3>1. toClient' = toClient
      BY <2>1, <2>2 DEF Handles
    <3> QED
      BY <1>3, <3>1
  <2>3. CASE replies = <<Plain("getdata")>>
    <3>1. toClient' = Append(toClient, Plain("getdata"))
      BY <2>1, <2>3 DEF Handles
    <3>2. ping # Plain("getdata") => Once(Append(toClient, Plain("getdata")), ping)
      BY <1>3, <2>1, OnceAfterAppend
    <3>3. ping # Plain("getdata")
      BY PingIsNoRequest
    <3> QED
      BY <3>1, <3>2, <3>3 DEF Once
  <2> QED
    BY <2>2, <2>3
<1> HIDE DEF back
<1>6. (~NoPing(ToSet(toClient')) => ~NoPing(ToSet(toClient)))
        /\ (NoPong(ToSet(toPeer)) => NoPong(ToSet(toPeer')))
  BY <1>2, <1>4 DEF NoPing, NoPong
<1>7. \A x \in ToSet(toClient') : x.cmd = "ping" => x = ping
  BY <1>2, <1>3, <1>4
<1>8. back' = back /\ ping' = ping
  BY DEF back
<1> QED
  BY <1>2, <1>3, <1>5, <1>6, <1>7, <1>8 DEF PongInv, back

\* The node is told of the claim: it is ready, and asks for it if it lacks it
\* (relay.go:121).
LEMMA InvMannered ==
  ASSUME TypeOK, PeerTypes, RelayInv, ManneredInv, PeerGetsInv PROVE ManneredInv'
<1> DEFINE inv == Plain("inv")
           tx == Plain("tx")
           getdata == Plain("getdata")
           reply == IF has = "not" THEN <<getdata>> ELSE <<>>
<1>1. /\ Handles(inv, reply) /\ reply \in {<<>>, <<getdata>>}
      /\ fetching' = (has = "not") /\ UNCHANGED <<peer, ping>>
      /\ misused' = (misused \/ peer # "ready")
  BY DEF PeerGetsInv
<1>2. peer = "ready"
  <2>1. peer # "stranger" /\ toPeer # <<>> /\ inv = Head(toPeer)
    BY <1>1 DEF Handles
  <2>2. inv \notin {Plain("version"), Plain("verack")}
    OBVIOUS
  <2> QED
    BY <2>1, <2>2, HeadTells DEF ManneredInv
<1>3. reply \in Seq(FromPeer) /\ ToSet(reply) \subseteq {getdata}
        /\ (has # "not" => ToSet(reply) = {})
  <2>1. CASE has = "not"
    <3>1. getdata \in FromPeer /\ reply = <<getdata>>
      BY <2>1, ClientMessages
    <3> QED
      BY <2>1, <3>1, SetOfShort
  <2>2. CASE has # "not"
    BY <2>2, SetOfShort
  <2> QED
    BY <2>1, <2>2
<1>4. ReadyInv' /\ PongInv'
  BY <1>1, <1>2, <1>3, ReadyAfterHandling, PongAfterHandling DEF ManneredInv
<1>5. /\ UNCHANGED <<phase, writing, sent, asked, copies>>
      /\ inv \in ToSet(toPeer) /\ ToSet(toPeer') \subseteq ToSet(toPeer)
      /\ \A x : Once(toPeer, x) => Once(toPeer', x) /\ (inv = x => x \notin ToSet(toPeer'))
      /\ ToSet(toClient') = ToSet(toClient) \cup ToSet(reply)
  BY <1>1, <1>3, Handling
<1>6. /\ "inv" \in sent /\ ~fetching /\ getdata \notin ToSet(toClient) /\ ~asked
      /\ writing = inv => "inv" \notin sent
      /\ copies > 0 => asked
      /\ copies = 0 => tx \notin ToSet(toPeer)
      /\ Once(toPeer, inv) /\ Once(toClient, getdata) /\ Once(toPeer, tx)
  BY <1>2, <1>5 DEF ManneredInv, CourseInv
<1>7. copies = 0
  BY <1>6 DEF TypeOK
<1>8. Once(toClient', getdata)
  <2>1. toClient \in Seq(FromPeer)
    BY DEF TypeOK
  <2>2. CASE has = "not"
    <3>1. toClient' = Append(toClient, getdata)
      BY <1>1, <2>1, <2>2 DEF Handles
    <3>2. Once(Append(toClient, getdata), getdata)
      BY <1>6, <2>1, OnceAfterAppend
    <3> QED
      BY <3>1, <3>2 DEF Once
  <2>3. CASE has # "not"
    <3>1. toClient' = toClient
      BY <1>1, <2>1, <2>3 DEF Handles
    <3> QED
      BY <1>6, <3>1
  <2> QED
    BY <2>2, <2>3
<1> HIDE DEF inv, tx, getdata, reply
<1>9. inv \notin ToSet(toPeer') /\ tx \notin ToSet(toPeer') /\ Once(toPeer', inv)
        /\ Once(toPeer', tx)
  BY <1>5, <1>6, <1>7
<1>10. getdata \in ToSet(toClient') => fetching'
  BY <1>1, <1>3, <1>5, <1>6
<1>11. CourseInv'
  BY <1>1, <1>5, <1>6, <1>7, <1>8, <1>9, <1>10 DEF CourseInv, inv, tx, getdata
<1> QED
  BY <1>1, <1>2, <1>4, <1>11 DEF ManneredInv, FreshInv, GreetedInv, EarlyInv

\* The node gets the claim: it has asked for it (relay.go:145).
LEMMA TxMannered ==
  ASSUME TypeOK, PeerTypes, RelayInv, ManneredInv, PeerGetsTx PROVE ManneredInv'
<1> DEFINE inv == Plain("inv")
           tx == Plain("tx")
           getdata == Plain("getdata")
           none == <<>>
<1>1. /\ Handles(tx, none) /\ none \in {<<>>, <<getdata>>} /\ ~fetching'
           /\ UNCHANGED <<peer, ping>>
      /\ misused' = (misused \/ ~fetching)
  BY DEF PeerGetsTx
<1>2. peer = "ready"
  <2>1. peer # "stranger" /\ toPeer # <<>> /\ tx = Head(toPeer)
    BY <1>1 DEF Handles
  <2>2. tx \notin {Plain("version"), Plain("verack")}
    OBVIOUS
  <2> QED
    BY <2>1, <2>2, HeadTells DEF ManneredInv
<1>3. none \in Seq(FromPeer) /\ ToSet(none) = {}
  BY SetOfShort
<1>4. ReadyInv' /\ PongInv'
  BY <1>1, <1>2, <1>3, ReadyAfterHandling, PongAfterHandling DEF ManneredInv
<1>5. /\ UNCHANGED <<phase, writing, sent, asked, copies>>
      /\ tx \in ToSet(toPeer) /\ ToSet(toPeer') \subseteq ToSet(toPeer)
      /\ \A x : Once(toPeer, x) => Once(toPeer', x) /\ (tx = x => x \notin ToSet(toPeer'))
      /\ ToSet(toClient') = ToSet(toClient)
  BY <1>1, <1>3, Handling
<1>6. /\ fetching /\ copies # 0
      /\ writing = inv => "inv" \notin sent
      /\ "inv" \notin sent => inv \notin ToSet(toPeer) /\ getdata \notin ToSet(toClient) /\ ~asked
      /\ inv \in ToSet(toPeer) => getdata \notin ToSet(toClient) /\ ~asked
      /\ getdata \in ToSet(toClient) => ~asked
      /\ copies > 0 => asked
      /\ Once(toPeer, inv) /\ Once(toClient, getdata) /\ Once(toPeer, tx)
  BY <1>2, <1>5 DEF ManneredInv, CourseInv
<1>7. asked /\ getdata \notin ToSet(toClient)
  BY <1>6 DEF TypeOK
<1>8. Once(toClient', getdata)
  BY <1>5, <1>7, OnceWhenAbsent
<1> HIDE DEF inv, tx, getdata, none
<1>9. tx \notin ToSet(toPeer') /\ Once(toPeer', inv) /\ Once(toPeer', tx)
  BY <1>5, <1>6
<1>10. CourseInv'
  BY <1>1, <1>5, <1>6, <1>7, <1>8, <1>9 DEF CourseInv, inv, tx, getdata
<1>11. ~misused'
  BY <1>1, <1>6 DEF ManneredInv
<1> QED
  BY <1>1, <1>2, <1>4, <1>10, <1>11 DEF ManneredInv, FreshInv, GreetedInv, EarlyInv

\* What the course of the claim needs of a step that has no part in it.
LEMMA CourseUndisturbed ==
  ASSUME CourseInv, UNCHANGED <<peer, writing, sent, fetching, asked, copies>>,
         Plain("getdata") \in ToSet(toClient') => Plain("getdata") \in ToSet(toClient),
         ToSet(toPeer') \subseteq ToSet(toPeer),
         Once(toPeer, Plain("inv")) => Once(toPeer', Plain("inv")),
         Once(toPeer, Plain("tx")) => Once(toPeer', Plain("tx")),
         Once(toClient, Plain("getdata")) => Once(toClient', Plain("getdata"))
  PROVE  CourseInv'
<1> HIDE DEF Plain
<1> QED
  BY DEF CourseInv

\* No peer sends the absence of a message.
LEMMA NothingIsNoMessage == Nothing \notin FromPeer
<1> SUFFICES ASSUME Nothing \in FromPeer PROVE FALSE
  OBVIOUS
<1>1. Nothing.cmd = "nothing"
  OBVIOUS
<1>2. CASE \E c \in {"version", "verack", "getdata", "other", "garbage"} : Nothing = Plain(c)
  <2>1. PICK c \in {"version", "verack", "getdata", "other", "garbage"} : Nothing = Plain(c)
    BY <1>2
  <2>2. Plain(c).cmd = c
    OBVIOUS
  <2> QED
    BY <1>1, <2>1, <2>2
<1>3. CASE \E n \in PingNonces : Nothing = Ping(n)
  <2>1. PICK n \in PingNonces : Nothing = Ping(n)
    BY <1>3
  <2>2. Ping(n).cmd = "ping"
    OBVIOUS
  <2> QED
    BY <1>1, <2>1, <2>2
<1> QED
  BY <1>2, <1>3 DEF FromPeer

\* The node gets a pong: it has the nonce of the ping that is open
\* (relay.go:203).
LEMMA PongMannered ==
  ASSUME TypeOK, PeerTypes, RelayInv, ManneredInv, PeerGetsPong PROVE ManneredInv'
<1> DEFINE none == <<>>
<1>1. PICK n \in PingNonces :
         /\ Handles(Pong(n), none)
         /\ ping' = Nothing /\ misused' = (misused \/ ping # Ping(n))
         /\ UNCHANGED <<peer, fetching>>
  BY DEF PeerGetsPong
<1>2. peer = "ready"
  <2>1. peer # "stranger" /\ toPeer # <<>> /\ Pong(n) = Head(toPeer)
    BY <1>1 DEF Handles
  <2>2. Pong(n) \notin {Plain("version"), Plain("verack")}
    <3>1. Pong(n).cmd = "pong" /\ Plain("version").cmd = "version"
            /\ Plain("verack").cmd = "verack"
      OBVIOUS
    <3> QED
      BY <3>1
  <2> QED
    BY <2>1, <2>2, HeadTells DEF ManneredInv
<1>3. none \in Seq(FromPeer) /\ ToSet(none) = {}
  BY SetOfShort
<1>4. ReadyInv'
  BY <1>1, <1>2, <1>3, ReadyAfterHandling DEF ManneredInv
<1>5. /\ UNCHANGED <<phase, writing, sent, asked, copies>>
      /\ Pong(n) \in ToSet(toPeer) /\ ToSet(toPeer') \subseteq ToSet(toPeer)
      /\ \A x : Once(toPeer, x) => Once(toPeer', x) /\ (Pong(n) = x => x \notin ToSet(toPeer'))
      /\ ToSet(toClient') = ToSet(toClient)
  BY <1>1, <1>3, Handling
<1>6. toClient' = toClient
  BY <1>1 DEF Handles, TypeOK
<1>7. CourseInv'
  BY <1>1, <1>5, <1>6, CourseUndisturbed DEF ManneredInv, Handles
<1>8. Pong(n).cmd = "pong" /\ Pong(n).nonce = n
  OBVIOUS
<1>9. /\ ping.cmd = "ping" /\ Pong(n) = Pong(ping.nonce)
      /\ Once(toPeer, Pong(ping.nonce))
      /\ NoPing(ToSet(toClient)) /\ writing.cmd # "pong"
      /\ \A m \in ToSet(toPeer) : m.cmd = "pong" => m = Pong(ping.nonce)
  BY <1>2, <1>5, <1>8 DEF ManneredInv, PongInv, NoPong
<1>10. ping.nonce = n
  <2>1. Pong(ping.nonce).nonce = ping.nonce
    OBVIOUS
  <2> QED
    BY <1>8, <1>9, <2>1
<1>11. ping = Ping(n)
  <2>1. PICK k \in PingNonces : ping = Ping(k)
    <3>1. Nothing.cmd = "nothing"
      OBVIOUS
    <3> QED
      BY <1>9, <3>1 DEF PeerTypes
  <2>2. Ping(k).nonce = k
    OBVIOUS
  <2> QED
    BY <1>10, <2>1, <2>2
<1>12. NoPong(ToSet(toPeer'))
  BY <1>5, <1>9 DEF NoPong
<1>13. PongInv'
  <2>1. NoPing(ToSet(toClient')) /\ writing'.cmd # "pong"
    BY <1>5, <1>6, <1>9
  <2>2. ping' \notin ToSet(toClient')
    <3>1. CASE Nothing \in ToSet(toClient)
      <4>1. PICK i \in DOMAIN toClient : toClient[i] = Nothing
        BY <3>1 DEF ToSet
      <4>2. Nothing \in FromPeer
        BY <4>1 DEF TypeOK
      <4> QED
        BY <4>2, NothingIsNoMessage
    <3> QED
      BY <1>1, <1>5, <3>1
  <2>3. Pong(ping'.nonce) \notin ToSet(toPeer')
    <3>1. Pong(ping'.nonce).cmd = "pong"
      OBVIOUS
    <3> QED
      BY <1>12, <3>1 DEF NoPong
  <2>4. Once(toClient', ping') /\ Once(toPeer', Pong(ping'.nonce))
    BY <2>2, <2>3, OnceWhenAbsent
  <2> HIDE DEF Pong, Nothing
  <2> QED
    BY <1>12, <2>1, <2>4 DEF PongInv, NoPing, NoPong
<1>14. ~misused'
  BY <1>1, <1>11 DEF ManneredInv
<1> QED
  BY <1>1, <1>2, <1>4, <1>7, <1>13, <1>14 DEF ManneredInv, FreshInv, GreetedInv, EarlyInv

(*************************************************************************)
(* The whole session                                                     *)
(*************************************************************************)

\* The node pings when no ping is open, or sends what the client passes over.
LEMMA OwnMessagesMannered ==
  ASSUME TypeOK, PeerTypes, RelayInv, ManneredInv, PeerPings \/ PeerChats PROVE ManneredInv'
<1> DEFINE getdata == Plain("getdata")
<1>1. PICK m \in FromPeer :
         /\ PeerSends(m) /\ UNCHANGED <<peer, fetching, misused>> /\ peer = "ready"
         /\ \/ m.cmd = "ping" /\ ping = Nothing /\ ping' = m
            \/ m.cmd = "other" /\ ping' = ping
  <2>1. CASE PeerPings
    <3>1. PICK n \in PingNonces : /\ peer = "ready" /\ ping = Nothing /\ PeerSends(Ping(n))
                 /\ ping' = Ping(n)
                                  /\ UNCHANGED <<peer, fetching, misused>>
      BY <2>1 DEF PeerPings
    <3>2. Ping(n) \in FromPeer /\ Ping(n).cmd = "ping"
      BY ClientMessages
    <3> QED
      BY <3>1, <3>2
  <2>2. CASE PeerChats
    <3>1. Plain("other") \in FromPeer /\ Plain("other").cmd = "other"
      BY ClientMessages
    <3> QED
      BY <2>2, <3>1 DEF PeerChats, peerVars
  <2> QED
    BY <2>1, <2>2
<1>2. /\ UNCHANGED <<phase, versionReceived, writing, sent, asked, copies, toPeer>>
      /\ toClient' = Append(toClient, m) /\ toClient \in Seq(FromPeer)
  BY <1>1 DEF PeerSends, client, history, TypeOK
<1>3. ToSet(toClient') = ToSet(toClient) \cup {m}
  BY <1>2, SetOfAppend
<1>4. m # getdata /\ m # Plain("version")
  <2>1. getdata.cmd = "getdata" /\ Plain("version").cmd = "version"
    OBVIOUS
  <2> QED
    BY <1>1, <2>1
<1>5. ReadyInv'
  BY <1>1, <1>2, <1>3, <1>4 DEF ReadyInv, ManneredInv
<1>6. CourseInv'
  <2>1. Once(toClient, getdata) => Once(toClient', getdata)
    <3>1. Once(toClient, getdata) => Once(Append(toClient, m), getdata)
      BY <1>2, <1>4, OnceAfterAppend
    <3> QED
      BY <1>2, <3>1 DEF Once
  <2>2. CourseInv /\ peer # "stranger"
    BY <1>1 DEF ManneredInv
  <2> QED
    BY <1>1, <1>2, <1>3, <1>4, <2>1, <2>2, CourseUndisturbed
<1>7. /\ \A x \in ToSet(toClient) : x.cmd = "ping" => x = ping
      /\ writing.cmd = "pong" => ping.cmd = "ping" /\ writing = Pong(ping.nonce)
      /\ \A x \in ToSet(toPeer) : x.cmd = "pong" => ping.cmd = "ping" /\ x = Pong(ping.nonce)
      /\ ~NoPing(ToSet(toClient)) => writing.cmd # "pong" /\ NoPong(ToSet(toPeer))
      /\ writing.cmd = "pong" => NoPong(ToSet(toPeer))
      /\ Once(toClient, ping) /\ Once(toPeer, Pong(ping.nonce))
  BY <1>1 DEF ManneredInv, PongInv
<1>8. ASSUME m.cmd = "ping", ping = Nothing, ping' = m PROVE PongInv'
  <2>1. ping.cmd = "nothing"
    BY <1>8
  <2>2. NoPing(ToSet(toClient)) /\ NoPong(ToSet(toPeer)) /\ writing.cmd # "pong"
    BY <1>7, <2>1 DEF NoPing, NoPong
  <2>3. m \notin ToSet(toClient)
    BY <1>8, <2>2 DEF NoPing
  <2>4. Once(toClient', m)
    <3>1. Once(toClient, m)
      BY <2>3, OnceWhenAbsent
    <3>2. Once(Append(toClient, m), m)
      BY <1>2, <2>3, <3>1, OnceAfterAppend
    <3> QED
      BY <1>2, <3>2 DEF Once
  <2>5. Pong(m.nonce) \notin ToSet(toPeer)
    <3>1. Pong(m.nonce).cmd = "pong"
      OBVIOUS
    <3> QED
      BY <2>2, <3>1 DEF NoPong
  <2>6. Once(toPeer', Pong(m.nonce))
    BY <1>2, <2>5, OnceWhenAbsent
  <2>7. \A x \in ToSet(toClient') : x.cmd = "ping" => x = m
    BY <1>3, <2>2 DEF NoPing
  <2>8. ping' = m /\ writing' = writing /\ ToSet(toPeer') = ToSet(toPeer)
    BY <1>2, <1>8
  <2> DEFINE back == Pong(ping'.nonce)
  <2>9. Once(toClient', ping') /\ Once(toPeer', back)
    BY <2>4, <2>6, <2>8
  <2> HIDE DEF back
  <2>10. NoPong(ToSet(toPeer')) /\ writing'.cmd # "pong"
    BY <2>2, <2>8
  <2>11. \A x \in ToSet(toClient') : x.cmd = "ping" => x = ping'
    BY <2>7, <2>8
  <2>12. \A x \in ToSet(toPeer') : x.cmd # "pong"
    BY <2>10 DEF NoPong
  <2> QED
    BY <2>9, <2>10, <2>11, <2>12 DEF PongInv, back
<1>9. ASSUME m.cmd = "other", ping' = ping PROVE PongInv'
  <2>1. Once(toClient', ping)
    <3>1. m # ping
      <4>1. ping.cmd \in {"ping", "nothing"}
        BY DEF PeerTypes
      <4> QED
        BY <1>9, <4>1
    <3>2. Once(Append(toClient, m), ping)
      BY <1>2, <1>7, <3>1, OnceAfterAppend
    <3> QED
      BY <1>2, <3>2 DEF Once
  <2>2. ~NoPing(ToSet(toClient')) => ~NoPing(ToSet(toClient))
    BY <1>3, <1>9 DEF NoPing
  <2>3. \A x \in ToSet(toClient') : x.cmd = "ping" => x = ping
    BY <1>3, <1>7, <1>9
  <2> DEFINE back == Pong(ping.nonce)
  <2>4. ping' = ping /\ back' = back /\ writing' = writing /\ toPeer' = toPeer
    BY <1>2, <1>9
  <2>5. /\ writing.cmd = "pong" => ping.cmd = "ping" /\ writing = back
        /\ \A x \in ToSet(toPeer) : x.cmd = "pong" => ping.cmd = "ping" /\ x = back
        /\ Once(toPeer, back)
    BY <1>7
  <2> HIDE DEF back
  <2>6. Once(toPeer', back)
    BY <2>4, <2>5
  <2> QED
    BY <1>7, <2>1, <2>2, <2>3, <2>4, <2>5, <2>6 DEF PongInv, back
<1> QED
  BY <1>1, <1>5, <1>6, <1>8, <1>9 DEF ManneredInv, FreshInv, GreetedInv, EarlyInv

\* The client keeps to the protocol in every step.
LEMMA ClientMannered ==
  ASSUME TypeOK, RelayInv, ManneredInv, Client \/ DialFails, UNCHANGED peerVars PROVE ManneredInv'
<1>1. UNCHANGED <<peer, misused>>
  BY DEF peerVars
<1> QED
  BY <1>1, ClientWhileFresh, ClientWhileGreeted, ClientWhileEarly, ClientWhileReady,
     CourseKept, PongKept
     DEF ManneredInv

\* Time passing and the connection closing disturb none of this.
LEMMA FrameMannered ==
  ASSUME ManneredInv, UNCHANGED <<clientSide, toClient, toPeer, peerVars>> PROVE ManneredInv'
<1>1. UNCHANGED <<phase, versionReceived, writing, sent, asked, copies, toClient, toPeer,
                  peer, ping, fetching, misused>>
  BY DEF clientSide, peerVars
<1>2. FreshInv' = FreshInv /\ GreetedInv' = GreetedInv /\ EarlyInv' = EarlyInv
        /\ ReadyInv' = ReadyInv
  BY <1>1 DEF FreshInv, GreetedInv, EarlyInv, ReadyInv
<1>3. CourseInv' = CourseInv
  BY <1>1 DEF CourseInv, Once
<1>4. PongInv' = PongInv
  BY <1>1 DEF PongInv, Once
<1> QED
  BY <1>1, <1>2, <1>3, <1>4 DEF ManneredInv

\* A node that follows the protocol never sees the client break it: version
\* first, verack before anything else, no announcement earlier, no claim it did
\* not ask for, and to each ping the pong with its nonce, for every timeout,
\* capacity and set of nonces (relay.go:79 to relay.go:158).
THEOREM ProtocolKept == SessionSpec => []PeerNeverMisused
<1>1. SessionInit => RelayInv /\ ManneredInv
  <2> SUFFICES ASSUME SessionInit PROVE RelayInv /\ ManneredInv
    OBVIOUS
  <2>1. /\ peer \in {"stranger", "fresh"} /\ phase = "dial" /\ toClient = <<>> /\ toPeer = <<>>
        /\ ~versionReceived /\ sent = {} /\ writing = Nothing /\ ~asked /\ copies = 0
        /\ ping = Nothing /\ ~fetching /\ ~misused
    BY DEF SessionInit, Init
  <2> QED
    BY <2>1, RelayInvInitially
       DEF SessionInit, ManneredInv, FreshInv, GreetedInv, EarlyInv, ReadyInv, CourseInv,
           PongInv
<1>2. RelayInv /\ TypeOK /\ PeerTypes /\ ManneredInv
        /\ [SessionNext]_sessionVars => RelayInv' /\ ManneredInv'
  <2> SUFFICES ASSUME RelayInv, TypeOK, PeerTypes, ManneredInv, [SessionNext]_sessionVars
               PROVE  RelayInv' /\ ManneredInv'
    OBVIOUS
  <2>1. CASE ClientRuns \/ (DialFails /\ UNCHANGED peerVars)
    BY <2>1, ClientKeeps, DialFailsKeeps, ClientMannered DEF ClientRuns
  <2>2. CASE Node
    BY <2>2, NodeLeaves, FrameKeeps, VersionMannered, VerAckMannered, InvMannered,
       TxMannered, PongMannered,
       OwnMessagesMannered DEF Node, PeerHandles
  <2>3. CASE Stranger
    <3>1. RelayInv'
      BY <2>3, PeerLeaves, FrameKeeps DEF Stranger
    <3> QED
      BY <2>3, <3>1 DEF Stranger, ManneredInv, peerVars
  <2>4. CASE (Tick \/ PeerCloses) /\ UNCHANGED peerVars
    <3>1. UNCHANGED clientSide
      BY <2>4, PeerLeaves
    <3>2. UNCHANGED <<toClient, toPeer>>
      BY <2>4 DEF Tick, PeerCloses, wire
    <3> QED
      BY <2>4, <3>1, <3>2, FrameKeeps, FrameMannered
  <2>5. CASE UNCHANGED sessionVars
    <3>1. UNCHANGED <<clientSide, toClient, toPeer, peerVars>>
      BY <2>5 DEF sessionVars, vars, client, wire, history, clientSide
    <3> QED
      BY <3>1, FrameKeeps, FrameMannered
  <2> QED
    BY <2>1, <2>2, <2>3, <2>4, <2>5 DEF SessionNext, TimePasses, Disconnects
<1>3. ManneredInv => PeerNeverMisused
  BY DEF ManneredInv, PeerNeverMisused
<1>4. SessionTypeOK => TypeOK /\ PeerTypes
  BY DEF SessionTypeOK, PeerTypes
<1> QED
  BY <1>1, <1>2, <1>3, <1>4, SessionTypeCorrect, PTL DEF SessionSpec

(***************************************************************************)
(* The deadlines                                                           *)
(***************************************************************************)

\* The ticks before the call returns at most: the rest of the present deadline
\* and the deadlines that are still to be set.
TimeLeft ==
    CASE phase = "dial" -> left + Timeout + listenAfterTx
      [] phase \in {"handshake", "wait", "send"} -> left + listenAfterTx
      [] phase = "listen" -> left
      [] OTHER -> 0

\* Only the clock counts a deadline down.
LEMMA DeadlineSteps ==
  ASSUME TypeOK, [SessionNext]_sessionVars
  PROVE  \/ TimePasses
         \/ UNCHANGED <<phase, left, listenAfterTx>>
         \/ listenAfterTx' = listenAfterTx /\ left' = left 
              /\ phase' \in {"wait", "send"} /\ phase \in {"handshake", "wait"}
         \/ listenAfterTx' = listenAfterTx /\ phase' \in {"ok", "failed"}
         \/ listenAfterTx' = listenAfterTx /\ phase = "dial" /\ phase' = "handshake"
              /\ left' = Timeout
         \/ listenAfterTx' = listenAfterTx /\ phase = "send" /\ phase' = "listen"
              /\ left' = listenAfterTx
<1>1. CASE Dial \/ DialFails
  BY <1>1 DEF Dial, DialFails
<1>2. CASE Written
  BY <1>2 DEF Written, AfterTx
<1>3. CASE WriteFails \/ ReadTimeout \/ ReadEof \/ RecvGarbage
  <2>1. phase' \in {"ok", "failed"} /\ listenAfterTx' = listenAfterTx
    BY <1>3 DEF WriteFails, ReadTimeout, ReadEof, RecvGarbage, Receives
  <2> QED
    BY <2>1
<1>4. CASE RecvVersion \/ RecvVerAck \/ RecvPing \/ \E m \in FromPeer : RecvIgnored(m)
  <2>1. UNCHANGED <<phase, left, listenAfterTx>>
    BY <1>4 DEF RecvVersion, RecvVerAck, RecvPing, RecvIgnored, Receives, client
  <2> QED
    BY <2>1
<1>5. CASE RecvGetData \/ Announce
  BY <1>5 DEF RecvGetData, Announce, Receives
<1>6. CASE PeerCloses \/ Node \/ Stranger \/ UNCHANGED sessionVars
  <2>1. UNCHANGED <<phase, left, listenAfterTx>>
    BY <1>6 DEF PeerCloses, Node, PeerHandles, PeerGetsVersion, PeerGetsVerAck, PeerGetsInv,
       PeerGetsTx, PeerGetsPong, PeerPings, PeerChats, Handles, PeerSends, Stranger, PeerReads,
       sessionVars, vars, client
  <2> QED
    BY <2>1
<1> QED
  BY <1>1, <1>2, <1>3, <1>4, <1>5, <1>6 DEF SessionNext, ClientRuns, Client, RecvAny, Disconnects

\* Until the listening, which has a deadline of its own.
DialledInTime == phase \in {"dial", "handshake", "wait", "send"} => left <= Timeout

\* No step sets the clock back, and a tick counts down.
LEMMA TimeRunsOut ==
  ASSUME TypeOK, TypeOK', DialledInTime, [SessionNext]_sessionVars
  PROVE  /\ DialledInTime'
         /\ TimeLeft' <= TimeLeft
         /\ TimePasses => TimeLeft' < TimeLeft
<1>1. /\ left \in Nat /\ Timeout \in Nat /\ listenAfterTx \in Nat
      /\ left' \in Nat /\ phase \in Phases
  BY TimeoutAssumption, ListenForAssumption DEF TypeOK, Phases
<1> USE DEF DialledInTime, TimeLeft
<1>2. ASSUME TimePasses PROVE DialledInTime' /\ TimeLeft' < TimeLeft /\ TimeLeft' <= TimeLeft
  <2>1. UNCHANGED <<phase, listenAfterTx>> /\ left' = left - 1 /\ left > 0
        /\ phase \in {"dial", "handshake", "wait", "send", "listen"}
    BY <1>1, <1>2 DEF TimePasses, Tick, client, Returned, Phases
  <2>2. PICK l \in Nat : l = left - 1
    BY <1>1, <2>1
  <2>3. left' = l /\ l < left
    BY <1>1, <2>1, <2>2
  <2> QED
    BY <1>1, <2>1, <2>3
<1>3. ASSUME ~TimePasses PROVE DialledInTime' /\ TimeLeft' <= TimeLeft
  <2>1. CASE UNCHANGED <<phase, left, listenAfterTx>>
    BY <1>1, <2>1
  <2>2. CASE listenAfterTx' = listenAfterTx /\ left' = left
              /\ phase' \in {"wait", "send"} /\ phase \in {"handshake", "wait"}
    BY <1>1, <2>2
  <2>3. CASE phase' \in {"ok", "failed"}
    BY <1>1, <2>3
  <2>4. CASE listenAfterTx' = listenAfterTx /\ phase = "dial" /\ phase' = "handshake"
              /\ left' = Timeout
    BY <1>1, <2>4
  <2>5. CASE listenAfterTx' = listenAfterTx /\ phase = "send" /\ phase' = "listen"
              /\ left' = listenAfterTx
    BY <1>1, <2>5
  <2> QED
    BY <1>3, <2>1, <2>2, <2>3, <2>4, <2>5, DeadlineSteps
<1> QED
  BY <1>2, <1>3

\* The deadlines are absolute: nothing the peer sends or leaves out lengthens a
\* call, and every tick shortens it, so that it has at most a timeout for the
\* dialling, one for the session and its listening time (relay.go:53 to
\* relay.go:59, relay.go:161).
THEOREM DeadlinesAreAbsolute ==
  SessionSpec => /\ [](TimeLeft \in 0..(Timeout + Timeout + listenAfterTx))
                 /\ [][/\ TimeLeft' <= TimeLeft
                       /\ TimePasses => TimeLeft' < TimeLeft]_sessionVars
<1>1. SessionInit => DialledInTime
  BY TimeoutAssumption DEF SessionInit, Init, DialledInTime
<1>2. SessionTypeOK /\ SessionTypeOK' /\ DialledInTime /\ [SessionNext]_sessionVars
        => DialledInTime' /\ TimeLeft' <= TimeLeft /\ (TimePasses => TimeLeft' < TimeLeft)
  BY TimeRunsOut DEF SessionTypeOK
<1>3. SessionTypeOK /\ DialledInTime
        => TimeLeft \in 0..(Timeout + Timeout + listenAfterTx)
  <2> SUFFICES ASSUME SessionTypeOK, DialledInTime
               PROVE  TimeLeft \in 0..(Timeout + Timeout + listenAfterTx)
    OBVIOUS
  <2>1. left \in Nat /\ Timeout \in Nat /\ listenAfterTx \in Nat
        /\ (phase = "listen" => left <= listenAfterTx)
    BY TimeoutAssumption, ListenForAssumption DEF SessionTypeOK, TypeOK
  <2> QED
    BY <2>1 DEF TimeLeft, DialledInTime
<1> QED
  BY <1>1, <1>2, <1>3, SessionTypeCorrect, PTL DEF SessionSpec
=============================================================================
