-------------------------------- MODULE Relay --------------------------------
(***************************************************************************)
(* One connection through talos-edge-router (Router.Handle, ReadSNI and    *)
(* PeekConn), from accept to close: the ClientHello is read for its server *)
(* name, a backend is dialled, and two goroutines copy bytes in either     *)
(* direction.  tenant-apiserver-proxy's handle relays in the same way.     *)
(* Bytes are counted in units; the first unit from the client is the       *)
(* ClientHello.                                                            *)
(***************************************************************************)
EXTENDS Naturals

CONSTANT MaxData  \* bound: units either end sends

ASSUME RelayAssumption == MaxData \in Nat \ {0}

VARIABLES
  phase,   \* where Handle is
  sent,    \* units sent in either direction by its source
  eof,     \* has the source ended its stream?
  reset,   \* ends that reset the connection
  peeked,  \* units ReadSNI has read and PeekConn has yet to replay
  taken,   \* units the relay has read off a source
  got,     \* units written to the sink
  fin,     \* has the relay ended the stream to the sink?
  done     \* has the direction's goroutine finished?

relayVars == <<phase, sent, eof, reset, peeked, taken, got, fin, done>>

\* "up" is from the client to the backend.
Dir == {"up", "down"}
Back(d) == IF d = "up" THEN "down" ELSE "up"
Source(d) == IF d = "up" THEN "client" ELSE "backend"
Sink(d) == Source(Back(d))

RelayTypeOK ==
  /\ phase \in {"none", "hello", "lookup", "dial", "copy", "closed", "refused"}
  /\ reset \subseteq {"client", "backend"} /\ peeked \in 0..1
  /\ sent \in [Dir -> 0..MaxData] /\ taken \in [Dir -> 0..MaxData] /\ got \in [Dir -> 0..MaxData]
  /\ eof \in [Dir -> BOOLEAN] /\ fin \in [Dir -> BOOLEAN] /\ done \in [Dir -> BOOLEAN]

RelayInit ==
  /\ phase = "none" /\ reset = {} /\ peeked = 0
  /\ sent = [d \in Dir |-> 0] /\ taken = sent /\ got = sent
  /\ eof = [d \in Dir |-> FALSE] /\ fin = eof /\ done = eof

Open == phase \notin {"none", "closed", "refused"}
Dialled == phase = "copy"

-----------------------------------------------------------------------------
(***************************************************************************)
(* The two ends.                                                           *)
(***************************************************************************)
Connected(d) == Open /\ Source(d) \notin reset /\ (d = "down" => Dialled)

Send(d) ==
  /\ Connected(d) /\ ~eof[d] /\ sent[d] < MaxData
  /\ sent' = [sent EXCEPT ![d] = @ + 1]
  /\ UNCHANGED <<phase, eof, reset, peeked, taken, got, fin, done>>

\* An end closes its stream; it does so once it saw the other's end.
Finish(d) ==
  /\ Connected(d) /\ ~eof[d]
  /\ eof' = [eof EXCEPT ![d] = TRUE]
  /\ UNCHANGED <<phase, sent, reset, peeked, taken, got, fin, done>>

Reset(d) ==
  /\ Connected(d)
  /\ reset' = reset \cup {Source(d)}
  /\ UNCHANGED <<phase, sent, eof, peeked, taken, got, fin, done>>

-----------------------------------------------------------------------------
Accept ==
  /\ phase = "none"
  /\ phase' = "hello"
  /\ UNCHANGED <<sent, eof, reset, peeked, taken, got, fin, done>>

Refuse ==
  /\ phase' = "refused"
  /\ UNCHANGED <<sent, eof, reset, peeked, taken, got, fin, done>>

\* ReadSNI blocks until it has a whole ClientHello, and fails when the
\* stream ends or what arrived has no server name.
ReadSNI ==
  /\ phase = "hello"
  /\ \/ /\ sent["up"] > 0
        /\ phase' = "lookup" /\ taken' = [taken EXCEPT !["up"] = 1] /\ peeked' = 1
        /\ UNCHANGED <<sent, eof, reset, got, fin, done>>
     \/ sent["up"] > 0 /\ Refuse
     \/ (eof["up"] \/ "client" \in reset) /\ Refuse

\* Is the name in the table?
Lookup(found) ==
  /\ phase = "lookup"
  /\ \/ /\ found
        /\ phase' = "dial"
        /\ UNCHANGED <<sent, eof, reset, peeked, taken, got, fin, done>>
     \/ ~found /\ Refuse

\* DialTimeout, which may fail.
Dial ==
  /\ phase = "dial"
  /\ \/ /\ phase' = "copy"
        /\ UNCHANGED <<sent, eof, reset, peeked, taken, got, fin, done>>
     \/ Refuse

\* What the copy in direction d can read next.
Replaying(d) == d = "up" /\ peeked > 0
Readable(d) == Replaying(d) \/ (taken[d] < sent[d] /\ Source(d) \notin reset)

\* Mutant: the replay does not advance.
MoveSamePeek(d) ==
  /\ Dialled /\ ~done[d] /\ Readable(d) /\ Sink(d) \notin reset
  /\ IF Replaying(d) THEN UNCHANGED <<peeked, taken>>
                     ELSE taken' = [taken EXCEPT ![d] = @ + 1] /\ UNCHANGED peeked
  /\ got' = [got EXCEPT ![d] = @ + 1]
  /\ UNCHANGED <<phase, sent, eof, reset, fin, done>>

\* io.Copy moves the next unit.
Move(d) ==
  /\ Dialled /\ ~done[d] /\ Readable(d) /\ Sink(d) \notin reset
  /\ IF Replaying(d) THEN peeked' = 0 /\ UNCHANGED taken
                     ELSE taken' = [taken EXCEPT ![d] = @ + 1] /\ UNCHANGED peeked
  /\ got' = [got EXCEPT ![d] = @ + 1]
  /\ UNCHANGED <<phase, sent, eof, reset, fin, done>>

\* io.Copy returns: the source is at its end or reset, or the sink refuses
\* what is to be written.
CopyEnds(d) ==
  /\ Dialled /\ ~done[d]
  /\ \/ ~Readable(d) /\ (eof[d] \/ Source(d) \in reset)
     \/ Readable(d) /\ Sink(d) \in reset

\* Mutant: the other end is not told.
CopyWithoutHalfClose(d) ==
  /\ CopyEnds(d)
  /\ done' = [done EXCEPT ![d] = TRUE]
  /\ UNCHANGED <<phase, sent, eof, reset, peeked, taken, got, fin>>

\* It half-closes the sink, whatever ended the copy.
CopyReturns(d) ==
  /\ CopyEnds(d)
  /\ done' = [done EXCEPT ![d] = TRUE]
  /\ fin' = [fin EXCEPT ![d] = TRUE]
  /\ UNCHANGED <<phase, sent, eof, reset, peeked, taken, got>>

\* Mutant: Handle returns when the first direction is done.
CloseEarly ==
  /\ Dialled /\ (done["up"] \/ done["down"])
  /\ phase' = "closed"
  /\ UNCHANGED <<sent, eof, reset, peeked, taken, got, fin, done>>

\* Handle waits for both and closes both connections.
Close ==
  /\ Dialled /\ done["up"] /\ done["down"]
  /\ phase' = "closed"
  /\ UNCHANGED <<sent, eof, reset, peeked, taken, got, fin, done>>

RelayStep(found) ==
  \/ ReadSNI \/ Lookup(found) \/ Dial \/ Close
  \/ \E d \in Dir : Move(d) \/ CopyReturns(d)

Ends == \E d \in Dir : Send(d) \/ Finish(d) \/ Reset(d)

\* An end that sees the other's end of stream closes its own.
EndsFairness ==
  \A d \in Dir : WF_relayVars(fin[Back(d)] /\ Finish(d))

-----------------------------------------------------------------------------
\* A stream ends only after all of it: as long as no end resets its
\* connection, a sink sees the end of the stream only when the source has
\* ended it and the sink has every unit, the replayed ClientHello first; and
\* the connections are closed only when that is so in both directions, even
\* if one of them went quiet long before.
NothingLost ==
  reset = {} =>
    /\ \A d \in Dir : fin[d] \/ phase = "closed" => eof[d] /\ got[d] = sent[d]
    /\ phase = "copy" => got["up"] + peeked = taken["up"]

\* A connection does not linger: when one end is done with it, or gone, the
\* half-close reaches the other end and both connections are released.
ConnectionIsReleased ==
  (eof["up"] \/ eof["down"] \/ reset # {}) ~> ~Open
=============================================================================
