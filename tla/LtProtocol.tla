----------------------------- MODULE LtProtocol -----------------------------
(***************************************************************************)
(* The byte stream under the VNS commands: length, type and body, in both  *)
(* directions between a router and the controller.                         *)
(*                                                                         *)
(*   up    sr_send_packet and the other writers of sr_vns_comm.c write a   *)
(*         command with one write(), LTTwistedProtocol.dataReceived        *)
(*         (ltprotocol.py) is given the bytes in pieces of any size        *)
(*   down  pack_with_header and transport.write, read by the two recv      *)
(*         loops of sr_read_from_server_expect                             *)
(*                                                                         *)
(* A number is LenSz (TypeSz) bytes, most significant first; a byte is a   *)
(* number below Base.  The code has Base = 256 and LenSz = TypeSz = 4.     *)
(* A write() that takes only part of a command is an error the router      *)
(* reports and forgets: what follows on the connection is out of step.  A  *)
(* command longer than MaxLen ends the router that reads its length.       *)
(***************************************************************************)
EXTENDS Integers, Sequences, SequencesExt

CONSTANTS
    Base, LenSz, TypeSz,
    Message,    \* the commands: [type : number, body : bytes]
    MaxLen,     \* the longest command the router reads: 10000 bytes
    MaxMsgs,    \* bound: commands sent on a connection, both ways together
    MaxShort,   \* bound: short writes
    MaxConns    \* bound: connections the router makes

Byte == 0 .. Base - 1
tot_sz == LenSz + TypeSz
Power[k \in Nat] == IF k = 0 THEN 1 ELSE Base * Power[k - 1]

ASSUME LtAssumption ==
    /\ {Base, LenSz, TypeSz, MaxLen, MaxMsgs, MaxShort, MaxConns} \subseteq Nat
    /\ Base >= 2 /\ LenSz >= 1 /\ TypeSz >= 1
    /\ Message \subseteq [type : 0 .. Power[TypeSz] - 1, body : Seq(Byte)]
    /\ \A m \in Message : tot_sz + Len(m.body) < Power[LenSz]

VARIABLES
    conn,       \* "none"; "up"; "dropped" by the controller; "lost"
    conns,      \* how many connections there were
    wire,       \* bytes on the way up
    packet,     \* the bytes dataReceived keeps ...
    plen,       \* ... and their number
    looping,    \* dataReceived is in its loop
    dwire,      \* bytes on the way down
    buf,        \* what sr_read_from_server_expect has read of a command
    (* History of the connection *)
    sent, got,      \* commands sent up, and given to recv_callback
    dsent, dgot,    \* commands sent down, and handled by the router
    received,       \* the bytes given to dataReceived
    frames,         \* the pieces it cut them into
    short           \* some write was short

up == <<wire, packet, plen, looping, sent, got, received, frames, short>>
down == <<dwire, buf, dsent, dgot>>
vars == <<conn, conns, up, down>>

-----------------------------------------------------------------------------
(* struct.pack and struct.unpack of an unsigned integer                    *)

Digit(n, k) == (n \div Power[k]) % Base
Pack(n, width) == [k \in 1 .. width |-> Digit(n, width - k)]

Unpack(bytes) == FoldLeft(LAMBDA n, b : n * Base + b, 0, bytes)

pack_with_header(m) ==
    Pack(tot_sz + Len(m.body), LenSz) \o Pack(m.type, TypeSz) \o m.body

(* The message of a whole buffer: None for an unknown type; the unpack     *)
(* method of a known type raises when the body does not fit.               *)
Body(bytes) == SubSeq(bytes, tot_sz + 1, Len(bytes))
TypeOf(bytes) == Unpack(SubSeq(bytes, LenSz + 1, tot_sz))
Unpacked(bytes) == [type |-> TypeOf(bytes), body |-> Body(bytes)]

Init ==
    /\ conn = "none" /\ conns = 0
    /\ wire = <<>> /\ packet = <<>> /\ plen = 0 /\ looping = FALSE
    /\ dwire = <<>> /\ buf = <<>>
    /\ sent = <<>> /\ got = <<>> /\ dsent = <<>> /\ dgot = <<>>
    /\ received = <<>> /\ frames = <<>> /\ short = FALSE

-----------------------------------------------------------------------------
(* Connections *)

(* Mutant: the buffer of the last connection is used again.                *)
MadeWithOldBuffer ==
    /\ conn \in {"none", "lost"} /\ conns < MaxConns
    /\ conn' = "up" /\ conns' = conns + 1
    /\ wire' = <<>> /\ dwire' = <<>> /\ buf' = <<>>
    /\ sent' = <<>> /\ got' = <<>> /\ dsent' = <<>> /\ dgot' = <<>>
    /\ received' = <<>> /\ frames' = <<>> /\ short' = FALSE
    /\ UNCHANGED <<packet, plen, looping>>

(* The router connects: a new LTTwistedServerProtocol with an empty buffer *)
(* is made and told so.                                                    *)
connectionMade ==
    /\ conn \in {"none", "lost"} /\ conns < MaxConns
    /\ conn' = "up" /\ conns' = conns + 1
    /\ wire' = <<>> /\ packet' = <<>> /\ plen' = 0
    /\ dwire' = <<>> /\ buf' = <<>>
    /\ sent' = <<>> /\ got' = <<>> /\ dsent' = <<>> /\ dgot' = <<>>
    /\ received' = <<>> /\ frames' = <<>> /\ short' = FALSE
    /\ UNCHANGED looping

(* The router ends, at any moment.                                         *)
connectionLost ==
    /\ conn \in {"up", "dropped"} /\ ~ looping
    /\ conn' = "lost"
    /\ UNCHANGED <<conns, up, down>>

-----------------------------------------------------------------------------
(* Up *)

Room == conn = "up" /\ Len(sent) + Len(dsent) < MaxMsgs

(* The router has read the length of a command it will not read: len is    *)
(* larger than MaxLen, or negative as a signed integer.  It closes its     *)
(* socket at once, so that it neither reads nor writes any more.           *)
TooLarge == Len(buf) >= LenSz /\ Unpack(SubSeq(buf, 1, LenSz)) > MaxLen

(* write() takes the whole command.                                        *)
sr_send_packet(m) ==
    /\ Room /\ ~ TooLarge
    /\ wire' = wire \o pack_with_header(m)
    /\ sent' = Append(sent, m)
    /\ UNCHANGED <<conn, conns, packet, plen, looping, got, received, frames,
                   short, down>>

(* write() takes n bytes only; the caller is told, and sends no more of it. *)
ShortWrite(m, n) ==
    /\ Room /\ ~ TooLarge /\ MaxShort > 0 /\ ~ short
    /\ wire' = wire \o SubSeq(pack_with_header(m), 1, n)
    /\ sent' = Append(sent, m)
    /\ short' = TRUE
    /\ UNCHANGED <<conn, conns, packet, plen, looping, got, received, frames, down>>

(* dataReceived is called with the next n bytes ...                        *)
dataReceived(n) ==
    /\ conn = "up" /\ ~ looping
    /\ packet' = packet \o SubSeq(wire, 1, n)
    /\ plen' = plen + n
    /\ wire' = SubSeq(wire, n + 1, Len(wire))
    /\ received' = received \o SubSeq(wire, 1, n)
    /\ looping' = TRUE
    /\ UNCHANGED <<conn, conns, sent, got, frames, short, down>>

lenNeeded == Unpack(SubSeq(packet, 1, LenSz))
(* Mutant: one byte more than the packet is waited for.                    *)
HasMoreThanPacket == plen >= LenSz /\ plen > lenNeeded

HasPacket == plen >= LenSz /\ plen >= lenNeeded

(* Mutant: if in place of while: the loop ends after one packet.           *)
TakeOnePacket ==
    LET head == SubSeq(packet, 1, lenNeeded)
    IN /\ looping /\ HasPacket
       /\ packet' = SubSeq(packet, lenNeeded + 1, Len(packet))
       /\ plen' = plen - lenNeeded
       /\ IF lenNeeded >= tot_sz /\ Unpacked(head) \in Message
          THEN /\ got' = Append(got, Unpacked(head))
               /\ frames' = Append(frames, head)
               /\ UNCHANGED conn
          ELSE /\ conn' = "dropped"
               /\ UNCHANGED <<got, frames>>
       /\ looping' = FALSE
       /\ UNCHANGED <<conns, wire, sent, received, short, down>>

(* ... and takes one packet after the other out of its buffer.             *)
TakePacket ==
    LET head == SubSeq(packet, 1, lenNeeded)
    IN /\ looping /\ HasPacket
       /\ packet' = SubSeq(packet, lenNeeded + 1, Len(packet))
       /\ plen' = plen - lenNeeded
       /\ IF lenNeeded >= tot_sz /\ Unpacked(head) \in Message
          THEN /\ got' = Append(got, Unpacked(head))
               /\ frames' = Append(frames, head)
               /\ UNCHANGED <<conn, looping>>
          ELSE \* struct.error, or None, on which _handle_recv_msg gives up
               /\ conn' = "dropped" /\ looping' = FALSE
               /\ UNCHANGED <<got, frames>>
       /\ UNCHANGED <<conns, wire, sent, received, short, down>>

(* break, or the end of the loop                                           *)
NotEnough ==
    /\ looping /\ ~ HasPacket
    /\ looping' = FALSE
    /\ UNCHANGED <<conn, conns, wire, packet, plen, sent, got, received,
                   frames, short, down>>

-----------------------------------------------------------------------------
(* Down *)

send(m) ==
    /\ Room
    /\ dwire' = dwire \o pack_with_header(m)
    /\ dsent' = Append(dsent, m)
    /\ UNCHANGED <<conn, conns, up, buf, dgot>>

(* Mutant: the second loop does not take off what the first one read.      *)
WantedBesidesLength ==
    IF Len(buf) < LenSz THEN LenSz ELSE LenSz + Unpack(SubSeq(buf, 1, LenSz))

(* How many bytes the loop that is running wants in buf.                   *)
Wanted == IF Len(buf) < LenSz THEN LenSz ELSE Unpack(SubSeq(buf, 1, LenSz))

(* recv or read returns n bytes.                                           *)
recv(n) ==
    /\ conn \in {"up", "dropped"} /\ ~ TooLarge
    /\ Len(buf) + n <= Wanted
    /\ buf' = buf \o SubSeq(dwire, 1, n)
    /\ dwire' = SubSeq(dwire, n + 1, Len(dwire))
    /\ UNCHANGED <<conn, conns, up, dsent, dgot>>

(* Both loops are done: the command is handled.                            *)
sr_read_from_server ==
    /\ conn \in {"up", "dropped"} /\ ~ TooLarge
    /\ Len(buf) >= LenSz /\ Len(buf) = Wanted
    /\ dgot' = Append(dgot, Unpacked(buf))
    /\ buf' = <<>>
    /\ UNCHANGED <<conn, conns, up, dwire, dsent>>

(* The router has closed its socket and ends, as its main loop got -1; the *)
(* controller is told once it is out of dataReceived.                      *)
RouterGivesUp ==
    /\ conn \in {"up", "dropped"} /\ TooLarge /\ ~ looping
    /\ conn' = "lost"
    /\ UNCHANGED <<conns, up, down>>

-----------------------------------------------------------------------------
UpReads == (\E n \in 1 .. Len(wire) : dataReceived(n)) \/ TakePacket \/ NotEnough
DownReads ==
    (\E n \in 1 .. Len(dwire) : recv(n)) \/ sr_read_from_server \/ RouterGivesUp

Next ==
    \/ connectionMade
    \/ connectionLost
    \/ \E m \in Message :
         \/ sr_send_packet(m)
         \/ \E n \in 1 .. Len(pack_with_header(m)) - 1 : ShortWrite(m, n)
         \/ send(m)
    \/ UpReads
    \/ DownReads

Spec == Init /\ [][Next]_vars

(* The reactor and the router read what has arrived; a router that has     *)
(* given up ends, and its controller learns of it.                         *)
FairSpec == Spec /\ WF_vars(UpReads) /\ WF_vars(DownReads)

-----------------------------------------------------------------------------
(* Properties                                                              *)

TypeOK ==
    /\ conn \in {"none", "up", "dropped", "lost"} /\ conns \in 0 .. MaxConns
    /\ {wire, packet, dwire, buf, received} \subseteq Seq(Byte)
    /\ plen \in Nat /\ {looping, short} \subseteq BOOLEAN
    /\ {sent, got, dsent, dgot} \subseteq Seq(Message)
    /\ frames \in Seq(Seq(Byte))

(* However the stream is cut into pieces, and also when it is out of step  *)
(* after a short write, dataReceived loses, repeats and invents no byte:   *)
(* the buffers it took out and what it keeps are what it was given, every  *)
(* buffer is as long as it says, plen is the length of what is kept, and   *)
(* between calls no whole packet is left lying in it.                      *)
Reassembles ==
    conn = "up" =>
      /\ FlattenSeq(frames) \o packet = received
      /\ plen = Len(packet)
      /\ \A k \in 1 .. Len(frames) :
           Unpack(SubSeq(frames[k], 1, LenSz)) = Len(frames[k])
      /\ ~ looping => ~ HasPacket

(* dataReceived gives the controller's callback what the router sent, and  *)
(* the recv loops of the router what the controller sent: both directions, *)
(* with their cuts, implement a channel of whole messages.                 *)
Up == INSTANCE MessageChannel WITH broken <- short
Down == INSTANCE MessageChannel WITH sent <- dsent, got <- dgot, broken <- FALSE
AreChannels == Up!Spec /\ Down!Spec

(* What was sent while the connection lasts and is in step is handled in   *)
(* the end, in both directions: neither end waits for bytes it has, and    *)
(* only a stream out of step makes the controller drop the connection.  A  *)
(* command the router finds too large is never handled, nor is any after   *)
(* it: the connection ends, so that no one waits for the router's answer.  *)
EventuallyHandled ==
    \A n \in 1 .. MaxMsgs :
      /\ Len(sent) >= n ~> (Len(got) >= n \/ short \/ conn = "lost")
      /\ Len(dsent) >= n ~> (Len(dgot) >= n \/ conn = "lost")
=============================================================================
