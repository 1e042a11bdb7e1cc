--------------------------- MODULE DeferredSender ---------------------------
(***************************************************************************)
(* Writing to the switches (lab5/pox/pox/openflow/of_01.py:                *)
(* Connection.send and DeferredSender).                                    *)
(*                                                                         *)
(* The sockets do not block.  What a socket does not take is handed to the *)
(* thread of DeferredSender, and while that thread has anything to send    *)
(* (the flag sending) everything else is handed to it too, so that nothing *)
(* overtakes.  The flag is one for all connections, it is read without the *)
(* lock that guards the data, and two threads of the controller write: the *)
(* POX thread and, with the frames of the routers, the reactor thread.     *)
(*                                                                         *)
(* A message is MsgSz bytes, a byte is <<message number, place>>; a socket *)
(* holds Cap bytes that the switch has not read.                           *)
(***************************************************************************)
EXTENDS Integers, Sequences, SequencesExt

CONSTANTS
    Writers,    \* the threads that write
    Uses,       \* Uses[t]: the connections thread t writes to
    Pox,        \* the writer that also closes connections
    Conns,
    NoConn,
    MsgSz,
    Slice,      \* PIPE_BUF
    Cap,
    MaxMsgs     \* bound: messages, for all connections together

ASSUME SenderAssumption ==
    /\ {MsgSz, Slice, Cap} \subseteq Nat \ {0} /\ MaxMsgs \in Nat
    /\ Pox \in Writers /\ Uses \in [Writers -> SUBSET Conns]
    /\ NoConn \notin Conns

VARIABLES
    (* Connections *)
    gone,               \* those whose switch has left
    disconnected, closed,
    inflight,           \* inflight[c]: bytes the switch has not read
    (* DeferredSender *)
    data,               \* _dataForConnection: the slices of each ...
    registered,         \* ... connection that has an entry
    sending,
    run,                \* where its thread is; "dead" after an exception
    cons, wlist,        \* its local variables
    (* Writers *)
    writer,             \* [at, con, rest]: where a call of send is
    (* History *)
    msgs,               \* how many messages send was called with ...
    accepted,           \* ... and accepted[c]: those for c
    wire                \* wire[c]: the bytes the socket has taken

conVars == <<gone, disconnected, closed>>
runVars == <<run, cons, wlist>>
vars == <<conVars, inflight, data, registered, sending, runVars, writer,
          msgs, accepted, wire>>

Byte == Nat \X Nat
Bytes(m) == [k \in 1 .. MsgSz |-> <<m, k>>]
Free(c) == Cap - inflight[c]

Idle == [at |-> "idle", con |-> NoConn, rest |-> <<>>]

Init ==
    /\ gone = {} /\ disconnected = {} /\ closed = {}
    /\ inflight = [c \in Conns |-> 0]
    /\ data = [c \in Conns |-> <<>>]
    /\ registered = {}
    /\ sending = FALSE
    /\ run = "top" /\ cons = {} /\ wlist = {}
    /\ writer = [t \in Writers |-> Idle]
    /\ msgs = 0 /\ accepted = [c \in Conns |-> 0]
    /\ wire = [c \in Conns |-> <<>>]

(* sock.send takes the first n bytes.                                      *)
Taken(c, bytes, n) ==
    /\ wire' = [wire EXCEPT ![c] = @ \o SubSeq(bytes, 1, n)]
    /\ inflight' = [inflight EXCEPT ![c] = @ + n]

Rest(bytes, n) == SubSeq(bytes, n + 1, Len(bytes))

-----------------------------------------------------------------------------
(* Connection.send, called by thread t                                     *)

send(t, c) ==
    /\ writer[t].at = "idle"
    /\ msgs < MaxMsgs
    /\ c \notin disconnected
    /\ msgs' = msgs + 1
    /\ accepted' = [accepted EXCEPT ![c] = @ + 1]
    /\ writer' = [writer EXCEPT ![t] =
                    [at |-> IF sending THEN "defer" ELSE "direct",
                     con |-> c, rest |-> Bytes(accepted[c] + 1)]]
    /\ UNCHANGED <<conVars, inflight, data, registered, sending, runVars, wire>>

(* sock.send: part or all of the message, EAGAIN, or an error.             *)
SendDirect(t) ==
    LET c == writer[t].con
        rest == writer[t].rest
    IN /\ writer[t].at = "direct"
       /\ \/ /\ c \notin disconnected
             /\ \E n \in 1 .. Len(rest) :
                  /\ n <= Free(c)
                  /\ Taken(c, rest, n)
                  /\ writer' = [writer EXCEPT ![t] =
                       IF n = Len(rest) THEN Idle
                       ELSE [at |-> "defer", con |-> c, rest |-> Rest(rest, n)]]
             /\ UNCHANGED disconnected
          \/ /\ c \notin disconnected /\ Free(c) = 0
             /\ writer' = [writer EXCEPT ![t].at = "defer"]
             /\ UNCHANGED <<disconnected, wire, inflight>>
          \/ /\ c \in disconnected \cup gone
             /\ disconnected' = disconnected \cup {c}
             /\ writer' = [writer EXCEPT ![t] = Idle]
             /\ UNCHANGED <<wire, inflight>>
       /\ UNCHANGED <<gone, closed, data, registered, sending, runVars, msgs, accepted>>

(* The PIPE_BUF-sized slices of some bytes                                 *)
sliceup(bytes) ==
    LET least(a, b) == IF a < b THEN a ELSE b
    IN [k \in 1 .. (Len(bytes) + Slice - 1) \div Slice |->
          SubSeq(bytes, (k - 1) * Slice + 1, least(k * Slice, Len(bytes)))]

(* Mutant: data that was waiting is overwritten.                           *)
DeferReplaces(t) ==
    LET c == writer[t].con
    IN /\ writer[t].at = "defer" /\ run # "pass"
       /\ sending' = TRUE
       /\ data' = [data EXCEPT ![c] = sliceup(writer[t].rest)]
       /\ registered' = registered \cup {c}
       /\ writer' = [writer EXCEPT ![t] = Idle]
       /\ UNCHANGED <<conVars, inflight, runVars, msgs, accepted, wire>>

(* DeferredSender.send, under the lock                                     *)
defer(t) ==
    LET c == writer[t].con
    IN /\ writer[t].at = "defer" /\ run # "pass"
       /\ sending' = TRUE
       /\ data' = [data EXCEPT ![c] =
                     (IF c \in registered THEN @ ELSE <<>>) \o sliceup(writer[t].rest)]
       /\ registered' = registered \cup {c}
       /\ writer' = [writer EXCEPT ![t] = Idle]
       /\ UNCHANGED <<conVars, inflight, runVars, msgs, accepted, wire>>

(* Connection.close by the POX thread, which finds that the switch left.   *)
(* What is waiting for the connection is left waiting.                     *)
close(c) ==
    /\ writer[Pox].at = "idle" /\ c \in gone \ closed
    /\ disconnected' = disconnected \cup {c}
    /\ closed' = closed \cup {c}
    /\ UNCHANGED <<gone, inflight, data, registered, sending, runVars, writer,
                   msgs, accepted, wire>>

-----------------------------------------------------------------------------
(* The thread of DeferredSender                                            *)

(* Mutant: the keys are those of the first time.                           *)
KeysCopiedOnce ==
    /\ run = "top"
    /\ run' = "call"
    /\ UNCHANGED <<conVars, inflight, data, registered, sending, cons, wlist,
                   writer, msgs, accepted, wire>>

CopyKeys ==
    /\ run = "top"
    /\ cons' = registered
    /\ run' = "call"
    /\ UNCHANGED <<conVars, inflight, data, registered, sending, wlist, writer,
                   msgs, accepted, wire>>

(* select is called: a socket that is closed by now has no file number,    *)
(* and nothing catches the exception.                                      *)
CallSelect ==
    /\ run = "call"
    /\ run' = IF cons \cap closed # {} THEN "dead" ELSE "select"
    /\ UNCHANGED <<conVars, inflight, data, registered, sending, cons, wlist,
                   writer, msgs, accepted, wire>>

(* Mutant: connections that were added meanwhile are served, too.          *)
SelectOnAll ==
    /\ run = "select"
    /\ wlist' = registered
    /\ run' = "pass"
    /\ UNCHANGED <<conVars, inflight, data, registered, sending, cons, writer,
                   msgs, accepted, wire>>

(* It returns: with the sockets that take data or were shut down, because  *)
(* of the waker, or after five seconds.  The lock is taken.                *)
SelectReturns ==
    /\ run = "select"
    /\ wlist' = {c \in cons : Free(c) > 0 \/ c \in disconnected \cup gone}
    /\ run' = "pass"
    /\ UNCHANGED <<conVars, inflight, data, registered, sending, cons, writer,
                   msgs, accepted, wire>>

(* Mutant: the flag is reset when one connection is done.                  *)
ResetEach(left, c) == FALSE

(* sending once the entry of c is deleted and those of left remain         *)
Reset(left, c) == IF left = {} THEN FALSE ELSE sending

(* One sock.send for a connection of wlist.  When all its slices are sent  *)
(* its entry is deleted, and with the last entry the flag is reset.        *)
SendSlice(c) ==
    LET first == Head(data[c])
        left == registered \ {c}
    IN /\ run = "pass" /\ c \in wlist /\ c \in registered
       /\ \/ \* all of the slice, and more slices follow
             /\ c \notin disconnected /\ Len(first) <= Free(c) /\ Len(data[c]) > 1
             /\ Taken(c, first, Len(first))
             /\ data' = [data EXCEPT ![c] = Tail(@)]
             /\ UNCHANGED <<disconnected, registered, sending, wlist>>
          \/ \* all of the last slice
             /\ c \notin disconnected /\ Len(first) <= Free(c) /\ Len(data[c]) = 1
             /\ Taken(c, first, Len(first))
             /\ data' = [data EXCEPT ![c] = <<>>]
             /\ registered' = left
             /\ sending' = Reset(left, c)
             /\ wlist' = IF left = {} THEN {} ELSE wlist \ {c}
             /\ UNCHANGED disconnected
          \/ \* part of it, or EAGAIN
             /\ c \notin disconnected
             /\ \E n \in 0 .. Len(first) - 1 :
                  /\ n <= Free(c) /\ (n = 0 => Free(c) = 0)
                  /\ Taken(c, first, n)
                  /\ data' = [data EXCEPT ![c][1] = Rest(first, n)]
             /\ wlist' = wlist \ {c}
             /\ UNCHANGED <<disconnected, registered, sending>>
          \/ \* any other error: disconnect, forget the data
             /\ c \in disconnected \cup gone
             /\ disconnected' = disconnected \cup {c}
             /\ registered' = left
             /\ data' = [data EXCEPT ![c] = <<>>]
             /\ wlist' = wlist \ {c}
             /\ UNCHANGED <<sending, wire, inflight>>
       /\ UNCHANGED <<gone, closed, run, cons, writer, msgs, accepted>>

(* The pass is over and the lock is released.                              *)
PassDone ==
    /\ run = "pass" /\ wlist = {}
    /\ run' = "top"
    /\ UNCHANGED <<conVars, inflight, data, registered, sending, cons, wlist,
                   writer, msgs, accepted, wire>>

-----------------------------------------------------------------------------
(* The switch reads a byte, or leaves.                                     *)
Drain(c) ==
    /\ inflight[c] > 0 /\ c \notin gone
    /\ inflight' = [inflight EXCEPT ![c] = @ - 1]
    /\ UNCHANGED <<conVars, data, registered, sending, runVars, writer,
                   msgs, accepted, wire>>

Leave(c) ==
    /\ c \notin gone
    /\ gone' = gone \cup {c}
    /\ UNCHANGED <<disconnected, closed, inflight, data, registered, sending,
                   runVars, writer, msgs, accepted, wire>>

Run == CopyKeys \/ CallSelect \/ SelectReturns \/ (\E c \in Conns : SendSlice(c)) \/ PassDone

Next ==
    \/ \E t \in Writers : \/ \E c \in Uses[t] : send(t, c)
                          \/ SendDirect(t)
                          \/ defer(t)
    \/ Run
    \/ \E c \in Conns : close(c) \/ Drain(c) \/ Leave(c)

Spec == Init /\ [][Next]_vars

(* All threads go on; the sender's thread leaves the lock to others while  *)
(* it waits in select; the switches read what is sent to them.             *)
Fairness ==
    /\ WF_vars(Run)
    /\ \A t \in Writers : WF_vars(SendDirect(t)) /\ SF_vars(defer(t))
    /\ \A c \in Conns : WF_vars(Drain(c))

FairSpec == Spec /\ Fairness

-----------------------------------------------------------------------------
(* Properties                                                              *)

TypeOK ==
    /\ closed \subseteq disconnected /\ disconnected \subseteq gone
    /\ gone \subseteq Conns
    /\ inflight \in [Conns -> 0 .. Cap]
    /\ registered \subseteq Conns /\ cons \subseteq Conns /\ wlist \subseteq cons
    /\ sending \in BOOLEAN
    /\ run \in {"top", "call", "select", "pass", "dead"}
    /\ data \in [Conns -> Seq(Seq(Byte))] /\ wire \in [Conns -> Seq(Byte)]
    /\ writer \in [Writers -> [at : {"idle", "direct", "defer"},
                               con : Conns \cup {NoConn}, rest : Seq(Byte)]]
    /\ msgs \in 0 .. MaxMsgs /\ accepted \in [Conns -> 0 .. msgs]

(* The bytes of all the messages send was given for c, in order            *)
Due(c) == FlattenSeq([m \in 1 .. accepted[c] |-> Bytes(m)])

(* What the socket took and what waits for it; and the calls of send in    *)
(* progress, which hold the rest of a message each                         *)
Out(c) == wire[c] \o FlattenSeq(data[c])
Calls(c) == {t \in Writers : writer[t].con = c}

OneWriter(c) == \A t, u \in Writers : c \in Uses[t] \cap Uses[u] => t = u

Intact(c) ==
    /\ ToSet(Out(c)) \cup UNION {ToSet(writer[t].rest) : t \in Calls(c)} = ToSet(Due(c))
    /\ IsInjective(Out(c))
    /\ \A t \in Calls(c) :
         /\ IsInjective(writer[t].rest)
         /\ ToSet(writer[t].rest) \cap ToSet(Out(c)) = {}
         /\ \A u \in Calls(c) \ {t} :
              ToSet(writer[t].rest) \cap ToSet(writer[u].rest) = {}
    /\ OneWriter(c) =>
         /\ \A t \in Calls(c) : Out(c) \o writer[t].rest = Due(c)
         /\ Calls(c) = {} => Out(c) = Due(c)

(* No byte for an open connection is lost or doubled, wherever the two     *)
(* threads and the sender's are; and when one thread writes to it, nothing *)
(* is overtaken: the stream is the messages in order.  (Two threads that   *)
(* write to one connection may get between each other: the flag is read    *)
(* before sock.send, and the rest of a message is handed over after it.)   *)
StreamIntact == \A c \in Conns \ disconnected : Intact(c)

(* The flag other threads read without the lock covers the data: it is     *)
(* never FALSE while something waits.                                      *)
FlagCoversData == registered # {} => sending

(* What send was given reaches the switch in the end: again and again the  *)
(* socket has taken all of it, unless the switch leaves, or the sender's   *)
(* thread has died of a closed socket.                                     *)
Drains ==
    \A c \in Conns :
      []<>(Len(wire[c]) = accepted[c] * MsgSz \/ c \in gone \/ run = "dead")
=============================================================================
