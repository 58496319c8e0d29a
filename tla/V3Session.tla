------------------------------ MODULE V3Session ------------------------------
(***************************************************************************)
(* forwardx-fxp/internal/v3/session.go: the two ends of one multiplexed    *)
(* physical session of the data plane.                                     *)
(*                                                                         *)
(* Each end runs a reader, a writer and an idle timer beside the           *)
(* goroutines of the business streams that call Open, Accept, Read, Write  *)
(* and Close.  Everything below the lock s.mu is one step; a step ends     *)
(* where the code unlocks, blocks on a channel or touches the connection.  *)
(*                                                                         *)
(* A frame is [type, id, n].  "DATA" carries n business bytes, "CREDIT"    *)
(* grants n of them (both are FrameData on the wire, told apart by their   *)
(* tag byte).  Bytes are counted, not spelled out: the queues keep order.  *)
(***************************************************************************)
EXTENDS Integers, Sequences, FiniteSets

CONSTANTS
    MaxStreams,    \* opts.MaxStreams of each end (128)
    StreamBuffer,  \* opts.StreamBuffer of each end (64 KiB), in bytes
    SessionBuffer, \* opts.SessionBuffer of each end (8 MiB), in bytes
    MaxWindow,     \* largest window a peer may grant (256 KiB)
    MaxId,         \* largest stream ID, 2^32 - 1 in the code
    WriteQueue,    \* capacity of s.writes (32)
    ControlQueue,  \* capacity of s.controls (128)
    Wire,          \* frames the connection holds before a write blocks
    MaxBytes,      \* bytes the business of each end writes per stream; a foreign
                   \* end sends no data once so many were read
    Events         \* what may happen at each end of an instance: its business
                   \* ends a stream, the session drains, is idle or shut, the
                   \* connection breaks or stalls, a write deadline passes, or
                   \* the end is foreign: not this code, it writes any frame

Ends == {"client", "server"}
Peer(e) == IF e = "client" THEN "server" ELSE "client"
Ids == 1..MaxId

ASSUME SessionAssumption ==
    /\ MaxStreams \in [Ends -> Nat \ {0}]
    /\ MaxWindow \in Nat \ {0}
    /\ StreamBuffer \in [Ends -> 1..MaxWindow]
    /\ SessionBuffer \in [Ends -> Nat]
    \* NewSession shrinks the windows until all of them fit the session's cap.
    /\ \A e \in Ends : MaxStreams[e] * StreamBuffer[e] <= SessionBuffer[e]
    /\ MaxId \in Nat \ {0}
    /\ WriteQueue \in Nat \ {0}
    /\ ControlQueue \in Nat \ {0}
    /\ Wire \in Nat \ {0}
    /\ MaxBytes \in [Ends -> Nat]
    /\ Events \in [Ends -> SUBSET {"end", "drain", "idle", "shut", "break", "stall", "deadline",
                                  "foreign"}]

VARIABLES
    err,       \* s.err: "none", or why the session failed
    draining,  \* s.draining
    st,        \* the Stream records, by end and ID
    nextID,    \* the client's s.nextID; 0 after it wrapped
    lastRemoteID,  \* the server's s.lastRemoteID
    snd,       \* the call of Open or Write in progress on a stream
    writes,    \* s.writes: queued OPEN and DATA frames
    controls,  \* s.controls: queued CLOSE frames, by stream ID
    creditWake,\* s.creditWake holds its token
    wire,      \* frames written by an end and not yet read by its peer
    rd,        \* what the reader still owes for its last frame
    closing,   \* streams whose Close waits in control(): "no", "send", "sendThenFail"
    owed,      \* some goroutine is about to call fail(ErrDraining)
    idleHit,   \* the idle timer saw no streams and is about to call fail(ErrIdle)
    acceptQ,   \* the server's s.accept
    accepted,  \* streams the business of an end holds
    acked,     \* bytes whose Write has returned without error
    consumed   \* bytes Read has returned

vars == <<err, draining, st, nextID, lastRemoteID, snd, writes, controls, creditWake,
          wire, rd, closing, owed, idleHit, acceptQ, accepted, acked, consumed>>

(* st[e][i].err is "new" before the ID is used and "live" while the stream *)
(* is in s.streams; any other value is the error finishLocked stored.      *)
Finished == {"EOF", "closed", "limit", "invalid", "window", "session"}

Stream == [err : {"new", "live"} \union Finished, announced : BOOLEAN, remoteEOF : BOOLEAN,
           sendCredit : Nat, remoteWindow : Nat, receiveCredit : Nat, creditDue : Nat, buffered : Nat]

NoStream == [err |-> "new", announced |-> FALSE, remoteEOF |-> FALSE, sendCredit |-> 0,
             remoteWindow |-> 0, receiveCredit |-> 0, creditDue |-> 0, buffered |-> 0]

Idle == [pc |-> "idle", type |-> "DATA", n |-> 0, left |-> 0, result |-> "none"]
Rest == [close |-> 0, drained |-> FALSE]
Frames == [type : {"OPEN", "CLOSE", "DATA", "CREDIT", "BAD"}, id : Ids, n : Nat]
Frame(t, i, k) == [type |-> t, id |-> i, n |-> k]
CloseFrame(i) == Frame("CLOSE", i, 0)

Live(e) == {i \in Ids : st[e][i].err = "live"}

Init ==
    /\ err = [e \in Ends |-> "none"]
    /\ draining = [e \in Ends |-> FALSE]
    /\ st = [e \in Ends |-> [i \in Ids |-> NoStream]]
    /\ nextID = 1
    /\ lastRemoteID = 0
    /\ snd = [e \in Ends |-> [i \in Ids |-> Idle]]
    /\ writes = [e \in Ends |-> <<>>]
    /\ controls = [e \in Ends |-> <<>>]
    /\ creditWake = [e \in Ends |-> FALSE]
    /\ wire = [e \in Ends |-> <<>>]
    /\ rd = [e \in Ends |-> Rest]
    /\ closing = [e \in Ends |-> [i \in Ids |-> "no"]]
    /\ owed = [e \in Ends |-> FALSE]
    /\ idleHit = [e \in Ends |-> FALSE]
    /\ acceptQ = <<>>
    /\ accepted = [e \in Ends |-> {}]
    /\ acked = [e \in Ends |-> [i \in Ids |-> 0]]
    /\ consumed = [e \in Ends |-> [i \in Ids |-> 0]]

history == <<acked, consumed>>
queues == <<writes, controls, wire>>
flags == <<draining, owed, idleHit>>

-----------------------------------------------------------------------------
(* w[1] + ... + w[n]                                                       *)
Total(w, n) == LET sum[k \in 0..n] == IF k = 0 THEN 0 ELSE sum[k - 1] + w[k]
               IN  sum[n]

(* Helpers that run under s.mu.                                            *)

Started(e) == [NoStream EXCEPT !.err = "live", !.creditDue = StreamBuffer[e]]

(* finishLocked drops the unread buffers and frees the slot.               *)
Finish(s, why) == [s EXCEPT !.err = why, !.buffered = 0]

MutantEmptyBefore(e, i, s) == draining[e] /\ Live(e) = {}

(* draining && len(streams) == 0, with the streams as they are afterwards. *)
EmptyAfter(e, i, s) == draining[e] /\ Live(e) \ {i} = {} /\ s.err # "live"

SetStream(e, i, s) == st' = [st EXCEPT ![e][i] = s]

(* writeErrorLocked, without the deadline: see Deadline.                   *)
WriteError(e, i) == st[e][i].err # "live" \/ st[e][i].remoteEOF \/ err[e] # "none"

(* fail: the first error wins, every stream ends with it and whatever the  *)
(* goroutines of this end were doing returns on s.done.                    *)
Fail(e, why) ==
    /\ err[e] = "none"
    /\ err' = [err EXCEPT ![e] = why]
    /\ st' = [st EXCEPT ![e] = [i \in Ids |->
                 IF st[e][i].err = "live" THEN Finish(st[e][i], "session") ELSE st[e][i]]]
    /\ snd' = [snd EXCEPT ![e] = [i \in Ids |-> Idle]]
    /\ writes' = [writes EXCEPT ![e] = <<>>]
    /\ controls' = [controls EXCEPT ![e] = <<>>]
    /\ creditWake' = [creditWake EXCEPT ![e] = FALSE]
    /\ rd' = [rd EXCEPT ![e] = Rest]
    /\ closing' = [closing EXCEPT ![e] = [i \in Ids |-> "no"]]
    /\ owed' = [owed EXCEPT ![e] = FALSE]
    /\ idleHit' = [idleHit EXCEPT ![e] = FALSE]
    /\ acceptQ' = IF e = "server" THEN <<>> ELSE acceptQ
    /\ UNCHANGED <<draining, nextID, lastRemoteID, wire, accepted, history>>

-----------------------------------------------------------------------------
(* Open, Accept                                                            *)

Opening == \E i \in Ids : snd["client"][i].pc # "idle" /\ snd["client"][i].type = "OPEN"

HasSlot == Cardinality(Live("client")) < MaxStreams["client"]

(* Open allocates the ID under openMu, which is held until OPEN is sent.   *)
Open ==
    /\ err["client"] = "none" /\ ~draining["client"] /\ "foreign" \notin Events["client"]
    /\ ~Opening /\ HasSlot /\ nextID # 0
    /\ SetStream("client", nextID, Started("client"))
    /\ snd' = [snd EXCEPT !["client"][nextID] = [Idle EXCEPT !.pc = "queue", !.type = "OPEN"]]
    /\ nextID' = (nextID + 1) % (MaxId + 1)
    /\ UNCHANGED <<err, lastRemoteID, queues, creditWake, rd, closing, flags, acceptQ, accepted, history>>

(* The 32-bit counter is used up: the session takes no more streams.       *)
OpenExhausted ==
    /\ err["client"] = "none" /\ ~draining["client"]
    /\ ~Opening /\ HasSlot /\ nextID = 0
    /\ draining' = [draining EXCEPT !["client"] = TRUE]
    /\ UNCHANGED <<err, st, nextID, lastRemoteID, snd, queues, creditWake, rd, closing, owed,
                   idleHit, acceptQ, accepted, history>>

(* Accept skips the streams that died in the queue.                        *)
Accept ==
    /\ err["server"] = "none" /\ acceptQ # <<>>
    /\ acceptQ' = Tail(acceptQ)
    /\ accepted' = [accepted EXCEPT !["server"] =
                       IF st["server"][Head(acceptQ)].err = "live" THEN @ \union {Head(acceptQ)} ELSE @]
    /\ UNCHANGED <<err, st, nextID, lastRemoteID, snd, queues, creditWake, rd, closing, flags, history>>

-----------------------------------------------------------------------------
(* Write and send                                                          *)

Write(e, i, n) ==
    /\ i \in accepted[e] /\ st[e][i].err = "live" /\ snd[e][i].pc = "idle"
    /\ acked[e][i] + n <= MaxBytes[e]
    /\ snd' = [snd EXCEPT ![e][i] = [Idle EXCEPT !.pc = "credit", !.left = n]]
    /\ UNCHANGED <<err, st, nextID, lastRemoteID, queues, creditWake, rd, closing, flags,
                   acceptQ, accepted, history>>

Smaller(a, b) == IF a < b THEN a ELSE b

Chunk(e, i) == Smaller(snd[e][i].left, st[e][i].sendCredit)

Part(e, i, c) == [snd[e][i] EXCEPT !.pc = "queue", !.n = c, !.left = @ - c]

(* reserveCredit                                                           *)
Reserve(e, i) ==
    /\ snd[e][i].pc = "credit" /\ ~WriteError(e, i) /\ st[e][i].sendCredit > 0
    /\ SetStream(e, i, [st[e][i] EXCEPT !.sendCredit = @ - Chunk(e, i)])
    /\ snd' = [snd EXCEPT ![e][i] = Part(e, i, Chunk(e, i))]
    /\ UNCHANGED <<err, nextID, lastRemoteID, queues, creditWake, rd, closing, flags, acceptQ, accepted, history>>

(* send hands its request to the writer.                                   *)
Enqueue(e, i) ==
    /\ snd[e][i].pc = "queue" /\ ~WriteError(e, i)
    /\ Len(writes[e]) < WriteQueue
    /\ writes' = [writes EXCEPT ![e] = Append(@, Frame(snd[e][i].type, i, snd[e][i].n))]
    /\ snd' = [snd EXCEPT ![e][i].pc = "wait"]
    /\ UNCHANGED <<err, st, nextID, lastRemoteID, controls, wire, creditWake, rd, closing, flags,
                   acceptQ, accepted, history>>

(* send returns nil: Open announces the stream, Write goes on.             *)
Sent(e, i) ==
    /\ snd[e][i].pc = "wait" /\ snd[e][i].result = "ok"
    /\ IF snd[e][i].type = "OPEN"
       THEN /\ SetStream(e, i, [st[e][i] EXCEPT !.announced = TRUE])
            /\ creditWake' = [creditWake EXCEPT ![e] = TRUE]
            /\ accepted' = [accepted EXCEPT ![e] = @ \union {i}]
            /\ UNCHANGED acked
       ELSE /\ acked' = [acked EXCEPT ![e][i] = @ + snd[e][i].n]
            /\ UNCHANGED <<st, creditWake, accepted>>
    /\ snd' = [snd EXCEPT ![e][i] =
                  IF @.left > 0 THEN [Idle EXCEPT !.pc = "credit", !.left = snd[e][i].left] ELSE Idle]
    /\ UNCHANGED <<err, nextID, lastRemoteID, queues, rd, closing, flags, acceptQ, consumed>>

-----------------------------------------------------------------------------
(* Close, Read                                                             *)

(* Close, whoever calls it; the caller states what becomes of snd.         *)
CloseStream(e, i) ==
    LET s == IF st[e][i].err = "live" THEN Finish(st[e][i], "closed") ELSE st[e][i]
        tell == st[e][i].err = "live" /\ ~st[e][i].remoteEOF
        drained == EmptyAfter(e, i, s)
    IN  /\ SetStream(e, i, s)
        /\ closing' = [closing EXCEPT ![e][i] =
                          IF ~tell THEN @ ELSE IF drained THEN "sendThenFail" ELSE "send"]
        /\ owed' = [owed EXCEPT ![e] = @ \/ (drained /\ ~tell)]

Close(e, i) ==
    /\ "end" \in Events[e] /\ err[e] = "none"
    /\ i \in accepted[e] /\ st[e][i].err = "live"
    /\ CloseStream(e, i)
    /\ UNCHANGED <<err, draining, nextID, lastRemoteID, snd, queues, creditWake, rd, idleHit,
                   acceptQ, accepted, history>>

(* send or reserveCredit returns an error, and Open or Write closes the    *)
(* stream: it failed meanwhile, or its write deadline passed.              *)
SendFails(e, i) ==
    /\ err[e] = "none" /\ snd[e][i].pc # "idle"
    /\ WriteError(e, i) \/ snd[e][i].result = "err" \/ (snd[e][i].type = "DATA" /\ "deadline" \in Events[e])
    /\ CloseStream(e, i)
    /\ snd' = [snd EXCEPT ![e][i] = Idle]
    /\ UNCHANGED <<err, draining, nextID, lastRemoteID, queues, creditWake, rd, idleHit,
                   acceptQ, accepted, history>>

(* control: the CLOSE frame waits for room in s.controls.                  *)
QueueClose(e, i) ==
    /\ closing[e][i] # "no" /\ Len(controls[e]) < ControlQueue
    /\ controls' = [controls EXCEPT ![e] = Append(@, i)]
    /\ closing' = [closing EXCEPT ![e][i] = "no"]
    /\ owed' = [owed EXCEPT ![e] = @ \/ closing[e][i] = "sendThenFail"]
    /\ UNCHANGED <<err, draining, st, nextID, lastRemoteID, snd, writes, wire, creditWake, rd,
                   idleHit, acceptQ, accepted, history>>

Taken(e, i, n) == [st[e][i] EXCEPT !.buffered = @ - n, !.creditDue = @ + n]

Read(e, i, n) ==
    /\ i \in accepted[e] /\ st[e][i].err = "live" /\ n \in 1..st[e][i].buffered
    /\ SetStream(e, i, Taken(e, i, n))
    /\ creditWake' = [creditWake EXCEPT ![e] = TRUE]
    /\ consumed' = [consumed EXCEPT ![e][i] = @ + n]
    /\ UNCHANGED <<err, nextID, lastRemoteID, snd, queues, rd, closing, flags, acceptQ, accepted, acked>>

AtEOF(e, i) == Finish(st[e][i], "EOF")

ReadEOF(e, i) ==
    /\ i \in accepted[e] /\ st[e][i].err = "live" /\ st[e][i].buffered = 0 /\ st[e][i].remoteEOF
    /\ SetStream(e, i, AtEOF(e, i))
    /\ owed' = [owed EXCEPT ![e] = @ \/ EmptyAfter(e, i, AtEOF(e, i))]
    /\ UNCHANGED <<err, draining, nextID, lastRemoteID, snd, queues, creditWake, rd, closing, idleHit,
                   acceptQ, accepted, history>>

-----------------------------------------------------------------------------
(* readLoop: one frame at a time, then the CLOSE and the failure it owes.  *)

Reading(e, type) ==
    /\ err[e] = "none" /\ rd[e] = Rest
    /\ wire[Peer(e)] # <<>> /\ Head(wire[Peer(e)]).type = type

(* The reader leaves st[e][i] = s and owes CLOSE for i when reset.         *)
Consumed(e, i, s, reset) ==
    /\ wire' = [wire EXCEPT ![Peer(e)] = Tail(@)]
    /\ SetStream(e, i, s)
    /\ rd' = [rd EXCEPT ![e] = [close |-> IF reset THEN i ELSE 0, drained |-> EmptyAfter(e, i, s)]]

MutantRefusesDraining(e) == draining[e]

Refuses(e) == draining[e] \/ Cardinality(Live(e)) >= MaxStreams[e]
AcceptFull == Len(acceptQ) >= MaxStreams["server"]

RecvOpen ==
    /\ Reading("server", "OPEN")
    /\ LET i == Head(wire["client"]).id
           s == IF Refuses("server") THEN st["server"][i]
                ELSE [Started("server") EXCEPT !.announced = TRUE]
       IN  /\ i > lastRemoteID
           /\ lastRemoteID' = i
           /\ Consumed("server", i, IF s.err = "live" /\ AcceptFull THEN Finish(s, "limit") ELSE s,
                       Refuses("server") \/ AcceptFull)
           /\ acceptQ' = IF Refuses("server") \/ AcceptFull THEN acceptQ ELSE Append(acceptQ, i)
           /\ creditWake' = [creditWake EXCEPT !["server"] = @ \/ ~Refuses("server")]
    /\ UNCHANGED <<err, nextID, snd, writes, controls, closing, flags, accepted, history>>

(* An unknown frame, an OPEN that reuses an ID, or one the client receives *)
(* ends the session.                                                       *)
RecvInvalid(e) ==
    /\ \/ Reading(e, "BAD")
       \/ Reading(e, "OPEN") /\ (e = "client" \/ Head(wire[Peer(e)]).id <= lastRemoteID)
    /\ Fail(e, "protocol")

MutantBeforeAnnounced(e, i) == st[e][i].err # "live" \/ ~st[e][i].announced

Ignores(e, i) == st[e][i].err # "live" \/ st[e][i].remoteEOF

SessionBuffered(e) == Total([i \in Ids |-> st[e][i].buffered], MaxId)

MutantBufferOnly(e, i, n) == st[e][i].buffered + n > StreamBuffer[e]

ExceedsWindow(e, i, n) ==
    \/ n > st[e][i].receiveCredit
    \/ st[e][i].buffered + n > StreamBuffer[e]
    \/ SessionBuffered(e) + n > SessionBuffer[e]

RecvData(e) ==
    /\ Reading(e, "DATA")
    /\ LET i == Head(wire[Peer(e)]).id
           n == Head(wire[Peer(e)]).n
       IN  IF Ignores(e, i)
           THEN Consumed(e, i, st[e][i], FALSE)
           ELSE IF n = 0
           THEN Consumed(e, i, Finish(st[e][i], "invalid"), TRUE)
           ELSE IF ExceedsWindow(e, i, n)
           THEN Consumed(e, i, Finish(st[e][i], "window"), TRUE)
           ELSE Consumed(e, i, [st[e][i] EXCEPT !.receiveCredit = @ - n, !.buffered = @ + n], FALSE)
    /\ UNCHANGED <<err, nextID, lastRemoteID, snd, writes, controls, creditWake, closing, flags,
                   acceptQ, accepted, history>>

(* The first grant of a peer fixes the window later grants must fit in.    *)
Window(e, i, n) ==
    IF st[e][i].remoteWindow = 0 /\ n <= MaxWindow THEN n ELSE st[e][i].remoteWindow

MutantFullWindow(e, i, n) == n = 0 \/ n >= Window(e, i, n) - st[e][i].sendCredit

InvalidGrant(e, i, n) == n = 0 \/ n > Window(e, i, n) - st[e][i].sendCredit

RecvCredit(e) ==
    /\ Reading(e, "CREDIT")
    /\ LET i == Head(wire[Peer(e)]).id
           n == Head(wire[Peer(e)]).n
       IN  IF Ignores(e, i)
           THEN Consumed(e, i, st[e][i], FALSE)
           ELSE IF InvalidGrant(e, i, n)
           THEN Consumed(e, i, Finish([st[e][i] EXCEPT !.remoteWindow = Window(e, i, n)], "invalid"), TRUE)
           ELSE Consumed(e, i, [st[e][i] EXCEPT !.remoteWindow = Window(e, i, n), !.sendCredit = @ + n], FALSE)
    /\ UNCHANGED <<err, nextID, lastRemoteID, snd, writes, controls, creditWake, closing, flags,
                   acceptQ, accepted, history>>

MutantClosesNow(e, i) == Finish(st[e][i], "EOF")

HalfClosed(e, i) == [st[e][i] EXCEPT !.remoteEOF = TRUE]

(* The slot of a closed stream stays taken until Read reaches EOF or the   *)
(* owner calls Close.                                                      *)
RecvClose(e) ==
    /\ Reading(e, "CLOSE")
    /\ LET i == Head(wire[Peer(e)]).id
       IN  Consumed(e, i, IF st[e][i].err = "live" THEN HalfClosed(e, i) ELSE st[e][i], FALSE)
    /\ UNCHANGED <<err, nextID, lastRemoteID, snd, writes, controls, creditWake, closing, flags,
                   acceptQ, accepted, history>>

(* The reader itself waits in control() for room before it reads on.       *)
ReaderCloses(e) ==
    /\ rd[e].close # 0 /\ Len(controls[e]) < ControlQueue
    /\ controls' = [controls EXCEPT ![e] = Append(@, rd[e].close)]
    /\ rd' = [rd EXCEPT ![e].close = 0]
    /\ UNCHANGED <<err, st, nextID, lastRemoteID, snd, writes, wire, creditWake, closing, flags,
                   acceptQ, accepted, history>>

ReaderDrained(e) == rd[e].close = 0 /\ rd[e].drained /\ Fail(e, "draining")

(* The peer closed the connection, or it broke.  What the peer had written *)
(* may be lost: a closed connection need not deliver what is on it.        *)
ReadFails(e) ==
    /\ rd[e] = Rest
    /\ err[Peer(e)] # "none" \/ "break" \in Events[e]
    /\ Fail(e, "broken")

-----------------------------------------------------------------------------
(* writeLoop                                                               *)

(* One turn of the loop: a frame is taken and written.  A turn waits until *)
(* the connection has room.  CLOSE frames go first; what the two selects   *)
(* do to the order of the queues is the subject of V3Writer.               *)
Turn(e) == err[e] = "none" /\ Len(wire[e]) < Wire
OnWire(e, f) == wire' = [wire EXCEPT ![e] = Append(@, f)]

WriteControl(e) ==
    /\ Turn(e) /\ controls[e] # <<>>
    /\ OnWire(e, CloseFrame(Head(controls[e])))
    /\ controls' = [controls EXCEPT ![e] = Tail(@)]
    /\ UNCHANGED <<err, st, nextID, lastRemoteID, snd, writes, creditWake, rd, closing, flags,
                   acceptQ, accepted, history>>

(* The writer reports to the request it took, unless its caller has gone.  *)
Report(e, i, r) ==
    snd' = IF snd[e][i].pc = "wait" THEN [snd EXCEPT ![e][i].result = r] ELSE snd

(* A request whose stream has ended since it was queued is not written.    *)
WriteRequest(e) ==
    /\ Turn(e) /\ controls[e] = <<>> /\ writes[e] # <<>>
    /\ writes' = [writes EXCEPT ![e] = Tail(@)]
    /\ LET f == Head(writes[e])
       IN  IF WriteError(e, f.id)
           THEN Report(e, f.id, "err") /\ UNCHANGED wire
           ELSE Report(e, f.id, "ok") /\ OnWire(e, f)
    /\ UNCHANGED <<err, st, nextID, lastRemoteID, controls, creditWake, rd, closing, flags,
                   acceptQ, accepted, history>>

Grantable(e) == {i \in Live(e) : st[e][i].announced /\ ~st[e][i].remoteEOF /\ st[e][i].creditDue > 0}

MutantWakeOnce(e) == FALSE

Rewake(e) == TRUE

(* nextCredit grants what one stream is due and keeps the token while any  *)
(* stream may be due; the token goes when none is.                         *)
WriteCredit(e) ==
    /\ Turn(e) /\ controls[e] = <<>> /\ creditWake[e]
    /\ \/ \E i \in Grantable(e) :
            /\ OnWire(e, Frame("CREDIT", i, st[e][i].creditDue))
            /\ SetStream(e, i, [st[e][i] EXCEPT !.receiveCredit = @ + st[e][i].creditDue, !.creditDue = 0])
            /\ creditWake' = [creditWake EXCEPT ![e] = Rewake(e)]
       \/ /\ Grantable(e) = {}
          /\ creditWake' = [creditWake EXCEPT ![e] = FALSE]
          /\ UNCHANGED <<st, wire>>
    /\ UNCHANGED <<err, nextID, lastRemoteID, snd, writes, controls, rd, closing, flags,
                   acceptQ, accepted, history>>

(* The write fails: the peer is gone, or nothing left the connection for   *)
(* opts.WriteTimeout.                                                      *)
WriteFails(e) ==
    /\ controls[e] # <<>> \/ writes[e] # <<>> \/ (creditWake[e] /\ Grantable(e) # {})
    /\ err[Peer(e)] # "none" \/ ("stall" \in Events[e] /\ Len(wire[e]) = Wire)
    /\ Fail(e, "timeout")

(* A foreign end puts whatever it likes on the wire.                       *)
ForeignFrame(e) ==
    /\ "foreign" \in Events[e] /\ Turn(e)
    /\ \E i \in Ids :
          \/ \E t \in {"OPEN", "CLOSE", "BAD"} : OnWire(e, Frame(t, i, 0))
          \/ \E n \in 0..MaxWindow + 1 : OnWire(e, Frame("CREDIT", i, n))
          \/ \E n \in 0..StreamBuffer[Peer(e)] + 1 :
                /\ consumed[Peer(e)][i] < MaxBytes[e]
                /\ OnWire(e, Frame("DATA", i, n))
    /\ UNCHANGED <<err, st, nextID, lastRemoteID, snd, writes, controls, creditWake, rd, closing,
                   flags, acceptQ, accepted, history>>

-----------------------------------------------------------------------------
(* Drain, Close of the session, idleLoop                                   *)

Drain(e) ==
    /\ "drain" \in Events[e] /\ err[e] = "none" /\ ~draining[e]
    /\ draining' = [draining EXCEPT ![e] = TRUE]
    /\ owed' = [owed EXCEPT ![e] = @ \/ Live(e) = {}]
    /\ UNCHANGED <<err, st, nextID, lastRemoteID, snd, queues, creditWake, rd, closing, idleHit,
                   acceptQ, accepted, history>>

Drained(e) == owed[e] /\ Fail(e, "draining")

CloseSession(e) == "shut" \in Events[e] /\ Fail(e, "closed")

(* The timer looks at the streams under the lock and fails after it.       *)
IdleCheck(e) ==
    /\ "idle" \in Events[e] /\ err[e] = "none" /\ ~idleHit[e] /\ Live(e) = {}
    /\ idleHit' = [idleHit EXCEPT ![e] = TRUE]
    /\ UNCHANGED <<err, draining, st, nextID, lastRemoteID, snd, queues, creditWake, rd, closing, owed,
                   acceptQ, accepted, history>>

IdleExpire(e) == idleHit[e] /\ Fail(e, "idle")

(* Both ends have failed: every goroutine has returned.                    *)
Ended == (\A e \in Ends : err[e] # "none") /\ UNCHANGED vars

Sender(e, i) == Reserve(e, i) \/ Enqueue(e, i) \/ Sent(e, i) \/ SendFails(e, i)

Consumer(e, i) == ReadEOF(e, i) \/ \E n \in 1..StreamBuffer[e] : Read(e, i, n)

Reader(e) ==
    \/ RecvData(e) \/ RecvCredit(e) \/ RecvClose(e) \/ RecvInvalid(e)
    \/ (e = "server" /\ RecvOpen)
    \/ ReaderCloses(e) \/ ReaderDrained(e) \/ ReadFails(e)

Writer(e) == WriteControl(e) \/ WriteRequest(e) \/ WriteCredit(e) \/ WriteFails(e)

Business ==
    \/ Open \/ OpenExhausted
    \/ \E e \in Ends, i \in Ids : Close(e, i) \/ \E n \in 1..MaxBytes[e] : Write(e, i, n)

Next ==
    \/ Business \/ Accept
    \/ \E e \in Ends, i \in Ids : Sender(e, i) \/ Consumer(e, i) \/ QueueClose(e, i)
    \/ \E e \in Ends : Reader(e) \/ Writer(e) \/ Drain(e) \/ Drained(e) \/ CloseSession(e)
                         \/ IdleCheck(e) \/ IdleExpire(e) \/ ForeignFrame(e)
    \/ Ended

Spec == Init /\ [][Next]_vars

(* The goroutines run, and the business of an end reads what it was sent;  *)
(* nothing obliges it to open, write or close.                             *)
Fairness ==
    /\ WF_vars(Accept)
    /\ \A e \in Ends : WF_vars(Reader(e)) /\ WF_vars(Writer(e)) /\ WF_vars(Drained(e))
    /\ \A e \in Ends, i \in Ids :
          WF_vars(Sender(e, i)) /\ WF_vars(Consumer(e, i)) /\ WF_vars(QueueClose(e, i))

FairSpec == Spec /\ Fairness

-----------------------------------------------------------------------------
Request == [pc : {"idle", "credit", "queue", "wait"}, type : {"OPEN", "DATA"}, n : Nat, left : Nat,
            result : {"none", "ok", "err"}]

TypeOK ==
    /\ err \in [Ends -> {"none", "protocol", "draining", "broken", "timeout", "closed", "idle"}]
    /\ draining \in [Ends -> BOOLEAN]
    /\ st \in [Ends -> [Ids -> Stream]]
    /\ nextID \in 0..MaxId
    /\ lastRemoteID \in 0..MaxId
    /\ snd \in [Ends -> [Ids -> Request]]
    /\ writes \in [Ends -> Seq(Frames)]
    /\ controls \in [Ends -> Seq(Ids)]
    /\ creditWake \in [Ends -> BOOLEAN]
    /\ wire \in [Ends -> Seq(Frames)]
    /\ rd \in [Ends -> [close : 0..MaxId, drained : BOOLEAN]]
    /\ closing \in [Ends -> [Ids -> {"no", "send", "sendThenFail"}]]
    /\ owed \in [Ends -> BOOLEAN]
    /\ idleHit \in [Ends -> BOOLEAN]
    /\ acceptQ \in Seq(Ids)
    /\ accepted \in [Ends -> SUBSET Ids]
    /\ acked \in [Ends -> [Ids -> Nat]]
    /\ consumed \in [Ends -> [Ids -> Nat]]

(* session.go:55, per-stream backpressure: what an end lets its peer send, what it holds  *)
(* unread and what it has yet to grant again is always exactly its buffer, *)
(* whatever the peer puts on the wire.                                     *)
WindowAccounted ==
    \A e \in Ends, i \in Ids : st[e][i].err = "live" =>
        /\ st[e][i].receiveCredit >= 0
        /\ st[e][i].receiveCredit + st[e][i].buffered + st[e][i].creditDue = StreamBuffer[e]

(* Neither end ever has more streams than its limit, unaccepted and        *)
(* half-closed ones included.                                              *)
SlotsBounded == \A e \in Ends : Cardinality(Live(e)) <= MaxStreams[e]

(* Two ends that both run this code never reset a stream for breaking the rules *)
(* of the window, never overflow the accept queue and never take each      *)
(* other's frames for a protocol error, IDs out of order included.         *)
PeersConform ==
    \A e \in Ends : err[e] # "protocol" /\ \A i \in Ids : st[e][i].err \notin {"window", "invalid", "limit"}

(* Bytes of type t for stream i in a queue of frames.                      *)
Bytes(q, t, i) == Total([k \in DOMAIN q |-> IF q[k].type = t /\ q[k].id = i THEN q[k].n ELSE 0], Len(q))

(* What an end has reserved for stream i and not yet queued, and what it   *)
(* has queued or put on the wire.                                          *)
Reserved(e, i) == IF snd[e][i].pc = "queue" THEN snd[e][i].n ELSE 0
Outgoing(e, t, i) == Bytes(writes[e], t, i) + Bytes(wire[e], t, i)

(* Credit is neither lost nor made up between the ends: what the sender    *)
(* may still send, has under way and is being granted is what the receiver *)
(* will still take.                                                        *)
CreditConserved ==
    \A e \in Ends, i \in Ids :
        LET p == Peer(e)
        IN  /\ err[e] = "none" /\ err[p] = "none"
            /\ st[e][i].err = "live" /\ ~st[e][i].remoteEOF /\ st[p][i].err = "live"
            => st[e][i].sendCredit + Reserved(e, i) + Outgoing(e, "DATA", i) + Outgoing(p, "CREDIT", i)
                 = st[p][i].receiveCredit

(* session.go:280, control: a reader that resets a stream waits for room   *)
(* in the control queue.  Two ends that both run this code never wait for  *)
(* each other there: with the connection full both ways that would last    *)
(* until a write times out and every stream dies.                          *)
ReadersNotBothBlocked ==
    \E e \in Ends : rd[e].close = 0 \/ Len(controls[e]) < ControlQueue

(* Read reports EOF only after every byte whose Write the peer's business  *)
(* saw succeed: a CLOSE never overtakes data.                              *)
EofAfterData ==
    \A e \in Ends, i \in Ids : st[e][i].err = "EOF" => consumed[e][i] >= acked[Peer(e)][i]

(* The end of the last stream of a draining session ends the session: a    *)
(* goroutine that saw it is on its way to fail.  (A client whose IDs are   *)
(* used up drains without one and leaves by its idle timer.)               *)
DrainEnds ==
    \A e \in Ends : draining[e] /\ Live(e) = {} /\ err[e] = "none" =>
        \/ owed[e] \/ rd[e].drained \/ \E i \in Ids : closing[e][i] = "sendThenFail"
        \/ e = "client" /\ nextID = 0

(* Flow control never gets stuck: a writer waiting for credit gets some,   *)
(* or its stream ends.                                                     *)
WriterServed ==
    \A e \in Ends, i \in Ids : snd[e][i].pc = "credit" ~> snd[e][i].pc # "credit"

(* session.go:179, "Drain refuses new streams without interrupting         *)
(* existing business sessions": draining alone never ends a stream with a  *)
(* session failure while acknowledged bytes of its peer are unread.        *)
DrainInterruptsNobody ==
    \A e \in Ends, i \in Ids :
        st[e][i].err = "session" => consumed[e][i] >= acked[Peer(e)][i]

(* PROTOCOL.md, "Thirty-second idle expiry when no streams remain".        *)
IdleOnlyWithoutStreams ==
    [][\A e \in Ends : err[e] = "none" /\ err'[e] = "idle" => Live(e) = {}]_vars

=============================================================================
