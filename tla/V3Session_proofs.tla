--------------------------- MODULE V3Session_proofs ---------------------------
(* Proofs about V3Session for any limits, buffers, IDs and events.         *)
EXTENDS V3Session, FiniteSetTheorems, WellFoundedInduction, TLAPS

(* What an end lets its peer send, holds unread and has yet to grant.      *)
WindowSum(s) == s.receiveCredit + s.buffered + s.creditDue

(* The record s may replace st[e][i] without opening the stream or         *)
(* changing its window.                                                    *)
Keeps(e, i, s) == s.err = "live" => st[e][i].err = "live" /\ WindowSum(s) = WindowSum(st[e][i])

LEMMA HeadTail ==
    ASSUME NEW S, NEW q \in Seq(S), q # <<>>
    PROVE  Head(q) \in S /\ Tail(q) \in Seq(S)
OBVIOUS

LEMMA FinishType ==
    ASSUME NEW s \in Stream, NEW why \in Finished
    PROVE  Finish(s, why) \in Stream
BY DEF Stream, Finish, Finished

LEMMA NoStreamType == NoStream \in Stream
BY DEF NoStream, Stream, Finished

LEMMA StartedType == ASSUME NEW e \in Ends PROVE Started(e) \in Stream
<1>1. StreamBuffer[e] \in Nat
    BY SessionAssumption
<1> QED
    BY <1>1 DEF Started, NoStream, Stream, Finished

(* The three updates of two counters of a record.                          *)
LEMMA CountersType ==
    ASSUME NEW s \in Stream, NEW a \in Nat, NEW b \in Nat
    PROVE  /\ [s EXCEPT !.receiveCredit = a, !.buffered = b] \in Stream
           /\ [s EXCEPT !.buffered = a, !.creditDue = b] \in Stream
           /\ [s EXCEPT !.remoteWindow = a, !.sendCredit = b] \in Stream
           /\ [s EXCEPT !.receiveCredit = a, !.creditDue = b] \in Stream
BY DEF Stream

(* A step that replaces one stream record by a record keeps st a function  *)
(* of records.                                                             *)
LEMMA SetStreamType ==
    ASSUME TypeOK, NEW e \in Ends, NEW i \in Ids, NEW s \in Stream, SetStream(e, i, s)
    PROVE  st' \in [Ends -> [Ids -> Stream]]
BY DEF TypeOK, SetStream

(* Likewise for the call in progress on a stream.                          *)
LEMMA SndType ==
    ASSUME TypeOK, NEW e \in Ends, NEW i \in Ids, NEW r \in Request,
           snd' = [snd EXCEPT ![e][i] = r]
    PROVE  snd' \in [Ends -> [Ids -> Request]]
BY DEF TypeOK

LEMMA IdleType == Idle \in Request
BY DEF Idle, Request

LEMMA InitType == Init => TypeOK
<1> SUFFICES ASSUME Init PROVE TypeOK
    OBVIOUS
<1>1. st \in [Ends -> [Ids -> Stream]]
    BY NoStreamType DEF Init
<1>2. snd \in [Ends -> [Ids -> Request]]
    BY DEF Init, Idle, Request
<1>3. nextID \in 0..MaxId
    BY SessionAssumption DEF Init
<1>4. lastRemoteID \in 0..MaxId /\ rd \in [Ends -> [close : 0..MaxId, drained : BOOLEAN]]
    BY SessionAssumption DEF Init, Rest
<1>5. writes \in [Ends -> Seq(Frames)] /\ controls \in [Ends -> Seq(Ids)] /\ wire \in [Ends -> Seq(Frames)]
    BY DEF Init
<1> QED
    BY <1>1, <1>2, <1>3, <1>4, <1>5 DEF Init, TypeOK

LEMMA FailType ==
    ASSUME TypeOK, NEW e \in Ends,
           NEW why \in {"protocol", "draining", "broken", "timeout", "closed", "idle"}, Fail(e, why)
    PROVE  TypeOK'
<1>1. st' \in [Ends -> [Ids -> Stream]]
    <2>1. ASSUME NEW i \in Ids
          PROVE  (IF st[e][i].err = "live" THEN Finish(st[e][i], "session") ELSE st[e][i]) \in Stream
        BY FinishType DEF TypeOK, Finished
    <2> QED
        BY <2>1 DEF Fail, TypeOK
<1>2. snd' \in [Ends -> [Ids -> Request]]
    BY DEF Fail, TypeOK, Idle, Request
<1>3. rd' \in [Ends -> [close : 0..MaxId, drained : BOOLEAN]]
    BY SessionAssumption DEF Fail, TypeOK, Rest
<1>4. err' \in [Ends -> {"none", "protocol", "draining", "broken", "timeout", "closed", "idle"}]
    BY DEF Fail, TypeOK
<1>5. writes' \in [Ends -> Seq(Frames)] /\ controls' \in [Ends -> Seq(Ids)] /\ acceptQ' \in Seq(Ids)
    BY DEF Fail, TypeOK
<1>6. closing' \in [Ends -> [Ids -> {"no", "send", "sendThenFail"}]]
    BY DEF Fail, TypeOK
<1> QED
    BY <1>1, <1>2, <1>3, <1>4, <1>5, <1>6 DEF Fail, TypeOK, history

-----------------------------------------------------------------------------
(* TypeOK is inductive: one lemma per action.                              *)

(* The ID that Open takes.                                                 *)
LEMMA NextIdType ==
    ASSUME TypeOK, Open
    PROVE  "client" \in Ends /\ nextID \in Ids
<1>1. nextID \in 0..MaxId
    BY DEF TypeOK
<1>2. nextID # 0
    BY DEF Open
<1>3. "client" \in Ends
    BY DEF Ends
<1> QED
    BY <1>1, <1>2, <1>3, SessionAssumption DEF Ids

LEMMA OpenType ==
    ASSUME TypeOK, Open
    PROVE  TypeOK'
<1> DEFINE r == [Idle EXCEPT !.pc = "queue", !.type = "OPEN"]
<1>1. nextID \in Ids
    BY NextIdType
<1>2. st' \in [Ends -> [Ids -> Stream]]
    BY <1>1, StartedType, SetStreamType DEF Open, Ends
<1>3. snd' \in [Ends -> [Ids -> Request]]
    <2>1. r \in Request
        BY DEF Idle, Request
    <2> QED
        BY <1>1, <2>1, SndType DEF Open, Ends
<1>4. nextID' \in 0..MaxId
    BY SessionAssumption DEF Open, TypeOK
<1> QED
    BY <1>2, <1>3, <1>4 DEF Open, TypeOK, queues, flags, history

LEMMA OpenExhaustedType == TypeOK /\ OpenExhausted => TypeOK'
BY DEF OpenExhausted, TypeOK, queues, history

LEMMA AcceptType ==
    ASSUME TypeOK, Accept
    PROVE  TypeOK'
<1>1. Head(acceptQ) \in Ids /\ acceptQ' \in Seq(Ids)
    BY HeadTail DEF Accept, TypeOK
<1>2. accepted' \in [Ends -> SUBSET Ids]
    BY <1>1 DEF Accept, TypeOK
<1> QED
    BY <1>1, <1>2 DEF Accept, TypeOK, queues, flags, history

LEMMA WriteType ==
    ASSUME TypeOK, NEW e \in Ends, NEW i \in Ids, NEW n \in Nat, Write(e, i, n)
    PROVE  TypeOK'
<1>1. [Idle EXCEPT !.pc = "credit", !.left = n] \in Request
    BY DEF Idle, Request
<1>2. snd' \in [Ends -> [Ids -> Request]]
    BY <1>1, SndType DEF Write
<1> QED
    BY <1>2 DEF Write, TypeOK, queues, flags, history

LEMMA ReserveType ==
    ASSUME TypeOK, NEW e \in Ends, NEW i \in Ids, Reserve(e, i)
    PROVE  TypeOK'
<1> DEFINE c == Chunk(e, i)
<1>1. snd[e][i] \in Request /\ st[e][i] \in Stream
    BY DEF TypeOK
<1>2. c \in Nat /\ c <= snd[e][i].left /\ c <= st[e][i].sendCredit
    BY <1>1 DEF Chunk, Smaller, Request, Stream
<1>3. st' \in [Ends -> [Ids -> Stream]]
    <2>1. [st[e][i] EXCEPT !.sendCredit = @ - c] \in Stream
        BY <1>1, <1>2 DEF Stream
    <2> QED
        BY <2>1, SetStreamType DEF Reserve
<1>4. snd' \in [Ends -> [Ids -> Request]]
    <2>1. snd[e][i].left - c \in Nat
        BY <1>1, <1>2 DEF Request
    <2>2. Part(e, i, c) \in Request
        <3> HIDE DEF c
        <3> QED
            BY <1>1, <1>2, <2>1 DEF Part, Request
    <2> QED
        BY <2>2, SndType DEF Reserve
<1> QED
    BY <1>3, <1>4 DEF Reserve, TypeOK, queues, flags, history

LEMMA EnqueueType ==
    ASSUME TypeOK, NEW e \in Ends, NEW i \in Ids, Enqueue(e, i)
    PROVE  TypeOK'
<1>1. snd[e][i] \in Request
    BY DEF TypeOK
<1>2. Frame(snd[e][i].type, i, snd[e][i].n) \in Frames
    BY <1>1 DEF Frame, Frames, Request
<1>3. writes' \in [Ends -> Seq(Frames)]
    BY <1>2 DEF Enqueue, TypeOK
<1>4. snd' \in [Ends -> [Ids -> Request]]
    BY <1>1 DEF Enqueue, TypeOK, Request
<1> QED
    BY <1>3, <1>4 DEF Enqueue, TypeOK, flags, history

LEMMA SentType ==
    ASSUME TypeOK, NEW e \in Ends, NEW i \in Ids, Sent(e, i)
    PROVE  TypeOK'
<1> DEFINE r == IF snd[e][i].left > 0 THEN [Idle EXCEPT !.pc = "credit", !.left = snd[e][i].left] ELSE Idle
<1>1. snd[e][i] \in Request /\ st[e][i] \in Stream
    BY DEF TypeOK
<1>2. snd' \in [Ends -> [Ids -> Request]]
    <2>1. r \in Request
        BY <1>1 DEF Idle, Request
    <2>2. snd' = [snd EXCEPT ![e][i] = r]
        BY Zenon DEF Sent
    <2> QED
        BY <2>1, <2>2, SndType
<1>3. /\ st' \in [Ends -> [Ids -> Stream]] /\ creditWake' \in [Ends -> BOOLEAN]
      /\ accepted' \in [Ends -> SUBSET Ids] /\ acked' \in [Ends -> [Ids -> Nat]]
    <2>1. CASE snd[e][i].type = "OPEN"
        <3>1. [st[e][i] EXCEPT !.announced = TRUE] \in Stream
            BY <1>1 DEF Stream
        <3>2. st' \in [Ends -> [Ids -> Stream]]
            BY <2>1, <3>1, SetStreamType DEF Sent
        <3>3. /\ creditWake' = [creditWake EXCEPT ![e] = TRUE]
              /\ accepted' = [accepted EXCEPT ![e] = @ \union {i}]
              /\ acked' = acked
            BY <2>1, Zenon DEF Sent
        <3> QED
            BY <3>2, <3>3 DEF TypeOK
    <2>2. CASE snd[e][i].type # "OPEN"
        <3>1. snd[e][i].n \in Nat
            BY <1>1 DEF Request
        <3>2. acked' \in [Ends -> [Ids -> Nat]]
            <4>1. acked' = [acked EXCEPT ![e][i] = @ + snd[e][i].n]
                BY <2>2, Zenon DEF Sent
            <4> QED
                BY <3>1, <4>1 DEF TypeOK
        <3>3. st' = st /\ creditWake' = creditWake /\ accepted' = accepted
            BY <2>2, Zenon DEF Sent
        <3> QED
            BY <3>2, <3>3 DEF TypeOK
    <2> QED
        BY <2>1, <2>2
<1> QED
    BY <1>2, <1>3 DEF Sent, TypeOK, queues, flags, history

LEMMA CloseStreamType ==
    ASSUME TypeOK, NEW e \in Ends, NEW i \in Ids, CloseStream(e, i)
    PROVE  /\ st' \in [Ends -> [Ids -> Stream]]
           /\ closing' \in [Ends -> [Ids -> {"no", "send", "sendThenFail"}]]
           /\ owed' \in [Ends -> BOOLEAN]
<1> DEFINE s == IF st[e][i].err = "live" THEN Finish(st[e][i], "closed") ELSE st[e][i]
           tell == st[e][i].err = "live" /\ ~st[e][i].remoteEOF
           drained == EmptyAfter(e, i, s)
           c == IF ~tell THEN closing[e][i] ELSE IF drained THEN "sendThenFail" ELSE "send"
<1>1. st' \in [Ends -> [Ids -> Stream]]
    <2>1. s \in Stream
        BY FinishType DEF TypeOK, Finished
    <2>2. SetStream(e, i, s)
        BY DEF CloseStream
    <2> QED
        BY <2>1, <2>2, SetStreamType
<1>2. closing' \in [Ends -> [Ids -> {"no", "send", "sendThenFail"}]]
    <2>1. closing' = [closing EXCEPT ![e][i] = c]
        BY Zenon DEF CloseStream
    <2>2. c \in {"no", "send", "sendThenFail"}
        <3>1. closing[e][i] \in {"no", "send", "sendThenFail"}
            BY DEF TypeOK
        <3> HIDE DEF tell, drained
        <3> QED
            BY <3>1
    <2> HIDE DEF c
    <2> QED
        BY <2>1, <2>2 DEF TypeOK
<1>3. owed' \in [Ends -> BOOLEAN]
    <2>1. owed' = [owed EXCEPT ![e] = owed[e] \/ (drained /\ ~tell)]
        BY Zenon DEF CloseStream
    <2>2. owed[e] \/ (drained /\ ~tell) \in BOOLEAN
        OBVIOUS
    <2> HIDE DEF drained, tell
    <2> QED
        BY <2>1, <2>2 DEF TypeOK
<1> QED
    BY <1>1, <1>2, <1>3

LEMMA CloseType ==
    ASSUME TypeOK, NEW e \in Ends, NEW i \in Ids, Close(e, i)
    PROVE  TypeOK'
<1>1. CloseStream(e, i)
    BY DEF Close
<1> QED
    BY <1>1, CloseStreamType DEF Close, TypeOK, queues, history

LEMMA SendFailsType ==
    ASSUME TypeOK, NEW e \in Ends, NEW i \in Ids, SendFails(e, i)
    PROVE  TypeOK'
<1>1. CloseStream(e, i)
    BY DEF SendFails
<1>2. snd' \in [Ends -> [Ids -> Request]]
    BY IdleType, SndType DEF SendFails
<1> QED
    BY <1>1, <1>2, CloseStreamType DEF SendFails, TypeOK, queues, history

LEMMA QueueCloseType ==
    ASSUME TypeOK, NEW e \in Ends, NEW i \in Ids, QueueClose(e, i)
    PROVE  TypeOK'
<1>1. controls' \in [Ends -> Seq(Ids)]
    BY DEF QueueClose, TypeOK
<1>2. closing' \in [Ends -> [Ids -> {"no", "send", "sendThenFail"}]]
    BY DEF QueueClose, TypeOK
<1>3. owed' \in [Ends -> BOOLEAN]
    BY DEF QueueClose, TypeOK
<1> QED
    BY <1>1, <1>2, <1>3 DEF QueueClose, TypeOK, history

LEMMA TakenType ==
    ASSUME NEW e \in Ends, NEW i \in Ids, st[e][i] \in Stream, NEW n \in Nat, n <= st[e][i].buffered
    PROVE  Taken(e, i, n) \in Stream /\ WindowSum(Taken(e, i, n)) = WindowSum(st[e][i])
<1>1. /\ st[e][i].buffered \in Nat /\ st[e][i].buffered - n \in Nat
      /\ st[e][i].creditDue \in Nat /\ st[e][i].receiveCredit \in Nat
      /\ st[e][i].creditDue + n \in Nat
    BY DEF Stream
<1>2. Taken(e, i, n) \in Stream
    BY <1>1, CountersType, Zenon DEF Taken
<1>3. /\ Taken(e, i, n).buffered = st[e][i].buffered - n
      /\ Taken(e, i, n).creditDue = st[e][i].creditDue + n
      /\ Taken(e, i, n).receiveCredit = st[e][i].receiveCredit
    BY DEF Taken, Stream
<1> QED
    BY <1>1, <1>2, <1>3 DEF WindowSum

LEMMA ReadType ==
    ASSUME TypeOK, NEW e \in Ends, NEW i \in Ids, NEW n \in Nat, Read(e, i, n)
    PROVE  TypeOK'
<1>1. st[e][i] \in Stream /\ consumed[e][i] \in Nat
    BY DEF TypeOK
<1>2. n <= st[e][i].buffered
    BY <1>1 DEF Read, Stream
<1>3. Taken(e, i, n) \in Stream
    BY <1>1, <1>2, TakenType
<1>4. st' \in [Ends -> [Ids -> Stream]]
    BY <1>3, SetStreamType DEF Read
<1>5. consumed' \in [Ends -> [Ids -> Nat]]
    BY <1>1 DEF Read, TypeOK
<1> QED
    BY <1>4, <1>5 DEF Read, TypeOK, queues, flags

LEMMA ReadEOFType ==
    ASSUME TypeOK, NEW e \in Ends, NEW i \in Ids, ReadEOF(e, i)
    PROVE  TypeOK'
<1>1. AtEOF(e, i) \in Stream
    BY FinishType DEF AtEOF, TypeOK, Finished
<1>2. st' \in [Ends -> [Ids -> Stream]]
    BY <1>1, SetStreamType DEF ReadEOF
<1>3. owed' \in [Ends -> BOOLEAN]
    BY DEF ReadEOF, TypeOK
<1> QED
    BY <1>2, <1>3 DEF ReadEOF, TypeOK, queues, history

(* What the reader does with every frame that leaves the session alive.    *)
LEMMA ConsumedType ==
    ASSUME TypeOK, NEW e \in Ends, NEW i \in Ids, NEW s \in Stream, NEW reset \in BOOLEAN,
           wire[Peer(e)] # <<>>, Consumed(e, i, s, reset)
    PROVE  /\ st' \in [Ends -> [Ids -> Stream]]
           /\ wire' \in [Ends -> Seq(Frames)]
           /\ rd' \in [Ends -> [close : 0..MaxId, drained : BOOLEAN]]
<1>1. Peer(e) \in Ends
    BY DEF Peer, Ends
<1>2. wire' \in [Ends -> Seq(Frames)]
    <2>1. Tail(wire[Peer(e)]) \in Seq(Frames)
        BY <1>1, HeadTail DEF TypeOK
    <2> QED
        BY <1>1, <2>1 DEF Consumed, TypeOK
<1>3. rd' \in [Ends -> [close : 0..MaxId, drained : BOOLEAN]]
    <2> DEFINE c == IF reset THEN i ELSE 0
    <2>1. c \in 0..MaxId
        BY SessionAssumption DEF Ids
    <2>2. EmptyAfter(e, i, s) \in BOOLEAN
        BY DEF EmptyAfter
    <2>3. rd' = [rd EXCEPT ![e] = [close |-> c, drained |-> EmptyAfter(e, i, s)]]
        BY DEF Consumed
    <2> HIDE DEF c
    <2> QED
        BY <2>1, <2>2, <2>3 DEF TypeOK
<1>4. st' \in [Ends -> [Ids -> Stream]]
    BY SetStreamType DEF Consumed
<1> QED
    BY <1>2, <1>3, <1>4

LEMMA FirstFrame ==
    ASSUME TypeOK, NEW e \in Ends, wire[Peer(e)] # <<>>
    PROVE  /\ Head(wire[Peer(e)]).id \in Ids
           /\ Head(wire[Peer(e)]).n \in Nat
<1>1. wire[Peer(e)] \in Seq(Frames)
    BY DEF TypeOK, Peer, Ends
<1>2. Head(wire[Peer(e)]) \in Frames
    BY <1>1, HeadTail
<1> QED
    BY <1>2 DEF Frames

LEMMA FinishKeeps == ASSUME NEW e, NEW i, NEW s \in Stream, NEW why \in Finished PROVE Keeps(e, i, Finish(s, why))
BY DEF Keeps, Finish, Finished, Stream

LEMMA SameKeeps == ASSUME NEW e, NEW i PROVE Keeps(e, i, st[e][i])
BY DEF Keeps

(* RecvData, RecvCredit and RecvClose replace a record by one that keeps   *)
(* the window, or that ends the stream.                                    *)
LEMMA DataConsumed ==
    ASSUME TypeOK, NEW e \in Ends, RecvData(e)
    PROVE  \E i \in Ids, s \in Stream, reset \in BOOLEAN : Consumed(e, i, s, reset) /\ Keeps(e, i, s)
<1> DEFINE i == Head(wire[Peer(e)]).id
           n == Head(wire[Peer(e)]).n
           taken == [st[e][i] EXCEPT !.receiveCredit = @ - n, !.buffered = @ + n]
<1>1. i \in Ids /\ n \in Nat
    BY FirstFrame DEF RecvData, Reading
<1>2. st[e][i] \in Stream
    BY <1>1 DEF TypeOK
<1> HIDE DEF i, n
<1>3. CASE Ignores(e, i)
    <2>1. Consumed(e, i, st[e][i], FALSE)
        BY <1>3, Zenon DEF RecvData, i, n
    <2> QED
        BY <1>1, <1>2, <2>1, SameKeeps
<1>4. CASE ~Ignores(e, i) /\ n = 0
    <2>1. Consumed(e, i, Finish(st[e][i], "invalid"), TRUE)
        BY <1>4, Zenon DEF RecvData, i, n
    <2>2. "invalid" \in Finished
        BY DEF Finished
    <2> QED
        BY <1>1, <1>2, <2>1, <2>2, FinishType, FinishKeeps
<1>5. CASE ~Ignores(e, i) /\ n # 0 /\ ExceedsWindow(e, i, n)
    <2>1. Consumed(e, i, Finish(st[e][i], "window"), TRUE)
        BY <1>5, Zenon DEF RecvData, i, n
    <2>2. "window" \in Finished
        BY DEF Finished
    <2> QED
        BY <1>1, <1>2, <2>1, <2>2, FinishType, FinishKeeps
<1>6. CASE ~Ignores(e, i) /\ n # 0 /\ ~ExceedsWindow(e, i, n)
    <2>1. Consumed(e, i, taken, FALSE)
        BY <1>6, Zenon DEF RecvData, i, n
    <2>2. /\ st[e][i].receiveCredit - n \in Nat /\ st[e][i].receiveCredit \in Nat
          /\ st[e][i].buffered \in Nat /\ st[e][i].creditDue \in Nat
          /\ st[e][i].buffered + n \in Nat
        BY <1>1, <1>2, <1>6 DEF ExceedsWindow, Stream
    <2>3. taken \in Stream
        BY <1>1, <1>2, <2>2, CountersType, Zenon
    <2>4. /\ taken.receiveCredit = st[e][i].receiveCredit - n /\ taken.buffered = st[e][i].buffered + n
          /\ taken.creditDue = st[e][i].creditDue /\ taken.err = st[e][i].err
        BY <1>2 DEF Stream
    <2> HIDE DEF taken
    <2>5. Keeps(e, i, taken)
        BY <1>1, <2>2, <2>4 DEF Keeps, WindowSum
    <2> QED
        BY <1>1, <2>1, <2>3, <2>5, Zenon
<1> QED
    BY <1>3, <1>4, <1>5, <1>6

LEMMA CreditConsumed ==
    ASSUME TypeOK, NEW e \in Ends, RecvCredit(e)
    PROVE  \E i \in Ids, s \in Stream, reset \in BOOLEAN : Consumed(e, i, s, reset) /\ Keeps(e, i, s)
<1> DEFINE i == Head(wire[Peer(e)]).id
           n == Head(wire[Peer(e)]).n
           w == Window(e, i, n)
           known == [st[e][i] EXCEPT !.remoteWindow = w]
           granted == [st[e][i] EXCEPT !.remoteWindow = w, !.sendCredit = @ + n]
<1>1. i \in Ids /\ n \in Nat
    BY FirstFrame DEF RecvCredit, Reading
<1>2. st[e][i] \in Stream
    BY <1>1 DEF TypeOK
<1> HIDE DEF i, n
<1>3. w \in Nat
    BY <1>1, <1>2 DEF Window, Stream
<1> HIDE DEF w
<1>4. CASE Ignores(e, i)
    <2>1. Consumed(e, i, st[e][i], FALSE)
        BY <1>4, Zenon DEF RecvCredit, i, n
    <2> QED
        BY <1>1, <1>2, <2>1, SameKeeps
<1>5. CASE ~Ignores(e, i) /\ InvalidGrant(e, i, n)
    <2>1. Consumed(e, i, Finish(known, "invalid"), TRUE)
        BY <1>5, Zenon DEF RecvCredit, i, n, w
    <2>2. known \in Stream
        BY <1>2, <1>3 DEF Stream
    <2>3. "invalid" \in Finished
        BY DEF Finished
    <2> HIDE DEF known
    <2> QED
        BY <1>1, <2>1, <2>2, <2>3, FinishType, FinishKeeps
<1>6. CASE ~Ignores(e, i) /\ ~InvalidGrant(e, i, n)
    <2>1. Consumed(e, i, granted, FALSE)
        BY <1>6, Zenon DEF RecvCredit, i, n, w
    <2>2. granted \in Stream
        <3>1. st[e][i].sendCredit + n \in Nat
            BY <1>1, <1>2 DEF Stream
        <3> QED
            BY <1>2, <1>3, <3>1, CountersType, Zenon
    <2>3. /\ granted.receiveCredit = st[e][i].receiveCredit /\ granted.buffered = st[e][i].buffered
          /\ granted.creditDue = st[e][i].creditDue /\ granted.err = st[e][i].err
        BY <1>2 DEF Stream
    <2> HIDE DEF granted
    <2>4. Keeps(e, i, granted)
        BY <2>3 DEF Keeps, WindowSum
    <2> QED
        BY <1>1, <2>1, <2>2, <2>4, Zenon
<1> QED
    BY <1>4, <1>5, <1>6

LEMMA CloseConsumed ==
    ASSUME TypeOK, NEW e \in Ends, RecvClose(e)
    PROVE  \E i \in Ids, s \in Stream, reset \in BOOLEAN : Consumed(e, i, s, reset) /\ Keeps(e, i, s)
<1> DEFINE i == Head(wire[Peer(e)]).id
           s == IF st[e][i].err = "live" THEN HalfClosed(e, i) ELSE st[e][i]
<1>1. i \in Ids
    BY FirstFrame DEF RecvClose, Reading
<1>2. st[e][i] \in Stream
    BY <1>1 DEF TypeOK
<1>3. Consumed(e, i, s, FALSE)
    BY DEF RecvClose
<1> HIDE DEF i
<1>4. HalfClosed(e, i) \in Stream /\ Keeps(e, i, HalfClosed(e, i))
    BY <1>2 DEF HalfClosed, Stream, Keeps, WindowSum
<1>5. s \in Stream /\ Keeps(e, i, s)
    BY <1>2, <1>4, SameKeeps
<1> HIDE DEF s
<1> QED
    BY <1>1, <1>3, <1>5

LEMMA RecvOpenConsumed ==
    ASSUME TypeOK, RecvOpen
    PROVE  \E i \in Ids, s \in Stream, reset \in BOOLEAN :
              /\ Consumed("server", i, s, reset)
              /\ lastRemoteID' = i
              /\ acceptQ' = acceptQ \/ acceptQ' = Append(acceptQ, i)
              /\ \/ Keeps("server", i, s)
                 \/ /\ WindowSum(s) = StreamBuffer["server"]
                    /\ ~Refuses("server")
<1> DEFINE i == Head(wire["client"]).id
           new == [Started("server") EXCEPT !.announced = TRUE]
           s == IF Refuses("server") THEN st["server"][i] ELSE new
           t == IF s.err = "live" /\ AcceptFull THEN Finish(s, "limit") ELSE s
<1>1. "server" \in Ends /\ Peer("server") = "client"
    BY DEF Ends, Peer
<1>2. i \in Ids
    BY <1>1, FirstFrame DEF RecvOpen, Reading
<1>3. st["server"][i] \in Stream
    BY <1>1, <1>2 DEF TypeOK
<1>4. Consumed("server", i, t, Refuses("server") \/ AcceptFull)
    BY DEF RecvOpen
<1>5. lastRemoteID' = i /\ (acceptQ' = acceptQ \/ acceptQ' = Append(acceptQ, i))
    BY DEF RecvOpen
<1>6. (Refuses("server") \/ AcceptFull) \in BOOLEAN
    OBVIOUS
<1>7. new \in Stream
    BY <1>1, StartedType DEF Stream
<1>8. WindowSum(new) = StreamBuffer["server"]
    <2>1. StreamBuffer["server"] \in Nat
        BY <1>1, SessionAssumption
    <2>2. new.receiveCredit = 0 /\ new.buffered = 0 /\ new.creditDue = StreamBuffer["server"]
        BY <2>1 DEF Started, NoStream
    <2> QED
        BY <2>1, <2>2 DEF WindowSum
<1>9. "limit" \in Finished
    BY DEF Finished
<1> HIDE DEF i, new
<1>10. CASE Refuses("server")
    <2>1. s = st["server"][i]
        BY <1>10
    <2>2. t \in Stream /\ Keeps("server", i, t)
        BY <1>3, <1>9, <2>1, FinishType, FinishKeeps, SameKeeps
    <2> HIDE DEF t
    <2> QED
        BY <1>2, <1>4, <1>5, <1>6, <2>2
<1>11. CASE ~Refuses("server")
    <2>1. s = new
        BY <1>11
    <2>2. t \in Stream
        BY <1>7, <1>9, <2>1, FinishType
    <2>3. Keeps("server", i, t) \/ WindowSum(t) = StreamBuffer["server"]
        BY <1>7, <1>8, <1>9, <2>1, FinishKeeps
    <2> HIDE DEF t
    <2> QED
        BY <1>2, <1>4, <1>5, <1>6, <1>11, <2>2, <2>3
<1> QED
    BY <1>10, <1>11

LEMMA RecvOpenType ==
    ASSUME TypeOK, RecvOpen
    PROVE  TypeOK'
<1>1. PICK i \in Ids, s \in Stream, reset \in BOOLEAN :
          Consumed("server", i, s, reset) /\ lastRemoteID' = i /\ (acceptQ' = acceptQ \/ acceptQ' = Append(acceptQ, i))
    BY RecvOpenConsumed
<1>2. "server" \in Ends /\ wire[Peer("server")] # <<>>
    BY DEF Ends, RecvOpen, Reading
<1>3. /\ st' \in [Ends -> [Ids -> Stream]]
      /\ wire' \in [Ends -> Seq(Frames)]
      /\ rd' \in [Ends -> [close : 0..MaxId, drained : BOOLEAN]]
    BY <1>1, <1>2, ConsumedType
<1>4. acceptQ' \in Seq(Ids)
    <2>1. acceptQ \in Seq(Ids)
        BY DEF TypeOK
    <2>2. Append(acceptQ, i) \in Seq(Ids)
        BY <2>1
    <2> QED
        BY <1>1, <2>1, <2>2
<1>5. lastRemoteID' \in 0..MaxId
    BY <1>1, SessionAssumption DEF Ids
<1>6. creditWake' \in [Ends -> BOOLEAN]
    BY DEF RecvOpen, TypeOK
<1> QED
    BY <1>3, <1>4, <1>5, <1>6 DEF RecvOpen, TypeOK, flags, history

(* The three other frames.                                                 *)
LEMMA RecvType ==
    ASSUME TypeOK, NEW e \in Ends, RecvData(e) \/ RecvCredit(e) \/ RecvClose(e)
    PROVE  TypeOK'
<1>1. PICK i \in Ids, s \in Stream, reset \in BOOLEAN : Consumed(e, i, s, reset)
    BY DataConsumed, CreditConsumed, CloseConsumed
<1>2. wire[Peer(e)] # <<>>
    BY DEF RecvData, RecvCredit, RecvClose, Reading
<1>3. /\ st' \in [Ends -> [Ids -> Stream]]
      /\ wire' \in [Ends -> Seq(Frames)]
      /\ rd' \in [Ends -> [close : 0..MaxId, drained : BOOLEAN]]
    BY <1>1, <1>2, ConsumedType, SMTT(30)
<1>4. UNCHANGED <<err, nextID, lastRemoteID, snd, writes, controls, creditWake, closing, flags,
                  acceptQ, accepted, history>>
    BY DEF RecvData, RecvCredit, RecvClose
<1> QED
    BY <1>3, <1>4 DEF TypeOK, flags, history

LEMMA ReaderClosesType ==
    ASSUME TypeOK, NEW e \in Ends, ReaderCloses(e)
    PROVE  TypeOK'
<1>1. rd[e].close \in Ids
    BY SessionAssumption DEF ReaderCloses, TypeOK, Ids
<1>2. controls' \in [Ends -> Seq(Ids)]
    BY <1>1 DEF ReaderCloses, TypeOK
<1>3. rd' \in [Ends -> [close : 0..MaxId, drained : BOOLEAN]]
    <2>1. rd[e] \in [close : 0..MaxId, drained : BOOLEAN] /\ 0 \in 0..MaxId
        BY SessionAssumption DEF TypeOK
    <2>2. [rd[e] EXCEPT !.close = 0] \in [close : 0..MaxId, drained : BOOLEAN]
        BY <2>1
    <2> QED
        BY <2>2 DEF ReaderCloses, TypeOK
<1> QED
    BY <1>2, <1>3 DEF ReaderCloses, TypeOK, flags, history

LEMMA OnWireType ==
    ASSUME TypeOK, NEW e \in Ends, NEW f \in Frames, OnWire(e, f)
    PROVE  wire' \in [Ends -> Seq(Frames)]
BY DEF OnWire, TypeOK

LEMMA WriteControlType ==
    ASSUME TypeOK, NEW e \in Ends, WriteControl(e)
    PROVE  TypeOK'
<1>1. Head(controls[e]) \in Ids /\ Tail(controls[e]) \in Seq(Ids)
    BY HeadTail DEF WriteControl, TypeOK
<1>2. CloseFrame(Head(controls[e])) \in Frames
    BY <1>1 DEF CloseFrame, Frame, Frames
<1>3. wire' \in [Ends -> Seq(Frames)]
    BY <1>2, OnWireType DEF WriteControl
<1>4. controls' \in [Ends -> Seq(Ids)]
    BY <1>1 DEF WriteControl, TypeOK
<1> QED
    BY <1>3, <1>4 DEF WriteControl, TypeOK, flags, history

LEMMA ReportType ==
    ASSUME TypeOK, NEW e \in Ends, NEW i \in Ids, NEW r \in {"ok", "err"}, Report(e, i, r)
    PROVE  snd' \in [Ends -> [Ids -> Request]]
<1>1. snd[e][i] \in Request
    BY DEF TypeOK
<1>2. [snd[e][i] EXCEPT !.result = r] \in Request
    BY <1>1 DEF Request
<1>3. CASE snd[e][i].pc = "wait"
    <2>1. snd' = [snd EXCEPT ![e][i] = [snd[e][i] EXCEPT !.result = r]]
        BY <1>3 DEF Report
    <2> QED
        BY <1>2, <2>1, SndType
<1>4. CASE snd[e][i].pc # "wait"
    BY <1>4 DEF Report, TypeOK
<1> QED
    BY <1>3, <1>4

LEMMA WriteRequestType ==
    ASSUME TypeOK, NEW e \in Ends, WriteRequest(e)
    PROVE  TypeOK'
<1> DEFINE f == Head(writes[e])
<1>1. f \in Frames /\ Tail(writes[e]) \in Seq(Frames)
    BY HeadTail DEF WriteRequest, TypeOK
<1>2. f.id \in Ids
    BY <1>1 DEF Frames
<1>3. writes' \in [Ends -> Seq(Frames)]
    BY <1>1 DEF WriteRequest, TypeOK
<1>4. snd' \in [Ends -> [Ids -> Request]] /\ wire' \in [Ends -> Seq(Frames)]
    <2>1. CASE WriteError(e, f.id)
        <3>1. Report(e, f.id, "err") /\ wire' = wire
            BY <2>1 DEF WriteRequest
        <3> QED
            BY <1>2, <3>1, ReportType DEF TypeOK
    <2>2. CASE ~WriteError(e, f.id)
        <3>1. Report(e, f.id, "ok") /\ OnWire(e, f)
            BY <2>2 DEF WriteRequest
        <3> QED
            BY <1>1, <1>2, <3>1, ReportType, OnWireType
    <2> QED
        BY <2>1, <2>2
<1> QED
    BY <1>3, <1>4 DEF WriteRequest, TypeOK, flags, history

(* A grant moves what is due into what the peer may send.                  *)
LEMMA GrantType ==
    ASSUME NEW s \in Stream
    PROVE  /\ [s EXCEPT !.receiveCredit = @ + s.creditDue, !.creditDue = 0] \in Stream
           /\ WindowSum([s EXCEPT !.receiveCredit = @ + s.creditDue, !.creditDue = 0]) = WindowSum(s)
<1> DEFINE g == [s EXCEPT !.receiveCredit = @ + s.creditDue, !.creditDue = 0]
<1>1. /\ s.receiveCredit \in Nat /\ s.creditDue \in Nat /\ s.buffered \in Nat
      /\ s.receiveCredit + s.creditDue \in Nat
    BY DEF Stream
<1>2. g \in Stream
    BY <1>1, CountersType, Zenon
<1>3. g.receiveCredit = s.receiveCredit + s.creditDue /\ g.creditDue = 0 /\ g.buffered = s.buffered
    BY DEF Stream
<1> HIDE DEF g
<1>4. WindowSum(g) = WindowSum(s)
    BY <1>1, <1>3 DEF WindowSum
<1> QED
    BY <1>2, <1>4 DEF g

LEMMA WriteCreditType ==
    ASSUME TypeOK, NEW e \in Ends, WriteCredit(e)
    PROVE  TypeOK'
<1>1. creditWake' \in [Ends -> BOOLEAN]
    BY Zenon DEF WriteCredit, TypeOK, Rewake
<1>2. st' \in [Ends -> [Ids -> Stream]] /\ wire' \in [Ends -> Seq(Frames)]
    <2>1. CASE st' = st /\ wire' = wire
        BY <2>1 DEF TypeOK
    <2>2. CASE ~(st' = st /\ wire' = wire)
        <3>1. PICK i \in Grantable(e) :
                  /\ OnWire(e, Frame("CREDIT", i, st[e][i].creditDue))
                  /\ SetStream(e, i, [st[e][i] EXCEPT !.receiveCredit = @ + st[e][i].creditDue, !.creditDue = 0])
            BY <2>2, Zenon DEF WriteCredit
        <3>2. i \in Ids
            BY DEF Grantable, Live
        <3>3. st[e][i] \in Stream
            BY <3>2 DEF TypeOK
        <3>4. Frame("CREDIT", i, st[e][i].creditDue) \in Frames
            BY <3>2, <3>3 DEF Frame, Frames, Stream
        <3>5. [st[e][i] EXCEPT !.receiveCredit = @ + st[e][i].creditDue, !.creditDue = 0] \in Stream
            BY <3>3, GrantType, Zenon
        <3> QED
            BY <3>1, <3>2, <3>4, <3>5, OnWireType, SetStreamType
    <2> QED
        BY <2>1, <2>2
<1> QED
    BY <1>1, <1>2, Zenon DEF WriteCredit, TypeOK, flags, history

LEMMA ForeignFrameType ==
    ASSUME TypeOK, NEW e \in Ends, ForeignFrame(e)
    PROVE  TypeOK'
<1>1. Peer(e) \in Ends
    BY DEF Peer, Ends
<1>2. StreamBuffer[Peer(e)] + 1 \in Nat /\ MaxWindow + 1 \in Nat
    BY <1>1, SessionAssumption
<1>3. ASSUME NEW t \in {"OPEN", "CLOSE", "DATA", "CREDIT", "BAD"}, NEW i \in Ids, NEW n \in Nat
      PROVE  Frame(t, i, n) \in Frames
    BY DEF Frame, Frames
<1>4. PICK f \in Frames : OnWire(e, f)
    BY <1>2, <1>3 DEF ForeignFrame
<1>5. wire' \in [Ends -> Seq(Frames)]
    BY <1>4, OnWireType
<1> QED
    BY <1>5 DEF ForeignFrame, TypeOK, flags, history

LEMMA DrainIdleType ==
    ASSUME TypeOK, NEW e \in Ends, Drain(e) \/ IdleCheck(e)
    PROVE  TypeOK'
<1>1. CASE Drain(e)
    BY <1>1 DEF Drain, TypeOK, queues, history
<1>2. CASE IdleCheck(e)
    BY <1>2 DEF IdleCheck, TypeOK, queues, history
<1> QED
    BY <1>1, <1>2

(* The steps that end the session.                                         *)
Failing(e) ==
    RecvInvalid(e) \/ ReaderDrained(e) \/ ReadFails(e) \/ WriteFails(e) \/ Drained(e)
        \/ CloseSession(e) \/ IdleExpire(e)

LEMMA FailingFails ==
    ASSUME NEW e \in Ends, Failing(e)
    PROVE  \E why \in {"protocol", "draining", "broken", "timeout", "closed", "idle"} : Fail(e, why)
BY DEF Failing, RecvInvalid, ReaderDrained, ReadFails, WriteFails, Drained, CloseSession, IdleExpire

LEMMA SenderConsumerType ==
    ASSUME TypeOK, NEW e \in Ends, NEW i \in Ids, Sender(e, i) \/ Consumer(e, i) \/ QueueClose(e, i)
    PROVE  TypeOK'
<1>1. StreamBuffer[e] \in Nat
    BY SessionAssumption
<1>2. CASE Sender(e, i)
    BY <1>2, ReserveType, EnqueueType, SentType, SendFailsType DEF Sender
<1>3. CASE ReadEOF(e, i)
    BY <1>3, ReadEOFType
<1>4. CASE \E n \in 1..StreamBuffer[e] : Read(e, i, n)
    BY <1>1, <1>4, ReadType
<1>5. CASE QueueClose(e, i)
    BY <1>5, QueueCloseType
<1> QED
    BY <1>2, <1>3, <1>4, <1>5 DEF Consumer

LEMMA NextType == TypeOK /\ [Next]_vars => TypeOK'
<1> SUFFICES ASSUME TypeOK, [Next]_vars PROVE TypeOK'
    OBVIOUS
<1>1. CASE Open
    BY <1>1, OpenType
<1>2. CASE OpenExhausted
    BY <1>2, OpenExhaustedType
<1>3. CASE Accept
    BY <1>3, AcceptType
<1>4. CASE RecvOpen
    BY <1>4, RecvOpenType
<1>5. ASSUME NEW e \in Ends, NEW i \in Ids, NEW n \in 1..MaxBytes[e], Write(e, i, n)
      PROVE  TypeOK'
    <2>1. n \in Nat
        BY SessionAssumption
    <2> QED
        BY <1>5, <2>1, WriteType
<1>6. ASSUME NEW e \in Ends, NEW i \in Ids, Close(e, i)
      PROVE  TypeOK'
    BY <1>6, CloseType
<1>7. ASSUME NEW e \in Ends, NEW i \in Ids, Sender(e, i) \/ Consumer(e, i) \/ QueueClose(e, i)
      PROVE  TypeOK'
    BY <1>7, SenderConsumerType
<1>8. ASSUME NEW e \in Ends, Failing(e)
      PROVE  TypeOK'
    BY <1>8, FailingFails, FailType
<1>9. ASSUME NEW e \in Ends, RecvData(e) \/ RecvCredit(e) \/ RecvClose(e) \/ ReaderCloses(e)
      PROVE  TypeOK'
    BY <1>9, RecvType, ReaderClosesType
<1>10. ASSUME NEW e \in Ends, WriteControl(e) \/ WriteRequest(e) \/ WriteCredit(e) \/ ForeignFrame(e)
       PROVE  TypeOK'
    BY <1>10, WriteControlType, WriteRequestType, WriteCreditType, ForeignFrameType
<1>11. ASSUME NEW e \in Ends, Drain(e) \/ IdleCheck(e)
       PROVE  TypeOK'
    BY <1>11, DrainIdleType
<1>12. CASE UNCHANGED vars
    BY <1>12 DEF TypeOK, vars
<1> QED
    BY <1>1, <1>2, <1>3, <1>4, <1>5, <1>6, <1>7, <1>8, <1>9, <1>10, <1>11, <1>12
    DEF Next, Business, Reader, Writer, Failing, Ended

(* Type correctness of both ends, the wire and the queues between them.    *)
THEOREM SessionTypeCorrect == Spec => []TypeOK
<1>1. Init => TypeOK
    BY InitType
<1>2. TypeOK /\ [Next]_vars => TypeOK'
    BY NextType
<1> QED
    BY <1>1, <1>2, PTL DEF Spec

-----------------------------------------------------------------------------
(* How a step may change the streams: it leaves all of them as they are,   *)
(* but for ends and moves within a window, or it opens one, with a slot to *)
(* spare.                                                                  *)

Kept(e, i) == Keeps(e, i, st'[e][i])

OpensNone == \A e \in Ends, i \in Ids : Kept(e, i)

OpensOne ==
    \E e \in Ends, i \in Ids :
        /\ Cardinality(Live(e)) < MaxStreams[e]
        /\ WindowSum(st'[e][i]) = StreamBuffer[e]
        /\ \A f \in Ends, j \in Ids : f # e \/ j # i => Kept(f, j)

LEMMA SetStreamElsewhere ==
    ASSUME TypeOK, NEW e \in Ends, NEW i \in Ids, NEW s, SetStream(e, i, s)
    PROVE  /\ st'[e][i] = s
           /\ \A f \in Ends, j \in Ids : f # e \/ j # i => st'[f][j] = st[f][j]
BY DEF TypeOK, SetStream

LEMMA SetStreamKeeps ==
    ASSUME TypeOK, NEW e \in Ends, NEW i \in Ids, NEW s, SetStream(e, i, s), Keeps(e, i, s)
    PROVE  OpensNone
<1> SUFFICES ASSUME NEW f \in Ends, NEW j \in Ids PROVE Kept(f, j)
    BY DEF OpensNone
<1>1. CASE f = e /\ j = i
    BY <1>1, SetStreamElsewhere DEF Kept
<1>2. CASE f # e \/ j # i
    BY <1>2, SetStreamElsewhere, SameKeeps DEF Kept
<1> QED
    BY <1>1, <1>2

LEMMA CloseStreamShape ==
    ASSUME TypeOK, NEW e \in Ends, NEW i \in Ids, CloseStream(e, i)
    PROVE  OpensNone
<1> DEFINE s == IF st[e][i].err = "live" THEN Finish(st[e][i], "closed") ELSE st[e][i]
<1>1. SetStream(e, i, s)
    BY DEF CloseStream
<1>2. "closed" \in Finished /\ st[e][i] \in Stream
    BY DEF Finished, TypeOK
<1>3. Keeps(e, i, s)
    BY <1>2, FinishKeeps, SameKeeps
<1> QED
    BY <1>1, <1>3, SetStreamKeeps

LEMMA LiveFinite ==
    ASSUME NEW e \in Ends
    PROVE  IsFiniteSet(Live(e)) /\ Cardinality(Live(e)) \in Nat
<1>1. IsFiniteSet(Ids)
    BY SessionAssumption, FS_Interval DEF Ids
<1>2. Live(e) \subseteq Ids
    BY DEF Live
<1> QED
    BY <1>1, <1>2, FS_Subset, FS_CardinalityType

LEMMA SameOpensNone == st' = st => OpensNone
BY SameKeeps DEF OpensNone, Kept

LEMMA OpenOpensOne ==
    ASSUME TypeOK, Open
    PROVE  OpensOne
<1>1. "client" \in Ends /\ nextID \in Ids
    BY NextIdType
<1>2. WindowSum(Started("client")) = StreamBuffer["client"]
    <2>1. StreamBuffer["client"] \in Nat
        BY <1>1, SessionAssumption
    <2>2. /\ Started("client").receiveCredit = 0 /\ Started("client").buffered = 0
          /\ Started("client").creditDue = StreamBuffer["client"]
        BY DEF Started, NoStream
    <2> QED
        BY <2>1, <2>2 DEF WindowSum
<1>3. SetStream("client", nextID, Started("client")) /\ Cardinality(Live("client")) < MaxStreams["client"]
    BY DEF Open, HasSlot
<1>4. /\ st'["client"][nextID] = Started("client")
      /\ \A f \in Ends, j \in Ids : f # "client" \/ j # nextID => st'[f][j] = st[f][j]
    BY <1>1, <1>3, SetStreamElsewhere
<1>5. \A f \in Ends, j \in Ids : f # "client" \/ j # nextID => Kept(f, j)
    BY <1>4, SameKeeps DEF Kept
<1> QED
    BY <1>1, <1>2, <1>3, <1>4, <1>5 DEF OpensOne

LEMMA RecvOpenShape ==
    ASSUME TypeOK, RecvOpen
    PROVE  OpensNone \/ OpensOne
<1>1. PICK i \in Ids, s \in Stream, reset \in BOOLEAN :
          /\ Consumed("server", i, s, reset)
          /\ \/ Keeps("server", i, s)
             \/ WindowSum(s) = StreamBuffer["server"] /\ ~Refuses("server")
    BY RecvOpenConsumed
<1>2. "server" \in Ends /\ SetStream("server", i, s)
    BY <1>1 DEF Ends, Consumed
<1>3. CASE Keeps("server", i, s)
    BY <1>2, <1>3, SetStreamKeeps
<1>4. CASE WindowSum(s) = StreamBuffer["server"] /\ ~Refuses("server")
    <2>1. Cardinality(Live("server")) < MaxStreams["server"]
        <3>1. Cardinality(Live("server")) \in Nat
            BY LiveFinite, <1>2
        <3>2. MaxStreams["server"] \in Nat
            BY SessionAssumption, <1>2
        <3> QED
            BY <1>4, <3>1, <3>2 DEF Refuses
    <2>2. /\ st'["server"][i] = s
          /\ \A f \in Ends, j \in Ids : f # "server" \/ j # i => st'[f][j] = st[f][j]
        BY <1>2, SetStreamElsewhere
    <2>3. \A f \in Ends, j \in Ids : f # "server" \/ j # i => Kept(f, j)
        BY <2>2, SameKeeps DEF Kept
    <2> QED
        BY <1>2, <1>4, <2>1, <2>2, <2>3 DEF OpensOne
<1> QED
    BY <1>1, <1>3, <1>4

LEMMA FailShape ==
    ASSUME TypeOK, NEW e \in Ends, NEW why, Fail(e, why)
    PROVE  OpensNone
<1> SUFFICES ASSUME NEW f \in Ends, NEW j \in Ids PROVE Kept(f, j)
    BY DEF OpensNone
<1>1. st'[f][j] = IF f = e /\ st[f][j].err = "live" THEN Finish(st[f][j], "session") ELSE st[f][j]
    BY DEF Fail, TypeOK
<1>2. "session" \in Finished /\ st[f][j] \in Stream
    BY DEF Finished, TypeOK
<1> QED
    BY <1>1, <1>2, FinishKeeps, SameKeeps DEF Kept

(* The steps of the goroutines of a stream.                                *)
LEMMA SenderShape ==
    ASSUME TypeOK, NEW e \in Ends, NEW i \in Ids, Sender(e, i)
    PROVE  OpensNone
<1>1. st[e][i] \in Stream
    BY DEF TypeOK
<1>2. CASE Reserve(e, i)
    <2>1. Keeps(e, i, [st[e][i] EXCEPT !.sendCredit = @ - Chunk(e, i)])
        BY <1>1 DEF Keeps, WindowSum, Stream
    <2> QED
        BY <1>2, <2>1, SetStreamKeeps DEF Reserve
<1>3. CASE Enqueue(e, i)
    BY <1>3, SameOpensNone DEF Enqueue
<1>4. CASE Sent(e, i)
    <2>1. Keeps(e, i, [st[e][i] EXCEPT !.announced = TRUE])
        BY <1>1 DEF Keeps, WindowSum, Stream
    <2>2. SetStream(e, i, [st[e][i] EXCEPT !.announced = TRUE]) \/ st' = st
        BY <1>4, Zenon DEF Sent
    <2> QED
        BY <2>1, <2>2, SetStreamKeeps, SameOpensNone
<1>5. CASE SendFails(e, i)
    BY <1>5, CloseStreamShape DEF SendFails
<1> QED
    BY <1>2, <1>3, <1>4, <1>5 DEF Sender

LEMMA ConsumerShape ==
    ASSUME TypeOK, NEW e \in Ends, NEW i \in Ids, Consumer(e, i)
    PROVE  OpensNone
<1>1. st[e][i] \in Stream /\ "EOF" \in Finished
    BY DEF TypeOK, Finished
<1>2. CASE ReadEOF(e, i)
    BY <1>1, <1>2, FinishKeeps, SetStreamKeeps DEF ReadEOF, AtEOF
<1>3. CASE \E n \in 1..StreamBuffer[e] : Read(e, i, n)
    <2>1. PICK n \in 1..StreamBuffer[e] : Read(e, i, n)
        BY <1>3
    <2>2. n \in Nat /\ n <= st[e][i].buffered
        BY <1>1, <2>1, SessionAssumption DEF Read, Stream
    <2>3. WindowSum(Taken(e, i, n)) = WindowSum(st[e][i])
        BY <1>1, <2>2, TakenType
    <2>4. Keeps(e, i, Taken(e, i, n))
        BY <2>1, <2>3 DEF Keeps, Read
    <2> QED
        BY <2>1, <2>4, SetStreamKeeps DEF Read
<1> QED
    BY <1>2, <1>3 DEF Consumer

LEMMA WriteCreditShape ==
    ASSUME TypeOK, NEW e \in Ends, WriteCredit(e)
    PROVE  OpensNone
<1>1. CASE st' = st
    BY <1>1, SameOpensNone
<1>2. CASE st' # st
    <2>1. PICK i \in Grantable(e) :
              SetStream(e, i, [st[e][i] EXCEPT !.receiveCredit = @ + st[e][i].creditDue, !.creditDue = 0])
        BY <1>2, Zenon DEF WriteCredit
    <2>2. i \in Ids /\ st[e][i].err = "live"
        BY DEF Grantable, Live
    <2>3. st[e][i] \in Stream
        BY <2>2 DEF TypeOK
    <2> DEFINE g == [st[e][i] EXCEPT !.receiveCredit = @ + st[e][i].creditDue, !.creditDue = 0]
    <2>4. WindowSum(g) = WindowSum(st[e][i])
        BY <2>3, GrantType, Zenon
    <2> HIDE DEF g
    <2>5. Keeps(e, i, g)
        BY <2>2, <2>4 DEF Keeps
    <2> QED
        BY <2>1, <2>2, <2>5, SetStreamKeeps DEF g
<1> QED
    BY <1>1, <1>2

LEMMA StepShape == TypeOK /\ [Next]_vars => OpensNone \/ OpensOne
<1> SUFFICES ASSUME TypeOK, [Next]_vars PROVE OpensNone \/ OpensOne
    OBVIOUS
<1>1. CASE Open
    BY <1>1, OpenOpensOne
<1>2. CASE RecvOpen
    BY <1>2, RecvOpenShape
<1>3. CASE OpenExhausted \/ Accept \/ UNCHANGED vars
    BY <1>3, SameOpensNone DEF OpenExhausted, Accept, vars
<1>4. ASSUME NEW e \in Ends, NEW i \in Ids, NEW n, Write(e, i, n)
      PROVE  OpensNone
    BY <1>4, SameOpensNone DEF Write
<1>5. ASSUME NEW e \in Ends, NEW i \in Ids, Close(e, i)
      PROVE  OpensNone
    BY <1>5, CloseStreamShape DEF Close
<1>6. ASSUME NEW e \in Ends, NEW i \in Ids, Sender(e, i) \/ Consumer(e, i)
      PROVE  OpensNone
    BY <1>6, SenderShape, ConsumerShape
<1>7. ASSUME NEW e \in Ends, NEW i \in Ids, QueueClose(e, i)
      PROVE  OpensNone
    BY <1>7, SameOpensNone DEF QueueClose
<1>8. ASSUME NEW e \in Ends, Failing(e)
      PROVE  OpensNone
    BY <1>8, FailingFails, FailShape
<1>9. ASSUME NEW e \in Ends, RecvData(e) \/ RecvCredit(e) \/ RecvClose(e)
      PROVE  OpensNone
    <2>1. PICK i \in Ids, s \in Stream, reset \in BOOLEAN : Consumed(e, i, s, reset) /\ Keeps(e, i, s)
        BY <1>9, DataConsumed, CreditConsumed, CloseConsumed
    <2> QED
        BY <2>1, SetStreamKeeps DEF Consumed
<1>10. ASSUME NEW e \in Ends,
              ReaderCloses(e) \/ WriteControl(e) \/ WriteRequest(e) \/ ForeignFrame(e) \/ Drain(e) \/ IdleCheck(e)
       PROVE  OpensNone
    BY <1>10, SameOpensNone DEF ReaderCloses, WriteControl, WriteRequest, ForeignFrame, Drain, IdleCheck
<1>11. ASSUME NEW e \in Ends, WriteCredit(e)
       PROVE  OpensNone
    BY <1>11, WriteCreditShape
<1> QED
    BY <1>1, <1>2, <1>3, <1>4, <1>5, <1>6, <1>7, <1>8, <1>9, <1>10, <1>11
    DEF Next, Business, Reader, Writer, Failing, Ended

-----------------------------------------------------------------------------
(* session.go:55, per-stream backpressure: the window of every live stream *)
(* is accounted for to the byte, whatever the peer sends.                  *)
THEOREM SessionWindows == Spec => []WindowAccounted
<1>1. Init => WindowAccounted
    BY DEF Init, NoStream, WindowAccounted
<1>2. TypeOK /\ TypeOK' /\ WindowAccounted /\ [Next]_vars => WindowAccounted'
    <2> SUFFICES ASSUME TypeOK, TypeOK', WindowAccounted, [Next]_vars,
                        NEW e \in Ends, NEW i \in Ids, st'[e][i].err = "live"
                 PROVE  /\ st'[e][i].receiveCredit >= 0
                        /\ WindowSum(st'[e][i]) = StreamBuffer[e]
        BY DEF WindowAccounted, WindowSum
    <2>1. st'[e][i].receiveCredit >= 0
        BY DEF TypeOK, Stream
    <2>2. CASE Kept(e, i)
        <3>1. st[e][i].err = "live" /\ WindowSum(st'[e][i]) = WindowSum(st[e][i])
            BY <2>2 DEF Kept, Keeps
        <3>2. WindowSum(st[e][i]) = StreamBuffer[e]
            BY <3>1 DEF WindowAccounted, WindowSum
        <3> QED
            BY <2>1, <3>1, <3>2
    <2>3. CASE ~Kept(e, i)
        <3>1. WindowSum(st'[e][i]) = StreamBuffer[e]
            BY <2>3, StepShape DEF OpensNone, OpensOne
        <3> QED
            BY <2>1, <3>1
    <2> QED
        BY <2>1, <2>2, <2>3
<1> QED
    BY <1>1, <1>2, SessionTypeCorrect, PTL DEF Spec

(* session.go:346: no peer can make an end hold more streams than its      *)
(* limit, half-closed and unaccepted ones included.                        *)
THEOREM SessionSlots == Spec => []SlotsBounded
<1>1. Init => SlotsBounded
    <2> SUFFICES ASSUME Init, NEW e \in Ends PROVE Cardinality(Live(e)) <= MaxStreams[e]
        BY DEF SlotsBounded
    <2>1. Live(e) = {}
        BY DEF Init, Live, NoStream
    <2>2. Cardinality(Live(e)) = 0
        BY <2>1, FS_EmptySet
    <2> QED
        BY <2>2, SessionAssumption
<1>2. TypeOK /\ SlotsBounded /\ [Next]_vars => SlotsBounded'
    <2> SUFFICES ASSUME TypeOK, SlotsBounded, [Next]_vars, NEW e \in Ends
                 PROVE  Cardinality(Live(e)') <= MaxStreams[e]
        BY DEF SlotsBounded
    <2>1. IsFiniteSet(Live(e)) /\ Cardinality(Live(e)) \in Nat /\ MaxStreams[e] \in Nat
        BY LiveFinite, SessionAssumption
    <2>2. CASE \A j \in Ids : Kept(e, j)
        <3>1. Live(e)' \subseteq Live(e)
            BY <2>2 DEF Live, Kept, Keeps
        <3>2. Cardinality(Live(e)') <= Cardinality(Live(e)) /\ Cardinality(Live(e)') \in Nat
            BY <2>1, <3>1, FS_Subset, FS_CardinalityType
        <3> QED
            BY <2>1, <3>2 DEF SlotsBounded
    <2>3. ASSUME NEW i \in Ids, Cardinality(Live(e)) < MaxStreams[e], \A j \in Ids : j # i => Kept(e, j)
          PROVE  Cardinality(Live(e)') <= MaxStreams[e]
        <3>1. Live(e)' \subseteq Live(e) \union {i}
            BY <2>3 DEF Live, Kept, Keeps
        <3>2. /\ IsFiniteSet(Live(e) \union {i})
              /\ Cardinality(Live(e) \union {i}) <= Cardinality(Live(e)) + 1
            <4>1. /\ IsFiniteSet(Live(e) \union {i})
                  /\ \/ Cardinality(Live(e) \union {i}) = Cardinality(Live(e))
                     \/ Cardinality(Live(e) \union {i}) = Cardinality(Live(e)) + 1
                BY <2>1, FS_AddElement
            <4> QED
                BY <2>1, <4>1
        <3>3. /\ Cardinality(Live(e)') <= Cardinality(Live(e) \union {i})
              /\ Cardinality(Live(e)') \in Nat /\ Cardinality(Live(e) \union {i}) \in Nat
            BY <3>1, <3>2, FS_Subset, FS_CardinalityType
        <3> QED
            BY <2>1, <2>3, <3>2, <3>3
    <2> QED
        BY <2>2, <2>3, StepShape DEF OpensNone, OpensOne
<1> QED
    BY <1>1, <1>2, SessionTypeCorrect, PTL DEF Spec

-----------------------------------------------------------------------------
(* The end of the last stream of a draining session: DrainEnds is inductive *)
(* together with TypeOK, because a step that ends a stream looks at those   *)
(* that are left under the same lock.                                       *)

(* Somebody of end e will call fail(ErrDraining).                          *)
Leaving(e) == owed[e] \/ rd[e].drained \/ \E i \in Ids : closing[e][i] = "sendThenFail"

(* The client's IDs are used up.                                           *)
Exhausted(e) == e = "client" /\ nextID = 0

DrainEndsAt(e) == draining[e] /\ Live(e) = {} /\ err[e] = "none" => Leaving(e) \/ Exhausted(e)

(* A step that starts no draining, loses no stream and no obligation of an *)
(* end.                                                                    *)
LEMMA LeavingKept ==
    ASSUME NEW e \in Ends, DrainEndsAt(e), err'[e] = "none" => err[e] = "none",
           draining'[e] => draining[e], Live(e) \subseteq Live(e)', nextID = 0 => nextID' = 0,
           Leaving(e) => Leaving(e)'
    PROVE  DrainEndsAt(e)'
BY DEF DrainEndsAt, Exhausted

(* A failed end owes nothing more, and the other is left alone.            *)
LEMMA FailLeaves ==
    ASSUME TypeOK, NEW e \in Ends, NEW why \in {"protocol", "draining", "broken", "timeout", "closed", "idle"},
           Fail(e, why), NEW f \in Ends, DrainEndsAt(f)
    PROVE  DrainEndsAt(f)'
<1>1. CASE f = e
    BY <1>1 DEF Fail, TypeOK, DrainEndsAt
<1>2. CASE f # e
    <2>1. /\ err'[f] = err[f] /\ draining'[f] = draining[f] /\ owed'[f] = owed[f] /\ rd'[f] = rd[f]
          /\ closing'[f] = closing[f] /\ st'[f] = st[f] /\ nextID' = nextID
        BY <1>2 DEF Fail, TypeOK
    <2> QED
        BY <2>1 DEF DrainEndsAt, Leaving, Exhausted, Live
<1> QED
    BY <1>1, <1>2

(* CloseStream leaves a stream, or hands the end over.                     *)
LEMMA CloseStreamLeaves ==
    ASSUME TypeOK, NEW e \in Ends, NEW i \in Ids, CloseStream(e, i),
           UNCHANGED <<err, draining, nextID, rd>>, NEW f \in Ends, DrainEndsAt(f)
    PROVE  DrainEndsAt(f)'
<1> DEFINE s == IF st[e][i].err = "live" THEN Finish(st[e][i], "closed") ELSE st[e][i]
<1> DEFINE tell == st[e][i].err = "live" /\ ~st[e][i].remoteEOF
<1> DEFINE drained == EmptyAfter(e, i, s)
<1>1. /\ SetStream(e, i, s)
      /\ closing' = [closing EXCEPT ![e][i] =
                        IF ~tell THEN @ ELSE IF drained THEN "sendThenFail" ELSE "send"]
      /\ owed' = [owed EXCEPT ![e] = @ \/ (drained /\ ~tell)]
    BY Zenon DEF CloseStream
<1>2. st[e][i] \in Stream
    BY DEF TypeOK
<1>3. s.err # "live"
    BY <1>2 DEF Finish, Stream
<1>4. st'[e][i] = s /\ \A g \in Ends, j \in Ids : g # e \/ j # i => st'[g][j] = st[g][j]
    BY <1>1, SetStreamElsewhere
<1> HIDE DEF s
<1>5. CASE f # e
    <2>1. owed'[f] = owed[f] /\ closing'[f] = closing[f] /\ \A j \in Ids : st'[f][j] = st[f][j]
        BY <1>1, <1>4, <1>5 DEF TypeOK
    <2> QED
        BY <2>1 DEF DrainEndsAt, Leaving, Exhausted, Live
<1>6. CASE f = e
    <2> SUFFICES ASSUME draining[e], Live(e)' = {}, err[e] = "none"
                 PROVE  Leaving(e)'
        BY <1>6 DEF DrainEndsAt
    <2>1. Live(e) \ {i} = {}
        BY <1>4 DEF Live
    <2>2. drained
        BY <1>3, <2>1 DEF EmptyAfter
    <2>3. CASE tell
        BY <1>1, <2>2, <2>3 DEF Leaving, TypeOK
    <2>4. CASE ~tell
        BY <1>1, <2>2, <2>4 DEF Leaving, TypeOK
    <2> QED
        BY <2>3, <2>4
<1> QED
    BY <1>5, <1>6

(* The reader, which was not owing anything, owes it now if the frame it   *)
(* consumed ended the last stream.                                         *)
LEMMA ConsumedLeaves ==
    ASSUME TypeOK, NEW e \in Ends, NEW i \in Ids, NEW s \in Stream, NEW reset \in BOOLEAN,
           Consumed(e, i, s, reset), rd[e] = Rest,
           UNCHANGED <<err, draining, nextID, owed, closing>>, NEW f \in Ends, DrainEndsAt(f)
    PROVE  DrainEndsAt(f)'
<1>1. st'[e][i] = s /\ \A g \in Ends, j \in Ids : g # e \/ j # i => st'[g][j] = st[g][j]
    BY SetStreamElsewhere DEF Consumed
<1>2. rd' = [rd EXCEPT ![e] = [close |-> IF reset THEN i ELSE 0, drained |-> EmptyAfter(e, i, s)]]
    BY DEF Consumed
<1>3. CASE f # e
    <2>1. rd'[f] = rd[f] /\ \A j \in Ids : st'[f][j] = st[f][j]
        BY <1>1, <1>2, <1>3 DEF TypeOK
    <2> QED
        BY <2>1 DEF DrainEndsAt, Leaving, Exhausted, Live
<1>4. CASE f = e
    <2> SUFFICES ASSUME draining[e], Live(e)' = {}, err[e] = "none"
                 PROVE  Leaving(e)'
        BY <1>4 DEF DrainEndsAt
    <2>1. Live(e) \ {i} = {} /\ s.err # "live"
        BY <1>1 DEF Live
    <2>2. EmptyAfter(e, i, s)
        BY <2>1 DEF EmptyAfter
    <2> QED
        BY <1>2, <2>2 DEF Leaving, TypeOK
<1> QED
    BY <1>3, <1>4

(* The steps that keep the streams that are live, and what is owed.        *)
LEMMA StreamStepLeaves ==
    ASSUME TypeOK, NEW e \in Ends, NEW i \in Ids, NEW f \in Ends, DrainEndsAt(f),
           Sender(e, i) \/ Consumer(e, i) \/ QueueClose(e, i) \/ Close(e, i) \/ \E n \in Nat : Write(e, i, n)
    PROVE  DrainEndsAt(f)'
<1>1. st[e][i] \in Stream
    BY DEF TypeOK
<1>2. ASSUME NEW s, SetStream(e, i, s), s.err = st[e][i].err, UNCHANGED <<err, draining, nextID, rd, closing, owed>>
      PROVE  DrainEndsAt(f)'
    <2>1. \A g \in Ends, j \in Ids : st'[g][j].err = st[g][j].err
        BY <1>2, SetStreamElsewhere
    <2>2. Live(f)' = Live(f)
        BY <2>1 DEF Live
    <2> QED
        BY <1>2, <2>2 DEF DrainEndsAt, Leaving, Exhausted
<1>3. ASSUME UNCHANGED <<err, draining, nextID, rd, closing, owed, st>>
      PROVE  DrainEndsAt(f)'
    BY <1>3 DEF DrainEndsAt, Leaving, Exhausted, Live
<1>4. CASE Reserve(e, i)
    <2>1. [st[e][i] EXCEPT !.sendCredit = @ - Chunk(e, i)].err = st[e][i].err
        BY <1>1 DEF Stream
    <2> QED
        BY <1>2, <1>4, <2>1 DEF Reserve, flags
<1>5. CASE Enqueue(e, i) \/ \E n \in Nat : Write(e, i, n)
    BY <1>3, <1>5, Zenon DEF Enqueue, Write, flags
<1>6. CASE Sent(e, i)
    <2>1. [st[e][i] EXCEPT !.announced = TRUE].err = st[e][i].err
        BY <1>1 DEF Stream
    <2>2. SetStream(e, i, [st[e][i] EXCEPT !.announced = TRUE]) \/ st' = st
        BY <1>6, Zenon DEF Sent
    <2>3. UNCHANGED <<err, draining, nextID, rd, closing, owed>>
        BY <1>6 DEF Sent, flags
    <2> QED
        BY <1>2, <1>3, <2>1, <2>2, <2>3
<1>7. CASE SendFails(e, i) \/ Close(e, i)
    BY <1>7, CloseStreamLeaves DEF SendFails, Close
<1>8. CASE ReadEOF(e, i)
    <2>1. /\ SetStream(e, i, AtEOF(e, i)) /\ UNCHANGED <<err, draining, nextID, rd, closing>>
          /\ owed' = [owed EXCEPT ![e] = @ \/ EmptyAfter(e, i, AtEOF(e, i))]
        BY <1>8 DEF ReadEOF
    <2>2. AtEOF(e, i).err # "live"
        BY <1>1 DEF AtEOF, Finish, Stream
    <2>3. st'[e][i] = AtEOF(e, i) /\ \A g \in Ends, j \in Ids : g # e \/ j # i => st'[g][j] = st[g][j]
        BY <2>1, SetStreamElsewhere
    <2>4. CASE f # e
        <3>1. owed'[f] = owed[f] /\ \A j \in Ids : st'[f][j] = st[f][j]
            BY <2>1, <2>3, <2>4 DEF TypeOK
        <3> QED
            BY <2>1, <3>1 DEF DrainEndsAt, Leaving, Exhausted, Live
    <2>5. CASE f = e
        <3> SUFFICES ASSUME draining[e], Live(e)' = {}
                     PROVE  Leaving(e)'
            BY <2>1, <2>5 DEF DrainEndsAt
        <3>1. Live(e) \ {i} = {}
            BY <2>3 DEF Live
        <3>2. EmptyAfter(e, i, AtEOF(e, i))
            BY <2>2, <3>1 DEF EmptyAfter
        <3> QED
            BY <2>1, <3>2 DEF Leaving, TypeOK
    <2> QED
        BY <2>4, <2>5
<1>9. CASE \E n \in 1..StreamBuffer[e] : Read(e, i, n)
    <2>1. PICK n \in 1..StreamBuffer[e] : Read(e, i, n)
        BY <1>9
    <2>2. Taken(e, i, n).err = st[e][i].err
        BY <1>1 DEF Taken, Stream
    <2> QED
        BY <1>2, <2>1, <2>2 DEF Read, flags
<1>10. CASE QueueClose(e, i)
    <2>1. /\ closing' = [closing EXCEPT ![e][i] = "no"]
          /\ owed' = [owed EXCEPT ![e] = @ \/ closing[e][i] = "sendThenFail"]
          /\ UNCHANGED <<err, draining, nextID, rd, st>>
        BY <1>10 DEF QueueClose
    <2>2. Leaving(f) => Leaving(f)'
        BY <2>1 DEF Leaving, TypeOK
    <2> QED
        BY <2>1, <2>2 DEF DrainEndsAt, Exhausted, Live
<1> QED
    BY <1>4, <1>5, <1>6, <1>7, <1>8, <1>9, <1>10 DEF Sender, Consumer

(* Drain itself looks for streams under the lock.                          *)
LEMMA DrainLeaves ==
    ASSUME TypeOK, NEW e \in Ends, Drain(e), NEW f \in Ends, DrainEndsAt(f)
    PROVE  DrainEndsAt(f)'
<1>1. /\ draining' = [draining EXCEPT ![e] = TRUE] /\ owed' = [owed EXCEPT ![e] = @ \/ Live(e) = {}]
      /\ UNCHANGED <<err, nextID, rd, st, closing>>
    BY DEF Drain
<1>2. Live(f)' = Live(f)
    BY <1>1 DEF Live
<1>3. CASE f = e
    BY <1>1, <1>2, <1>3 DEF DrainEndsAt, Leaving, TypeOK
<1>4. CASE f # e
    <2>1. draining'[f] = draining[f] /\ owed'[f] = owed[f]
        BY <1>1, <1>4 DEF TypeOK
    <2> QED
        BY <1>1, <1>2, <2>1 DEF DrainEndsAt, Leaving, Exhausted
<1> QED
    BY <1>3, <1>4

(* No draining client opens a stream.                                      *)
LEMMA OpenLeaves ==
    ASSUME TypeOK, Open, NEW f \in Ends, DrainEndsAt(f)
    PROVE  DrainEndsAt(f)'
<1>1. /\ ~draining["client"] /\ SetStream("client", nextID, Started("client"))
      /\ UNCHANGED <<err, draining, rd, closing, owed>>
    BY DEF Open, flags
<1>2. "client" \in Ends /\ nextID \in Ids
    BY NextIdType
<1>3. CASE f = "client"
    BY <1>1, <1>3 DEF DrainEndsAt
<1>4. CASE f # "client"
    <2>1. \A j \in Ids : st'[f][j] = st[f][j]
        BY <1>1, <1>2, <1>4, SetStreamElsewhere
    <2> QED
        BY <1>1, <1>4, <2>1 DEF DrainEndsAt, Leaving, Exhausted, Live
<1> QED
    BY <1>3, <1>4

LEMMA RecvLeaves ==
    ASSUME TypeOK, NEW e \in Ends, RecvData(e) \/ RecvCredit(e) \/ RecvClose(e), NEW f \in Ends, DrainEndsAt(f)
    PROVE  DrainEndsAt(f)'
<1>1. PICK i \in Ids, s \in Stream, reset \in BOOLEAN : Consumed(e, i, s, reset)
    BY DataConsumed, CreditConsumed, CloseConsumed, SMTT(30)
<1>2. rd[e] = Rest /\ UNCHANGED <<err, draining, nextID, owed, closing>>
    BY DEF RecvData, RecvCredit, RecvClose, Reading, flags
<1> QED
    BY <1>1, <1>2, ConsumedLeaves

LEMMA RecvOpenLeaves ==
    ASSUME TypeOK, RecvOpen, NEW f \in Ends, DrainEndsAt(f)
    PROVE  DrainEndsAt(f)'
<1>1. PICK i \in Ids, s \in Stream, reset \in BOOLEAN : Consumed("server", i, s, reset)
    BY RecvOpenConsumed
<1>2. "server" \in Ends /\ rd["server"] = Rest /\ UNCHANGED <<err, draining, nextID, owed, closing>>
    BY DEF RecvOpen, Reading, flags, Ends
<1> QED
    BY <1>1, <1>2, ConsumedLeaves

LEMMA WriterLeaves ==
    ASSUME TypeOK, NEW e \in Ends,
           ReaderCloses(e) \/ WriteControl(e) \/ WriteRequest(e) \/ WriteCredit(e) \/ ForeignFrame(e) \/ IdleCheck(e),
           NEW f \in Ends, DrainEndsAt(f)
    PROVE  DrainEndsAt(f)'
<1>1. CASE ReaderCloses(e)
    <2>1. /\ rd' = [rd EXCEPT ![e].close = 0] /\ UNCHANGED <<err, draining, nextID, st, closing, owed>>
        BY <1>1 DEF ReaderCloses, flags
    <2>2. rd'[f].drained = rd[f].drained
        BY <2>1 DEF TypeOK
    <2> QED
        BY <2>1, <2>2 DEF DrainEndsAt, Leaving, Exhausted, Live
<1>2. CASE WriteControl(e) \/ WriteRequest(e) \/ ForeignFrame(e) \/ IdleCheck(e)
    <2>1. UNCHANGED <<err, draining, nextID, st, closing, owed, rd>>
        BY <1>2 DEF WriteControl, WriteRequest, ForeignFrame, IdleCheck, flags
    <2> QED
        BY <2>1 DEF DrainEndsAt, Leaving, Exhausted, Live
<1>3. CASE WriteCredit(e)
    <2>1. UNCHANGED <<err, draining, nextID, closing, owed, rd>>
        BY <1>3, Zenon DEF WriteCredit, flags
    <2>2. CASE st' = st
        BY <2>1, <2>2 DEF DrainEndsAt, Leaving, Exhausted, Live
    <2>3. CASE st' # st
        <3> DEFINE grant(i) == [st[e][i] EXCEPT !.receiveCredit = @ + st[e][i].creditDue, !.creditDue = 0]
        <3>1. PICK i \in Grantable(e) : SetStream(e, i, grant(i))
            BY <1>3, <2>3, Zenon DEF WriteCredit
        <3>2. i \in Ids /\ st[e][i] \in Stream
            BY DEF Grantable, Live, TypeOK
        <3>3. grant(i).err = st[e][i].err
            BY <3>2 DEF Stream
        <3> HIDE DEF grant
        <3>4. \A g \in Ends, j \in Ids : st'[g][j].err = st[g][j].err
            BY <3>1, <3>2, <3>3, SetStreamElsewhere
        <3>5. Live(f)' = Live(f)
            BY <3>4 DEF Live
        <3> QED
            BY <2>1, <3>5 DEF DrainEndsAt, Leaving, Exhausted
    <2> QED
        BY <2>2, <2>3
<1> QED
    BY <1>1, <1>2, <1>3

(* session.go:179: a draining session whose last stream has ended, in      *)
(* whatever way and on whichever goroutine, is on its way to close.        *)
THEOREM SessionDrainEnds == Spec => []DrainEnds
<1>1. Init => \A f \in Ends : DrainEndsAt(f)
    BY DEF Init, DrainEndsAt
<1>2. TypeOK /\ (\A f \in Ends : DrainEndsAt(f)) /\ [Next]_vars => (\A f \in Ends : DrainEndsAt(f))'
    <2> SUFFICES ASSUME TypeOK, [Next]_vars, NEW f \in Ends, DrainEndsAt(f)
                 PROVE  DrainEndsAt(f)'
        OBVIOUS
    <2>1. CASE OpenExhausted
        BY <2>1 DEF OpenExhausted, TypeOK, DrainEndsAt, Exhausted, Leaving, Live, Ends
    <2>2. CASE Accept \/ UNCHANGED vars
        BY <2>2 DEF Accept, vars, flags, DrainEndsAt, Exhausted, Leaving, Live
    <2>3. ASSUME NEW e \in Ends, Failing(e)
          PROVE  DrainEndsAt(f)'
        BY <2>3, FailingFails, FailLeaves
    <2>4. ASSUME NEW e \in Ends, NEW i \in Ids, NEW n \in 1..MaxBytes[e], Write(e, i, n)
          PROVE  DrainEndsAt(f)'
        <3>1. n \in Nat
            BY SessionAssumption
        <3> QED
            BY <2>4, <3>1, StreamStepLeaves
    <2> QED
        BY <2>1, <2>2, <2>3, <2>4, StreamStepLeaves, DrainLeaves, OpenLeaves, RecvLeaves, RecvOpenLeaves, WriterLeaves
        DEF Next, Business, Reader, Writer, Failing, Ended
<1>3. (\A f \in Ends : DrainEndsAt(f)) => DrainEnds
    BY DEF DrainEndsAt, DrainEnds, Leaving, Exhausted
<1> QED
    BY <1>1, <1>2, <1>3, SessionTypeCorrect, PTL DEF Spec
-----------------------------------------------------------------------------
(***************************************************************************)
(* A session whose two ends both run this code: neither breaks the other's *)
(* rules, credit is conserved and EOF comes after the data, for every size *)
(* of window, buffer and queue and every number of streams.                *)
(***************************************************************************)

-----------------------------------------------------------------------------
(* Sums.  Total is defined by recursion; what it computes follows from the *)
(* least counterexample.                                                   *)

LEMMA LeastNumber ==
    ASSUME NEW S \in SUBSET Nat, S # {}
    PROVE  \E m \in S : \A k \in S : m <= k
<1> DEFINE Below == {p \in Nat \X Nat : p[1] < p[2]}
<1>1. IsWellFoundedOn(Below, Nat)
    BY NatLessThanWellFounded DEF OpToRel
<1>2. PICK m \in S : \A k \in S : <<k, m>> \notin Below
    BY <1>1, WFMin
<1>3. \A k \in S : ~ (k < m)
    BY <1>2
<1> QED
    BY <1>2, <1>3

IsSum(f, w, n) == f = [k \in 0..n |-> IF k = 0 THEN 0 ELSE f[k - 1] + w[k]]

LEMMA SumUnique ==
    ASSUME NEW w, NEW n \in Nat, NEW m \in Nat, NEW f, NEW g, IsSum(f, w, n), IsSum(g, w, m),
           NEW k \in 0..n, k <= m
    PROVE  f[k] = g[k]
<1> DEFINE S == {j \in 0..n : j <= m /\ f[j] # g[j]}
<1> SUFFICES ASSUME f[k] # g[k] PROVE FALSE
    OBVIOUS
<1>1. k \in S /\ S \in SUBSET Nat
    OBVIOUS
<1>2. PICK j \in S : \A l \in S : j <= l
    <2> HIDE DEF S
    <2> QED
        BY <1>1, LeastNumber
<1>3. j \in 0..n /\ j <= m /\ f[j] # g[j]
    BY <1>2
<1>4. f[j] = (IF j = 0 THEN 0 ELSE f[j - 1] + w[j]) /\ g[j] = IF j = 0 THEN 0 ELSE g[j - 1] + w[j]
    <2>1. j \in 0..m
        BY <1>3
    <2> QED
        BY <1>3, <2>1 DEF IsSum
<1>5. j # 0
    BY <1>3, <1>4
<1>6. j - 1 \in 0..n /\ j - 1 <= m /\ ~ (j <= j - 1)
    BY <1>3, <1>5
<1>7. j - 1 \notin S
    BY <1>2, <1>6
<1>8. f[j - 1] = g[j - 1]
    BY <1>6, <1>7
<1> QED
    BY <1>3, <1>4, <1>5, <1>8

LEMMA SumExists ==
    ASSUME NEW w, NEW n \in Nat
    PROVE  \E f : IsSum(f, w, n)
<1> DEFINE S == {m \in Nat : ~ \E f : IsSum(f, w, m)}
<1> SUFFICES ASSUME n \in S PROVE FALSE
    OBVIOUS
<1>1. S \in SUBSET Nat /\ S # {}
    OBVIOUS
<1>2. PICK m \in S : \A l \in S : m <= l
    <2> HIDE DEF S
    <2> QED
        BY <1>1, LeastNumber
<1>3. m \in Nat /\ \A f : ~IsSum(f, w, m)
    BY <1>2
<1>4. m # 0
    <2>1. IsSum([k \in 0..0 |-> 0], w, 0)
        BY DEF IsSum
    <2> QED
        BY <1>3, <2>1
<1>5. m - 1 \in Nat /\ ~ (m <= m - 1)
    BY <1>3, <1>4
<1>6. PICK f : IsSum(f, w, m - 1)
    BY <1>2, <1>5
<1> DEFINE g == [k \in 0..m |-> IF k = m THEN f[m - 1] + w[m] ELSE f[k]]
<1>7. IsSum(g, w, m)
    <2> SUFFICES ASSUME NEW k \in 0..m
                 PROVE  g[k] = IF k = 0 THEN 0 ELSE g[k - 1] + w[k]
        BY DEF IsSum
    <2>1. CASE k = m
        <3>1. g[k] = f[m - 1] + w[m] /\ g[k - 1] = f[m - 1] /\ k # 0
            BY <1>3, <1>4, <1>5, <2>1
        <3> QED
            BY <2>1, <3>1
    <2>2. CASE k # m
        <3>1. k \in 0..(m - 1)
            BY <1>3, <2>2
        <3>2. f[k] = IF k = 0 THEN 0 ELSE f[k - 1] + w[k]
            BY <1>6, <3>1 DEF IsSum
        <3>3. g[k] = f[k] /\ (k # 0 => g[k - 1] = f[k - 1])
            BY <1>3, <2>2, <3>1
        <3> QED
            BY <3>2, <3>3
    <2> QED
        BY <2>1, <2>2
<1> QED
    BY <1>3, <1>7

(* The recursion equations of Total.                                       *)
LEMMA TotalStep ==
    ASSUME NEW w, NEW n \in Nat
    PROVE  Total(w, 0) = 0 /\ Total(w, n + 1) = Total(w, n) + w[n + 1]
<1> DEFINE sum(m) == CHOOSE f : f = [k \in 0..m |-> IF k = 0 THEN 0 ELSE f[k - 1] + w[k]]
<1>1. \A m \in Nat : Total(w, m) = sum(m)[m]
    BY DEF Total
<1>2. ASSUME NEW m \in Nat PROVE IsSum(sum(m), w, m)
    BY SumExists, Zenon DEF IsSum
<1> HIDE DEF sum
<1>3. sum(0)[0] = 0
    BY <1>2 DEF IsSum
<1>4. sum(n + 1)[n + 1] = sum(n + 1)[n] + w[n + 1]
    <2>1. IsSum(sum(n + 1), w, n + 1) /\ n + 1 \in 0..(n + 1) /\ n + 1 # 0 /\ (n + 1) - 1 = n
        BY <1>2
    <2> QED
        BY <2>1 DEF IsSum
<1>5. sum(n + 1)[n] = sum(n)[n]
    <2>1. IsSum(sum(n), w, n) /\ IsSum(sum(n + 1), w, n + 1)
        BY <1>2
    <2> QED
        BY <2>1, SumUnique
<1> QED
    BY <1>1, <1>3, <1>4, <1>5

(* Induction over a set of numbers.                                        *)
LEMMA UpTo ==
    ASSUME NEW n \in Nat, NEW S, 0 \in S, \A k \in Nat : k < n /\ k \in S => k + 1 \in S
    PROVE  n \in S
<1> DEFINE R == {k \in 0..n : k \notin S}
<1> SUFFICES ASSUME n \notin S PROVE FALSE
    OBVIOUS
<1>1. n \in R /\ R \in SUBSET Nat
    OBVIOUS
<1>2. PICK m \in R : \A k \in R : m <= k
    <2> HIDE DEF R
    <2> QED
        BY <1>1, LeastNumber
<1>3. m \in 0..n /\ m \notin S
    BY <1>2
<1>4. m # 0
    BY <1>3
<1>5. m - 1 \in Nat /\ m - 1 < n /\ m - 1 \in 0..n /\ ~(m <= m - 1) /\ (m - 1) + 1 = m
    BY <1>3, <1>4
<1>6. m - 1 \in S
    BY <1>2, <1>5
<1> QED
    BY <1>3, <1>5, <1>6

LEMMA TotalType ==
    ASSUME NEW n \in Nat, NEW w, \A k \in 1..n : w[k] \in Nat
    PROVE  Total(w, n) \in Nat
<1> DEFINE S == {k \in Nat : Total(w, k) \in Nat}
<1>1. 0 \in S
    BY TotalStep
<1>2. ASSUME NEW k \in Nat, k < n, k \in S PROVE k + 1 \in S
    <2>1. Total(w, k + 1) = Total(w, k) + w[k + 1] /\ k + 1 \in 1..n
        BY <1>2, TotalStep
    <2>2. w[k + 1] \in Nat /\ Total(w, k) \in Nat
        BY <1>2, <2>1
    <2> QED
        BY <2>1, <2>2
<1>3. n \in S
    <2> HIDE DEF S
    <2> QED
        BY <1>1, <1>2, UpTo
<1> QED
    BY <1>3

LEMMA TotalSame ==
    ASSUME NEW n \in Nat, NEW w, NEW v, \A k \in 1..n : w[k] = v[k]
    PROVE  Total(w, n) = Total(v, n)
<1> DEFINE S == {k \in Nat : Total(w, k) = Total(v, k)}
<1>1. 0 \in S
    BY TotalStep
<1>2. ASSUME NEW k \in Nat, k < n, k \in S PROVE k + 1 \in S
    <2>1. Total(w, k + 1) = Total(w, k) + w[k + 1] /\ Total(v, k + 1) = Total(v, k) + v[k + 1] /\ k + 1 \in 1..n
        BY <1>2, TotalStep
    <2> QED
        BY <1>2, <2>1
<1>3. n \in S
    <2> HIDE DEF S
    <2> QED
        BY <1>1, <1>2, UpTo
<1> QED
    BY <1>3

(* The first summand taken off.                                            *)
LEMMA TotalFirst ==
    ASSUME NEW n \in Nat, NEW w, NEW v, \A k \in 1..n : w[k + 1] = v[k] /\ v[k] \in Nat, w[1] \in Nat
    PROVE  Total(w, n + 1) = w[1] + Total(v, n)
<1> DEFINE S == {k \in Nat : Total(w, k + 1) = w[1] + Total(v, k) /\ Total(v, k) \in Nat}
<1>1. 0 \in S
    <2>1. Total(w, 0) = 0 /\ Total(w, 0 + 1) = Total(w, 0) + w[0 + 1] /\ Total(v, 0) = 0
        BY TotalStep
    <2> QED
        BY <2>1
<1>2. ASSUME NEW k \in Nat, k < n, k \in S PROVE k + 1 \in S
    <2>1. Total(w, (k + 1) + 1) = Total(w, k + 1) + w[(k + 1) + 1] /\ Total(v, k + 1) = Total(v, k) + v[k + 1]
          /\ k + 1 \in 1..n
        BY <1>2, TotalStep
    <2>2. w[(k + 1) + 1] = v[k + 1] /\ v[k + 1] \in Nat
        BY <2>1
    <2> QED
        BY <1>2, <2>1, <2>2
<1>3. n \in S
    <2> HIDE DEF S
    <2> QED
        BY <1>1, <1>2, UpTo
<1> QED
    BY <1>3

-----------------------------------------------------------------------------
(* The bytes of a queue of frames.                                         *)

Weight(f, t, i) == IF f.type = t /\ f.id = i THEN f.n ELSE 0

Weights(q, t, i) == [k \in DOMAIN q |-> Weight(q[k], t, i)]

LEMMA BytesWeights ==
    ASSUME NEW q, NEW t, NEW i
    PROVE  Bytes(q, t, i) = Total(Weights(q, t, i), Len(q))
BY DEF Bytes, Weights, Weight

LEMMA WeightType == ASSUME NEW f \in Frames, NEW t, NEW i PROVE Weight(f, t, i) \in Nat
BY DEF Weight, Frames

LEMMA BytesType ==
    ASSUME NEW q \in Seq(Frames), NEW t, NEW i
    PROVE  Bytes(q, t, i) \in Nat
<1>1. \A k \in 1..Len(q) : Weights(q, t, i)[k] \in Nat
    BY WeightType DEF Weights
<1> QED
    BY <1>1, BytesWeights, TotalType

LEMMA BytesEmpty == ASSUME NEW t, NEW i PROVE Bytes(<<>>, t, i) = 0
BY BytesWeights, TotalStep

LEMMA BytesAppend ==
    ASSUME NEW q \in Seq(Frames), NEW f \in Frames, NEW t, NEW i
    PROVE  Bytes(Append(q, f), t, i) = Bytes(q, t, i) + Weight(f, t, i)
<1> DEFINE a == Append(q, f)
<1>1. Len(q) \in Nat /\ Len(a) = Len(q) + 1 /\ DOMAIN a = 1..(Len(q) + 1) /\ a[Len(q) + 1] = f
      /\ \A k \in 1..Len(q) : a[k] = q[k] /\ k \in DOMAIN q /\ k \in DOMAIN a
    OBVIOUS
<1> HIDE DEF a
<1>2. \A k \in 1..Len(q) : Weights(a, t, i)[k] = Weights(q, t, i)[k]
    BY <1>1 DEF Weights
<1>3. Weights(a, t, i)[Len(q) + 1] = Weight(f, t, i)
    BY <1>1 DEF Weights
<1>4. Total(Weights(a, t, i), Len(q) + 1) = Total(Weights(a, t, i), Len(q)) + Weights(a, t, i)[Len(q) + 1]
    BY <1>1, TotalStep
<1>5. Total(Weights(a, t, i), Len(q)) = Total(Weights(q, t, i), Len(q))
    BY <1>1, <1>2, TotalSame
<1>6. Bytes(a, t, i) = Total(Weights(a, t, i), Len(q) + 1)
    BY <1>1, BytesWeights
<1> QED
    BY <1>3, <1>4, <1>5, <1>6, BytesWeights DEF a

LEMMA BytesTail ==
    ASSUME NEW q \in Seq(Frames), q # <<>>, NEW t, NEW i
    PROVE  Bytes(q, t, i) = Weight(Head(q), t, i) + Bytes(Tail(q), t, i)
<1> DEFINE r == Tail(q)
<1>1. r \in Seq(Frames) /\ Len(q) = Len(r) + 1 /\ Len(r) \in Nat
      /\ q[1] = Head(q) /\ 1 \in DOMAIN q /\ q[1] \in Frames
      /\ \A k \in 1..Len(r) : q[k + 1] = r[k] /\ r[k] \in Frames /\ k + 1 \in DOMAIN q /\ k \in DOMAIN r
    OBVIOUS
<1> HIDE DEF r
<1>2. \A k \in 1..Len(r) : Weights(q, t, i)[k + 1] = Weights(r, t, i)[k] /\ Weights(r, t, i)[k] \in Nat
    BY <1>1, WeightType DEF Weights
<1>3. Weights(q, t, i)[1] = Weight(Head(q), t, i) /\ Weights(q, t, i)[1] \in Nat
    BY <1>1, WeightType DEF Weights
<1>4. Total(Weights(q, t, i), Len(r) + 1) = Weights(q, t, i)[1] + Total(Weights(r, t, i), Len(r))
    BY <1>1, <1>2, <1>3, TotalFirst
<1> QED
    BY <1>1, <1>3, <1>4, BytesWeights DEF r

-----------------------------------------------------------------------------
LEMMA StreamFields ==
    ASSUME TypeOK, NEW e \in Ends, NEW i \in Ids
    PROVE  /\ st[e][i] \in Stream
           /\ st[e][i].buffered \in Nat /\ st[e][i].receiveCredit \in Nat /\ st[e][i].creditDue \in Nat
           /\ st[e][i].sendCredit \in Nat /\ st[e][i].remoteWindow \in Nat
<1>1. st[e][i] \in Stream
    BY DEF TypeOK
<1> QED
    BY <1>1 DEF Stream

(* A stream that is not live holds nothing.                                *)
UnreadLive == \A e \in Ends, i \in Ids : st[e][i].err # "live" => st[e][i].buffered = 0

LEMMA TimesNext == ASSUME NEW a \in Nat, NEW b \in Nat PROVE a * (b + 1) = a * b + a /\ a * b \in Nat /\ a * 0 = 0
OBVIOUS

LEMMA TimesMonotone == ASSUME NEW a \in Nat, NEW b \in Nat, NEW c \in Nat, b <= c PROVE b * a <= c * a
OBVIOUS

(* What fits the buffer of a stream fits the session, which has room for   *)
(* the buffers of as many streams as there are slots.                      *)
LEMMA SessionFits ==
    ASSUME TypeOK, WindowAccounted, SlotsBounded, UnreadLive, NEW e \in Ends, NEW i \in Live(e), NEW n \in Nat,
           st[e][i].buffered + n <= StreamBuffer[e]
    PROVE  SessionBuffered(e) + n <= SessionBuffer[e]
<1> DEFINE w == [k \in Ids |-> st[e][k].buffered]
<1> DEFINE more(k) == IF i <= k THEN n ELSE 0
<1> DEFINE upto(k) == Live(e) \cap (1..k)
<1> DEFINE B == StreamBuffer[e]
<1> DEFINE S == {k \in Nat : Total(w, k) \in Nat /\ Total(w, k) + more(k) <= B * Cardinality(upto(k))}
<1>1. B \in Nat /\ MaxId \in Nat /\ i \in 1..MaxId /\ st[e][i].err = "live"
    BY SessionAssumption DEF Live, Ids
<1>2. \A k \in 1..MaxId : w[k] \in Nat /\ w[k] <= B /\ (k \notin Live(e) => w[k] = 0) /\ w[k] = st[e][k].buffered
    <2> SUFFICES ASSUME NEW k \in 1..MaxId
                 PROVE  w[k] \in Nat /\ w[k] <= B /\ (k \notin Live(e) => w[k] = 0) /\ w[k] = st[e][k].buffered
        OBVIOUS
    <2>1. k \in Ids /\ w[k] = st[e][k].buffered
        BY DEF Ids
    <2>2. st[e][k].buffered \in Nat /\ st[e][k].receiveCredit \in Nat /\ st[e][k].creditDue \in Nat
        BY <2>1, StreamFields
    <2>3. CASE st[e][k].err = "live"
        <3>1. st[e][k].receiveCredit + st[e][k].buffered + st[e][k].creditDue = B
            BY <2>1, <2>3 DEF WindowAccounted
        <3>2. k \in Live(e)
            BY <2>1, <2>3 DEF Live
        <3> QED
            BY <2>1, <2>2, <3>1, <3>2
    <2>4. CASE st[e][k].err # "live"
        BY <1>1, <2>1, <2>2, <2>4 DEF UnreadLive
    <2> QED
        BY <2>3, <2>4
<1> HIDE DEF w
<1>3. \A k \in Nat : IsFiniteSet(upto(k)) /\ Cardinality(upto(k)) \in Nat
    <2> SUFFICES ASSUME NEW k \in Nat PROVE IsFiniteSet(upto(k)) /\ Cardinality(upto(k)) \in Nat
        OBVIOUS
    <2>1. upto(k) \subseteq Live(e)
        OBVIOUS
    <2> QED
        BY <2>1, LiveFinite, FS_Subset, FS_CardinalityType
<1>4. 0 \in S
    <2>1. Total(w, 0) = 0
        BY TotalStep
    <2>2. upto(0) = {} /\ more(0) = 0
        BY <1>1
    <2>3. Cardinality(upto(0)) = 0
        BY <2>2, FS_EmptySet
    <2> HIDE DEF upto, more, B
    <2>4. B * Cardinality(upto(0)) = 0
        BY <1>1, <2>3, TimesNext
    <2> QED
        BY <2>1, <2>2, <2>4
<1>5. ASSUME NEW k \in Nat, k < MaxId, k \in S PROVE k + 1 \in S
    <2> DEFINE c == Cardinality(upto(k))
    <2>1. c \in Nat /\ k + 1 \in 1..MaxId /\ k + 1 \in Nat
        <3> HIDE DEF upto, S
        <3> QED
            BY <1>1, <1>3, <1>5
    <2>2. Total(w, k + 1) = Total(w, k) + w[k + 1]
        BY TotalStep
    <2>3. Total(w, k) \in Nat /\ Total(w, k) + more(k) <= B * c
        BY <1>5
    <2>4. CASE k + 1 \in Live(e)
        <3>1. upto(k + 1) = upto(k) \cup {k + 1} /\ k + 1 \notin upto(k)
            BY <2>1, <2>4
        <3>2. Cardinality(upto(k + 1)) = c + 1
            <4> HIDE DEF upto
            <4> QED
                BY <1>3, <3>1, FS_AddElement
        <3>3. w[k + 1] + more(k + 1) <= B + more(k)
            <4>1. CASE i = k + 1
                <5>1. w[k + 1] = st[e][i].buffered /\ w[k + 1] \in Nat /\ more(k + 1) = n /\ more(k) = 0
                    BY <1>1, <1>2, <2>1, <4>1
                <5> QED
                    BY <1>1, <5>1
            <4>2. CASE i # k + 1
                <5>1. more(k + 1) = more(k) /\ w[k + 1] <= B /\ w[k + 1] \in Nat /\ more(k) \in Nat
                    BY <1>1, <1>2, <2>1, <4>2
                <5> HIDE DEF more
                <5> QED
                    BY <1>1, <5>1
            <4> QED
                BY <4>1, <4>2
        <3>4. w[k + 1] \in Nat /\ more(k) \in Nat /\ more(k + 1) \in Nat
            BY <1>2, <2>1
        <3> HIDE DEF c, more, B, upto
        <3>5. B * Cardinality(upto(k + 1)) = B * c + B /\ B * c \in Nat
            BY <1>1, <2>1, <3>2, TimesNext
        <3>6. Total(w, k + 1) \in Nat
            BY <2>2, <2>3, <3>4
        <3>7. Total(w, k + 1) + more(k + 1) <= B * c + B
            BY <1>1, <2>2, <2>3, <3>3, <3>4, <3>5
        <3> QED
            BY <2>1, <3>5, <3>6, <3>7
    <2>5. CASE k + 1 \notin Live(e)
        <3>1. upto(k + 1) = upto(k)
            BY <2>1, <2>5
        <3>2. w[k + 1] = 0
            BY <1>2, <2>1, <2>5
        <3>3. more(k + 1) = more(k)
            BY <1>1, <2>1, <2>5
        <3> HIDE DEF more, B, upto
        <3> QED
            BY <2>1, <2>2, <2>3, <3>1, <3>2, <3>3 DEF c
    <2> QED
        BY <2>4, <2>5
<1>6. MaxId \in S
    <2> HIDE DEF S
    <2> QED
        BY <1>1, <1>4, <1>5, UpTo
<1>7. SessionBuffered(e) \in Nat /\ SessionBuffered(e) + n <= B * Cardinality(Live(e))
    <2>1. upto(MaxId) = Live(e) /\ more(MaxId) = n
        BY <1>1 DEF Live, Ids
    <2> QED
        BY <1>6, <2>1 DEF SessionBuffered, w
<1>8. Cardinality(Live(e)) \in Nat /\ Cardinality(Live(e)) <= MaxStreams[e] /\ MaxStreams[e] \in Nat
    BY LiveFinite, SessionAssumption DEF SlotsBounded
<1>9. Cardinality(Live(e)) * B <= MaxStreams[e] * B /\ MaxStreams[e] * B <= SessionBuffer[e] /\ SessionBuffer[e] \in Nat
    BY <1>1, <1>8, TimesMonotone, SessionAssumption
<1>10. B * Cardinality(Live(e)) = Cardinality(Live(e)) * B /\ Cardinality(Live(e)) * B \in Nat /\ MaxStreams[e] * B \in Nat
    BY <1>1, <1>8
<1> HIDE DEF B
<1> QED
    BY <1>1, <1>7, <1>9, <1>10

-----------------------------------------------------------------------------
(* Two ends that both run this code.                                       *)
NoForeign == \A e \in Ends : "foreign" \notin Events[e]

(* A grant for stream i that reached end e would be added to its credit,   *)
(* now or once the OPEN before it has been read.                           *)
Listens(e, i) ==
    \/ st[e][i].err = "live" /\ ~st[e][i].remoteEOF
    \/ st[e][i].err = "new" /\ (e = "server" => i > lastRemoteID)

(* What e may still put on the wire for stream i, or has there.            *)
Owing(e, i) == st[e][i].sendCredit + Reserved(e, i) + Outgoing(e, "DATA", i)

Granting(e, i) == Outgoing(e, "CREDIT", i)

Grants(e, i) == {wire[e][k].n : k \in {m \in DOMAIN wire[e] : wire[e][m].type = "CREDIT" /\ wire[e][m].id = i}}

(* What e owes its peer on stream i never exceeds what the peer will take, *)
(* and the first grant is the peer's whole buffer.                         *)
Covered(e, i) == Owing(e, i) + Granting(Peer(e), i) <= st[Peer(e)][i].receiveCredit

Credit(e, i) == st[Peer(e)][i].receiveCredit <= StreamBuffer[Peer(e)]

WindowFixed(e, i) ==
    /\ st[e][i].remoteWindow \in {0, StreamBuffer[Peer(e)]}
    /\ st[e][i].remoteWindow = 0 => st[e][i].sendCredit = 0

FirstGrant(e, i) ==
    Listens(e, i) /\ st[e][i].remoteWindow = 0 =>
        /\ Owing(e, i) = 0 /\ st[Peer(e)][i].buffered = 0
        /\ Grants(Peer(e), i) \subseteq {StreamBuffer[Peer(e)]}
        /\ st[Peer(e)][i].err = "live" => st[Peer(e)][i].creditDue \in {0, StreamBuffer[Peer(e)]}

Balanced(e, i) ==
    Listens(e, i) /\ st[Peer(e)][i].err = "live" =>
        Owing(e, i) + Granting(Peer(e), i) = st[Peer(e)][i].receiveCredit

Ledger(e, i) == Covered(e, i) /\ Credit(e, i) /\ WindowFixed(e, i) /\ FirstGrant(e, i) /\ Balanced(e, i)

LedgerInv == \A e \in Ends, i \in Ids : Ledger(e, i)

(* A step that takes and grants no credit of stream j at end f: it may     *)
(* open the stream, end it, or drop what nobody waits for any more.        *)
SendCalm(f, j) ==
    /\ Owing(f, j)' <= Owing(f, j)
    /\ Listens(f, j)' => Listens(f, j)
    /\ Listens(f, j)' /\ st'[Peer(f)][j].err = "live" => Owing(f, j)' = Owing(f, j)
    /\ st'[f][j].remoteWindow = st[f][j].remoteWindow
    /\ st'[f][j].sendCredit <= st[f][j].sendCredit

ReceiveCalm(f, j) ==
    LET s == st[f][j]
        t == st'[f][j]
    IN  /\ Granting(f, j)' <= Granting(f, j)
        /\ Listens(Peer(f), j)' /\ t.err = "live" => Granting(f, j)' = Granting(f, j)
        /\ Grants(f, j)' \subseteq Grants(f, j)
        /\ t.receiveCredit = s.receiveCredit
        /\ t.buffered <= s.buffered
        /\ t.err = "live" =>
              \/ s.err = "live" /\ (t.creditDue = s.creditDue \/ s.buffered > 0)
              \/ s.receiveCredit = 0 /\ t.creditDue = StreamBuffer[f]

Calm(f, j) == SendCalm(f, j) /\ ReceiveCalm(f, j)

LEMMA PeerEnds == \A e \in Ends : Peer(e) \in Ends /\ Peer(e) # e /\ Peer(Peer(e)) = e
BY DEF Peer, Ends

LEMMA OwingType ==
    ASSUME TypeOK, NEW e \in Ends, NEW i \in Ids
    PROVE  /\ Owing(e, i) \in Nat /\ Granting(e, i) \in Nat /\ Reserved(e, i) \in Nat
           /\ \A t : Outgoing(e, t, i) \in Nat /\ Bytes(writes[e], t, i) \in Nat /\ Bytes(wire[e], t, i) \in Nat
<1>1. \A t : Bytes(writes[e], t, i) \in Nat /\ Bytes(wire[e], t, i) \in Nat
    <2>1. writes[e] \in Seq(Frames) /\ wire[e] \in Seq(Frames)
        BY DEF TypeOK
    <2> QED
        BY <2>1, BytesType
<1>2. \A t : Outgoing(e, t, i) \in Nat
    BY <1>1 DEF Outgoing
<1>3. Reserved(e, i) \in Nat
    <2>1. snd[e][i] \in Request
        BY DEF TypeOK
    <2> QED
        BY <2>1 DEF Reserved, Request
<1> QED
    BY <1>1, <1>2, <1>3, StreamFields DEF Owing, Granting

(* The same of the next state.                                             *)
LEMMA OwingTypeNext ==
    ASSUME TypeOK', NEW e \in Ends, NEW i \in Ids
    PROVE  /\ Owing(e, i)' \in Nat /\ Granting(e, i)' \in Nat /\ Reserved(e, i)' \in Nat
           /\ st'[e][i].buffered \in Nat /\ st'[e][i].receiveCredit \in Nat /\ st'[e][i].creditDue \in Nat
           /\ st'[e][i].sendCredit \in Nat /\ st'[e][i].remoteWindow \in Nat
<1>1. \A t : Bytes(writes'[e], t, i) \in Nat /\ Bytes(wire'[e], t, i) \in Nat
    <2>1. writes'[e] \in Seq(Frames) /\ wire'[e] \in Seq(Frames)
        BY DEF TypeOK
    <2> QED
        BY <2>1, BytesType
<1>2. \A t : Outgoing(e, t, i)' \in Nat
    BY <1>1 DEF Outgoing
<1>3. Reserved(e, i)' \in Nat
    <2>1. snd'[e][i] \in Request
        BY DEF TypeOK
    <2> QED
        BY <2>1 DEF Reserved, Request
<1>4. /\ st'[e][i].buffered \in Nat /\ st'[e][i].receiveCredit \in Nat /\ st'[e][i].creditDue \in Nat
      /\ st'[e][i].sendCredit \in Nat /\ st'[e][i].remoteWindow \in Nat
    <2>1. st'[e][i] \in Stream
        BY DEF TypeOK
    <2> QED
        BY <2>1 DEF Stream
<1> QED
    BY <1>1, <1>2, <1>3, <1>4 DEF Owing, Granting

LEMMA CalmLedger ==
    ASSUME TypeOK, TypeOK', NEW e \in Ends, NEW i \in Ids, Ledger(e, i), SendCalm(e, i), ReceiveCalm(Peer(e), i)
    PROVE  Ledger(e, i)'
<1> DEFINE p == Peer(e)
<1>1. p \in Ends /\ Peer(p) = e
    BY PeerEnds
<1> HIDE DEF p
<1> USE DEF p
<1>2. /\ Owing(e, i) \in Nat /\ Granting(p, i) \in Nat /\ Owing(e, i)' \in Nat /\ Granting(p, i)' \in Nat
    <2>1. Owing(e, i) \in Nat /\ Granting(p, i) \in Nat
        BY <1>1, OwingType
    <2>2. Owing(e, i)' \in Nat /\ Granting(p, i)' \in Nat
        BY <1>1, OwingTypeNext
    <2> QED
        BY <2>1, <2>2
<1>3. /\ st[e][i].remoteWindow \in Nat /\ st[e][i].sendCredit \in Nat /\ st[p][i].receiveCredit \in Nat
      /\ st'[e][i].sendCredit \in Nat /\ st[p][i].buffered \in Nat /\ st'[p][i].buffered \in Nat
      /\ st'[p][i].receiveCredit \in Nat
    <2>1. st[e][i].remoteWindow \in Nat /\ st[e][i].sendCredit \in Nat /\ st[p][i].receiveCredit \in Nat /\ st[p][i].buffered \in Nat
        BY <1>1, StreamFields
    <2>2. st'[e][i].sendCredit \in Nat /\ st'[p][i].buffered \in Nat /\ st'[p][i].receiveCredit \in Nat
        BY <1>1, OwingTypeNext
    <2> QED
        BY <2>1, <2>2
<1>4. Covered(e, i)'
    BY <1>1, <1>2, <1>3 DEF Ledger, Covered, SendCalm, ReceiveCalm
<1>5. Credit(e, i)' /\ WindowFixed(e, i)'
    BY <1>1, <1>3 DEF Ledger, Credit, WindowFixed, SendCalm, ReceiveCalm
<1>6. FirstGrant(e, i)'
    <2> SUFFICES ASSUME Listens(e, i)', st'[e][i].remoteWindow = 0
                 PROVE  /\ Owing(e, i)' = 0 /\ st'[p][i].buffered = 0
                        /\ Grants(p, i)' \subseteq {StreamBuffer[p]}
                        /\ st'[p][i].err = "live" => st'[p][i].creditDue \in {0, StreamBuffer[p]}
        BY DEF FirstGrant
    <2>1. /\ Owing(e, i) = 0 /\ st[p][i].buffered = 0
          /\ Grants(p, i) \subseteq {StreamBuffer[p]}
          /\ st[p][i].err = "live" => st[p][i].creditDue \in {0, StreamBuffer[p]}
        BY DEF SendCalm, ReceiveCalm, Ledger, FirstGrant
    <2> QED
        BY <1>1, <1>2, <1>3, <2>1 DEF SendCalm, ReceiveCalm
<1>7. Balanced(e, i)'
    <2> SUFFICES ASSUME Listens(e, i)', st'[p][i].err = "live"
                 PROVE  Owing(e, i)' + Granting(p, i)' = st'[p][i].receiveCredit
        BY DEF Balanced
    <2>1. Listens(e, i) /\ Owing(e, i)' = Owing(e, i) /\ Granting(p, i)' = Granting(p, i)
          /\ st'[p][i].receiveCredit = st[p][i].receiveCredit
        BY <1>1 DEF SendCalm, ReceiveCalm
    <2>2. CASE st[p][i].err = "live"
        BY <2>1, <2>2 DEF Ledger, Balanced
    <2>3. CASE st[p][i].receiveCredit = 0
        BY <1>2, <1>4, <2>1, <2>3 DEF Covered
    <2> QED
        BY <1>1, <2>2, <2>3 DEF SendCalm, ReceiveCalm
<1> QED
    BY <1>4, <1>5, <1>6, <1>7 DEF Ledger

-----------------------------------------------------------------------------
(* What a step on the queues changes in the sums.                          *)

WeightAt(f, e, F, t, j) == IF f = e THEN Weight(F, t, j) ELSE 0

LEMMA AppendElements ==
    ASSUME NEW q \in Seq(Frames), NEW F \in Frames, NEW k \in DOMAIN Append(q, F)
    PROVE  \/ k \in DOMAIN q /\ Append(q, F)[k] = q[k]
           \/ k = Len(q) + 1 /\ Append(q, F)[k] = F
<1>1. k \in 1..(Len(q) + 1) /\ Len(q) \in Nat /\ DOMAIN q = 1..Len(q)
    OBVIOUS
<1>2. CASE k = Len(q) + 1
    BY <1>1, <1>2
<1>3. CASE k # Len(q) + 1
    <2>1. k \in 1..Len(q)
        BY <1>1, <1>3
    <2> QED
        BY <1>1, <2>1
<1> QED
    BY <1>2, <1>3

LEMMA TailElements ==
    ASSUME NEW q \in Seq(Frames), q # <<>>, NEW k \in DOMAIN Tail(q)
    PROVE  k \in Nat \ {0} /\ k + 1 \in DOMAIN q /\ Tail(q)[k] = q[k + 1]
<1>1. Len(q) \in Nat /\ Len(q) > 0 /\ Len(Tail(q)) = Len(q) - 1 /\ Tail(q) \in Seq(Frames)
    OBVIOUS
<1>2. k \in 1..(Len(q) - 1)
    BY <1>1
<1>3. k + 1 \in 1..Len(q) /\ k \in Nat \ {0}
    BY <1>1, <1>2
<1>4. Tail(q)[k] = q[k + 1]
    BY <1>1, <1>2
<1> QED
    BY <1>1, <1>3, <1>4

LEMMA WireAppended ==
    ASSUME TypeOK, NEW e \in Ends, NEW F \in Frames, OnWire(e, F)
    PROVE  \A f \in Ends, j \in Ids :
              /\ \A t : Bytes(wire'[f], t, j) = Bytes(wire[f], t, j) + WeightAt(f, e, F, t, j)
              /\ Grants(f, j)' \subseteq Grants(f, j) \union (IF f = e /\ F.type = "CREDIT" /\ F.id = j THEN {F.n} ELSE {})
<1> SUFFICES ASSUME NEW f \in Ends, NEW j \in Ids
             PROVE  /\ \A t : Bytes(wire'[f], t, j) = Bytes(wire[f], t, j) + WeightAt(f, e, F, t, j)
                    /\ Grants(f, j)' \subseteq Grants(f, j) \union (IF f = e /\ F.type = "CREDIT" /\ F.id = j THEN {F.n} ELSE {})
    OBVIOUS
<1>1. wire[f] \in Seq(Frames) /\ wire'[f] = IF f = e THEN Append(wire[f], F) ELSE wire[f]
    BY DEF TypeOK, OnWire
<1>2. \A t : Bytes(wire'[f], t, j) = Bytes(wire[f], t, j) + WeightAt(f, e, F, t, j)
    <2> SUFFICES ASSUME NEW t PROVE Bytes(wire'[f], t, j) = Bytes(wire[f], t, j) + WeightAt(f, e, F, t, j)
        OBVIOUS
    <2>1. CASE f = e
        BY <1>1, <2>1, BytesAppend DEF WeightAt
    <2>2. CASE f # e
        <3>1. Bytes(wire[f], t, j) \in Nat
            BY <1>1, BytesType
        <3> QED
            BY <1>1, <2>2, <3>1 DEF WeightAt
    <2> QED
        BY <2>1, <2>2
<1>3. Grants(f, j)' \subseteq Grants(f, j) \union (IF f = e /\ F.type = "CREDIT" /\ F.id = j THEN {F.n} ELSE {})
    <2> SUFFICES ASSUME NEW k \in DOMAIN wire'[f], wire'[f][k].type = "CREDIT", wire'[f][k].id = j
                 PROVE  wire'[f][k].n \in Grants(f, j) \union (IF f = e /\ F.type = "CREDIT" /\ F.id = j THEN {F.n} ELSE {})
        BY DEF Grants
    <2>1. \/ k \in DOMAIN wire[f] /\ wire'[f][k] = wire[f][k]
          \/ f = e /\ wire'[f][k] = F
        <3>1. CASE f = e
            <4>1. wire'[f] = Append(wire[f], F)
                BY <1>1, <3>1
            <4>2. k \in DOMAIN Append(wire[f], F)
                BY <4>1
            <4> QED
                BY <1>1, <3>1, <4>1, <4>2, AppendElements
        <3>2. CASE f # e
            <4>1. wire'[f] = wire[f]
                BY <1>1, <3>2
            <4> QED
                BY <4>1
        <3> QED
            BY <3>1, <3>2
    <2> QED
        BY <2>1 DEF Grants
<1> QED
    BY <1>2, <1>3

LEMMA WireShortened ==
    ASSUME TypeOK, NEW e \in Ends, wire[e] # <<>>, wire' = [wire EXCEPT ![e] = Tail(@)]
    PROVE  \A f \in Ends, j \in Ids :
              /\ \A t : Bytes(wire[f], t, j) = Bytes(wire'[f], t, j) + WeightAt(f, e, Head(wire[e]), t, j)
              /\ Grants(f, j)' \subseteq Grants(f, j)
<1> SUFFICES ASSUME NEW f \in Ends, NEW j \in Ids
             PROVE  /\ \A t : Bytes(wire[f], t, j) = Bytes(wire'[f], t, j) + WeightAt(f, e, Head(wire[e]), t, j)
                    /\ Grants(f, j)' \subseteq Grants(f, j)
    OBVIOUS
<1>1. wire[f] \in Seq(Frames) /\ wire'[f] = IF f = e THEN Tail(wire[f]) ELSE wire[f]
    BY DEF TypeOK
<1>2. \A t : Bytes(wire[f], t, j) = Bytes(wire'[f], t, j) + WeightAt(f, e, Head(wire[e]), t, j)
    <2> SUFFICES ASSUME NEW t PROVE Bytes(wire[f], t, j) = Bytes(wire'[f], t, j) + WeightAt(f, e, Head(wire[e]), t, j)
        OBVIOUS
    <2>1. CASE f = e
        <3>1. Bytes(wire[f], t, j) = Weight(Head(wire[f]), t, j) + Bytes(Tail(wire[f]), t, j)
            BY <1>1, <2>1, BytesTail
        <3>2. Tail(wire[f]) \in Seq(Frames) /\ Head(wire[f]) \in Frames
            BY <1>1, <2>1
        <3>3. Bytes(Tail(wire[f]), t, j) \in Nat /\ Weight(Head(wire[f]), t, j) \in Nat
            BY <3>2, BytesType, WeightType
        <3> QED
            BY <1>1, <2>1, <3>1, <3>3 DEF WeightAt
    <2>2. CASE f # e
        <3>1. Bytes(wire[f], t, j) \in Nat
            BY <1>1, BytesType
        <3> QED
            BY <1>1, <2>2, <3>1 DEF WeightAt
    <2> QED
        BY <2>1, <2>2
<1>3. Grants(f, j)' \subseteq Grants(f, j)
    <2> SUFFICES ASSUME NEW k \in DOMAIN wire'[f], wire'[f][k].type = "CREDIT", wire'[f][k].id = j
                 PROVE  wire'[f][k].n \in Grants(f, j)
        BY DEF Grants
    <2>1. \E m \in DOMAIN wire[f] : wire'[f][k] = wire[f][m]
        <3>1. CASE f = e
            <4>1. wire'[f] = Tail(wire[f]) /\ wire[f] # <<>>
                BY <1>1, <3>1
            <4>2. k \in DOMAIN Tail(wire[f])
                BY <4>1
            <4>3. k + 1 \in DOMAIN wire[f] /\ wire'[f][k] = wire[f][k + 1]
                BY <1>1, <4>1, <4>2, TailElements
            <4> QED
                BY <4>3
        <3>2. CASE f # e
            <4>1. wire'[f] = wire[f]
                BY <1>1, <3>2
            <4> QED
                BY <4>1
        <3> QED
            BY <3>1, <3>2
    <2> QED
        BY <2>1 DEF Grants
<1> QED
    BY <1>2, <1>3

LEMMA WritesAppended ==
    ASSUME TypeOK, NEW e \in Ends, NEW F \in Frames, writes' = [writes EXCEPT ![e] = Append(@, F)]
    PROVE  \A f \in Ends, j \in Ids : \A t : Bytes(writes'[f], t, j) = Bytes(writes[f], t, j) + WeightAt(f, e, F, t, j)
<1> SUFFICES ASSUME NEW f \in Ends, NEW j \in Ids, NEW t
             PROVE  Bytes(writes'[f], t, j) = Bytes(writes[f], t, j) + WeightAt(f, e, F, t, j)
    OBVIOUS
<1>1. writes[f] \in Seq(Frames) /\ writes'[f] = IF f = e THEN Append(writes[f], F) ELSE writes[f]
    BY DEF TypeOK
<1>2. Bytes(writes[f], t, j) \in Nat
    BY <1>1, BytesType
<1>3. CASE f = e
    BY <1>1, <1>3, BytesAppend DEF WeightAt
<1>4. CASE f # e
    BY <1>1, <1>2, <1>4 DEF WeightAt
<1> QED
    BY <1>3, <1>4

LEMMA WritesShortened ==
    ASSUME TypeOK, NEW e \in Ends, writes[e] # <<>>, writes' = [writes EXCEPT ![e] = Tail(@)]
    PROVE  \A f \in Ends, j \in Ids : \A t : Bytes(writes[f], t, j) = Bytes(writes'[f], t, j) + WeightAt(f, e, Head(writes[e]), t, j)
<1> SUFFICES ASSUME NEW f \in Ends, NEW j \in Ids, NEW t
             PROVE  Bytes(writes[f], t, j) = Bytes(writes'[f], t, j) + WeightAt(f, e, Head(writes[e]), t, j)
    OBVIOUS
<1>1. writes[f] \in Seq(Frames) /\ writes'[f] = IF f = e THEN Tail(writes[f]) ELSE writes[f]
    BY DEF TypeOK
<1>2. Bytes(writes[f], t, j) \in Nat
    BY <1>1, BytesType
<1>3. CASE f = e
    <2>1. Bytes(writes[f], t, j) = Weight(Head(writes[f]), t, j) + Bytes(Tail(writes[f]), t, j)
        BY <1>1, <1>3, BytesTail
    <2>2. Tail(writes[f]) \in Seq(Frames) /\ Head(writes[f]) \in Frames
        BY <1>1, <1>3
    <2>3. Bytes(Tail(writes[f]), t, j) \in Nat /\ Weight(Head(writes[f]), t, j) \in Nat
        BY <2>2, BytesType, WeightType
    <2> QED
        BY <1>1, <1>3, <2>1, <2>3 DEF WeightAt
<1>4. CASE f # e
    BY <1>1, <1>2, <1>4 DEF WeightAt
<1> QED
    BY <1>3, <1>4

(* Nothing of stream j at end f changed but its queues, and of those no     *)
(* frame of its own.                                                       *)
LEMMA CalmElsewhere ==
    ASSUME TypeOK, NEW f \in Ends, NEW j \in Ids, st'[f][j] = st[f][j], Reserved(f, j)' = Reserved(f, j),
           Outgoing(f, "DATA", j)' = Outgoing(f, "DATA", j), Outgoing(f, "CREDIT", j)' = Outgoing(f, "CREDIT", j),
           Grants(f, j)' \subseteq Grants(f, j), lastRemoteID' \in Nat, lastRemoteID' >= lastRemoteID
    PROVE  Calm(f, j)
<1>1. Owing(f, j)' = Owing(f, j) /\ Granting(f, j)' = Granting(f, j)
    BY DEF Owing, Granting
<1>2. Listens(f, j)' => Listens(f, j)
    BY DEF Listens, TypeOK, Ids
<1>3. Owing(f, j) \in Nat /\ Granting(f, j) \in Nat /\ st[f][j].sendCredit \in Nat /\ st[f][j].buffered \in Nat
    BY OwingType, StreamFields
<1> QED
    BY <1>1, <1>2, <1>3 DEF Calm, SendCalm, ReceiveCalm

-----------------------------------------------------------------------------
(* What the frames and requests look like.                                 *)

WriteProper(e, F) ==
    /\ F.type \in {"OPEN", "DATA"}
    /\ F.type = "OPEN" => e = "client"
    /\ F.type = "DATA" => F.n > 0

WireProper(e, F) ==
    /\ F.type # "BAD"
    /\ F.type = "OPEN" => e = "client"
    /\ F.type \in {"DATA", "CREDIT"} => F.n > 0

RequestProper(e, i) ==
    /\ snd[e][i].type = "OPEN" => snd[e][i].n = 0 /\ snd[e][i].left = 0
    /\ snd[e][i].type = "OPEN" /\ snd[e][i].pc # "idle" => e = "client"
    /\ snd[e][i].pc = "credit" => snd[e][i].type = "DATA" /\ snd[e][i].left > 0
    /\ snd[e][i].pc \in {"queue", "wait"} /\ snd[e][i].type = "DATA" => snd[e][i].n > 0
    /\ snd[e][i].pc # "idle" => st[e][i].err # "new" /\ (e = "server" => i \in accepted[e])
    /\ snd[e][i].pc # "wait" => snd[e][i].result = "none"

Proper ==
    /\ \A e \in Ends : \A k \in DOMAIN writes[e] : WriteProper(e, writes[e][k])
    /\ \A e \in Ends : \A k \in DOMAIN wire[e] : WireProper(e, wire[e][k])
    /\ \A e \in Ends, i \in Ids : RequestProper(e, i)

(* The client has given the ID away.                                       *)
Used(i) == nextID = 0 \/ i < nextID

(* Which records are new.                                                  *)
Fresh(e, i) ==
    st[e][i].err = "new" =>
        st[e][i].receiveCredit = 0 /\ st[e][i].sendCredit = 0 /\ st[e][i].remoteWindow = 0 /\ st[e][i].buffered = 0

Untouched ==
    /\ \A i \in Ids : Used(i) <=> st["client"][i].err # "new"
    /\ \A i \in Ids : st["server"][i].err # "new" => i <= lastRemoteID
    /\ \A i \in Ids : i <= lastRemoteID => Used(i)
    /\ \A e \in Ends, i \in Ids : Fresh(e, i)
    /\ \A i \in accepted["server"] : st["server"][i].err # "new"

(* A client grants credit to a stream after its OPEN, which stays on the   *)
(* wire until the server has read it.                                      *)
OpenSent(i) ==
    \/ st["client"][i].announced
    \/ snd["client"][i].pc = "wait" /\ snd["client"][i].type = "OPEN" /\ snd["client"][i].result = "ok"

OnWireBefore(k, i) == \E j \in DOMAIN wire["client"] : j < k /\ wire["client"][j].type = "OPEN" /\ wire["client"][j].id = i

GrantAfterOpen ==
    \A k \in DOMAIN wire["client"] :
        wire["client"][k].type = "CREDIT" /\ wire["client"][k].id > lastRemoteID => OnWireBefore(k, wire["client"][k].id)

OpenOnWire ==
    \A i \in Ids : OpenSent(i) /\ i > lastRemoteID => OnWireBefore(Len(wire["client"]) + 1, i)

(* The request of a live stream is the only one it has in the queue.       *)
Outstanding(e, F) ==
    /\ st[e][F.id].err # "new"
    /\ st[e][F.id].err = "live" =>
          /\ snd[e][F.id].pc = "wait" /\ snd[e][F.id].result = "none"
          /\ snd[e][F.id].type = F.type /\ snd[e][F.id].n = F.n

SendsOne ==
    /\ \A e \in Ends : \A k \in DOMAIN writes[e] : Outstanding(e, writes[e][k])
    /\ \A e \in Ends : \A j, k \in DOMAIN writes[e] :
          writes[e][j].id = writes[e][k].id /\ st[e][writes[e][j].id].err = "live" => j = k

(* OPEN frames leave the client in the order of their IDs.                 *)
OpenFrames(q) == {k \in DOMAIN q : q[k].type = "OPEN"}

Ascending(q) == \A j, k \in OpenFrames(q) : j < k => q[j].id < q[k].id

Below(q, i) == \A k \in OpenFrames(q) : q[k].id < i

Ahead(q) == \A k \in OpenFrames(q) : q[k].id > lastRemoteID /\ Used(q[k].id)

Last(i) == Used(i) /\ \A j \in Ids : Used(j) => j <= i

OpensLast(i) ==
    snd["client"][i].pc # "idle" /\ snd["client"][i].type = "OPEN" =>
        /\ Last(i)
        /\ snd["client"][i].pc = "queue" => i > lastRemoteID /\ Below(wire["client"], i) /\ Below(writes["client"], i)

IdOrder ==
    /\ Ascending(wire["client"]) /\ Ascending(writes["client"])
    /\ \A k \in OpenFrames(writes["client"]) : Below(wire["client"], writes["client"][k].id)
    /\ Ahead(wire["client"]) /\ Ahead(writes["client"])
    /\ \A i \in Ids : OpensLast(i)

(* End e has told its peer that stream i is closed, or is about to.        *)
Told(e, i) ==
    \/ closing[e][i] # "no" \/ rd[e].close = i
    \/ \E k \in DOMAIN controls[e] : controls[e][k] = i
    \/ \E k \in DOMAIN wire[e] : wire[e][k].type = "CLOSE" /\ wire[e][k].id = i
    \/ st[Peer(e)][i].remoteEOF

ToldOnlyWhenDone == \A e \in Ends, i \in Ids : Told(e, i) => ~Listens(e, i)

-----------------------------------------------------------------------------
(* The calm steps.                                                         *)

LEMMA IdsNumbers == TypeOK => lastRemoteID \in Nat /\ \A i \in Ids : i \in Nat
BY SessionAssumption DEF TypeOK, Ids

LEMMA LastSame == ASSUME TypeOK, UNCHANGED lastRemoteID PROVE lastRemoteID' \in Nat /\ lastRemoteID' >= lastRemoteID
BY SessionAssumption DEF TypeOK

LEMMA StillCalm ==
    ASSUME TypeOK, UNCHANGED <<st, snd, writes, wire, lastRemoteID>>, NEW f \in Ends, NEW j \in Ids
    PROVE  Calm(f, j)
<1>1. lastRemoteID \in Nat
    BY SessionAssumption DEF TypeOK
<1>2. lastRemoteID' \in Nat /\ lastRemoteID' >= lastRemoteID
    BY <1>1
<1>3. Reserved(f, j)' = Reserved(f, j) /\ Outgoing(f, "DATA", j)' = Outgoing(f, "DATA", j)
      /\ Outgoing(f, "CREDIT", j)' = Outgoing(f, "CREDIT", j) /\ Grants(f, j)' = Grants(f, j)
    BY DEF Reserved, Outgoing, Grants
<1> QED
    BY <1>2, <1>3, CalmElsewhere

(* A step of one stream that leaves the queues alone.                      *)
LEMMA StreamStepCalm ==
    ASSUME TypeOK, TypeOK', NEW e \in Ends, NEW i \in Ids, UNCHANGED <<writes, wire, lastRemoteID>>,
           \A f \in Ends, j \in Ids : f # e \/ j # i => st'[f][j] = st[f][j] /\ snd'[f][j] = snd[f][j],
           st'[e][i].sendCredit + Reserved(e, i)' <= st[e][i].sendCredit + Reserved(e, i),
           Listens(e, i)' => /\ Listens(e, i)
                             /\ st'[e][i].sendCredit + Reserved(e, i)' = st[e][i].sendCredit + Reserved(e, i),
           st'[e][i].receiveCredit = st[e][i].receiveCredit, st'[e][i].remoteWindow = st[e][i].remoteWindow,
           st'[e][i].sendCredit <= st[e][i].sendCredit, st'[e][i].buffered <= st[e][i].buffered,
           st'[e][i].err = "live" =>
              \/ st[e][i].err = "live" /\ (st'[e][i].creditDue = st[e][i].creditDue \/ st[e][i].buffered > 0)
              \/ st[e][i].receiveCredit = 0 /\ st'[e][i].creditDue = StreamBuffer[e],
           NEW f \in Ends, NEW j \in Ids
    PROVE  Calm(f, j)
<1>1. lastRemoteID' \in Nat /\ lastRemoteID' >= lastRemoteID
    BY SessionAssumption DEF TypeOK
<1>2. Outgoing(f, "DATA", j)' = Outgoing(f, "DATA", j)
      /\ Outgoing(f, "CREDIT", j)' = Outgoing(f, "CREDIT", j) /\ Grants(f, j)' = Grants(f, j)
    BY DEF Outgoing, Grants
<1>3. CASE f # e \/ j # i
    <2>1. Reserved(f, j)' = Reserved(f, j)
        BY <1>3 DEF Reserved
    <2> QED
        BY <1>1, <1>2, <1>3, <2>1, CalmElsewhere
<1>4. CASE f = e /\ j = i
    <2>1. Owing(e, i) \in Nat /\ Granting(e, i) \in Nat /\ st[e][i].sendCredit \in Nat /\ Reserved(e, i) \in Nat
          /\ Outgoing(e, "DATA", i) \in Nat
        BY OwingType, StreamFields
    <2>2. Reserved(e, i)' \in Nat /\ st'[e][i].sendCredit \in Nat
        BY OwingTypeNext
    <2>3. Owing(e, i)' <= Owing(e, i) /\ (Listens(e, i)' => Owing(e, i)' = Owing(e, i))
        BY <1>2, <1>4, <2>1, <2>2 DEF Owing
    <2>4. Granting(e, i)' = Granting(e, i)
        BY <1>2, <1>4 DEF Granting
    <2> QED
        BY <1>2, <1>4, <2>1, <2>3, <2>4 DEF Calm, SendCalm, ReceiveCalm
<1> QED
    BY <1>3, <1>4

SetRequest(e, i, r) == snd' = [snd EXCEPT ![e][i] = r]

LEMMA SndElsewhere ==
    ASSUME TypeOK, NEW e \in Ends, NEW i \in Ids, NEW r, SetRequest(e, i, r)
    PROVE  /\ snd'[e][i] = r
           /\ \A f \in Ends, j \in Ids : f # e \/ j # i => snd'[f][j] = snd[f][j]
BY DEF TypeOK, SetRequest

LEMMA RequestFields ==
    ASSUME TypeOK, NEW e \in Ends, NEW i \in Ids
    PROVE  /\ snd[e][i] \in Request /\ snd[e][i].n \in Nat /\ snd[e][i].left \in Nat
           /\ snd[e][i].pc \in {"idle", "credit", "queue", "wait"} /\ snd[e][i].type \in {"OPEN", "DATA"}
           /\ snd[e][i].result \in {"none", "ok", "err"}
<1>1. snd[e][i] \in Request
    BY DEF TypeOK
<1> QED
    BY <1>1 DEF Request

LEMMA IdleFields == Idle.pc = "idle" /\ Idle.type = "DATA" /\ Idle.n = 0 /\ Idle.left = 0 /\ Idle.result = "none"
BY DEF Idle

LEMMA OpenCalm ==
    ASSUME TypeOK, TypeOK', Proper, Untouched, Open, NEW f \in Ends, NEW j \in Ids
    PROVE  Calm(f, j)
<1> DEFINE e == "client"
<1> DEFINE r == [Idle EXCEPT !.pc = "queue", !.type = "OPEN"]
<1>1. e \in Ends /\ nextID \in Ids
    BY NextIdType
<1> PICK i \in Ids : i = nextID
    BY <1>1
<1>2. /\ SetStream(e, i, Started(e)) /\ SetRequest(e, i, r)
      /\ UNCHANGED <<writes, wire, lastRemoteID>>
    BY DEF Open, queues, SetRequest
<1>3. r.pc = "queue" /\ r.n = 0
    BY DEF Idle
<1>4. st[e][i].err = "new"
    <2>1. ~Used(i)
        BY <1>1 DEF Used, Ids, Open
    <2> QED
        BY <1>1, <2>1 DEF Untouched
<1>5. Fresh(e, i) /\ snd[e][i].pc = "idle"
    BY <1>1, <1>4, RequestFields DEF Untouched, Proper, RequestProper
<1>6. /\ Started(e).err = "live" /\ Started(e).sendCredit = 0 /\ Started(e).receiveCredit = 0
      /\ Started(e).remoteWindow = 0 /\ Started(e).buffered = 0 /\ Started(e).creditDue = StreamBuffer[e]
    BY DEF Started, NoStream
<1> HIDE DEF e, r
<1>7. /\ st'[e][i] = Started(e) /\ snd'[e][i] = r
      /\ \A g \in Ends, k \in Ids : g # e \/ k # i => st'[g][k] = st[g][k] /\ snd'[g][k] = snd[g][k]
    BY <1>1, <1>2, SetStreamElsewhere, SndElsewhere
<1>8. Reserved(e, i) = 0 /\ Reserved(e, i)' = 0
    BY <1>3, <1>5, <1>7 DEF Reserved
<1>9. Listens(e, i)
    BY <1>4 DEF Listens, e
<1> QED
    BY <1>1, <1>2, <1>4, <1>5, <1>6, <1>7, <1>8, <1>9, StreamStepCalm DEF Fresh

LEMMA WriteCalm ==
    ASSUME TypeOK, TypeOK', NEW e \in Ends, NEW i \in Ids, NEW n, Write(e, i, n), NEW f \in Ends, NEW j \in Ids
    PROVE  Calm(f, j)
<1> DEFINE r == [Idle EXCEPT !.pc = "credit", !.left = n]
<1>1. /\ st' = st /\ SetRequest(e, i, r) /\ UNCHANGED <<writes, wire, lastRemoteID>>
      /\ snd[e][i].pc = "idle"
    BY DEF Write, queues, SetRequest
<1>2. r.pc = "credit"
    BY DEF Idle
<1> HIDE DEF r
<1>3. /\ snd'[e][i] = r /\ \A g \in Ends, k \in Ids : g # e \/ k # i => snd'[g][k] = snd[g][k]
    BY <1>1, SndElsewhere
<1>4. Reserved(e, i) = 0 /\ Reserved(e, i)' = 0
    BY <1>1, <1>2, <1>3 DEF Reserved
<1>5. Listens(e, i)' => Listens(e, i)
    BY <1>1 DEF Listens
<1>6. st[e][i].sendCredit \in Nat /\ st[e][i].buffered \in Nat
    BY StreamFields
<1> QED
    BY <1>1, <1>3, <1>4, <1>5, <1>6, StreamStepCalm

(* Credit is reserved before it is sent.                                   *)
LEMMA ReserveCalm ==
    ASSUME TypeOK, TypeOK', NEW e \in Ends, NEW i \in Ids, Reserve(e, i), NEW f \in Ends, NEW j \in Ids
    PROVE  Calm(f, j)
<1> DEFINE c == Chunk(e, i)
<1> DEFINE s == [st[e][i] EXCEPT !.sendCredit = @ - c]
<1> DEFINE r == Part(e, i, c)
<1>1. /\ SetStream(e, i, s) /\ SetRequest(e, i, r) /\ UNCHANGED <<writes, wire, lastRemoteID>>
      /\ snd[e][i].pc = "credit"
    BY DEF Reserve, queues, SetRequest
<1>2. st[e][i] \in Stream /\ st[e][i].sendCredit \in Nat /\ st[e][i].buffered \in Nat
    BY StreamFields
<1>3. snd[e][i] \in Request /\ snd[e][i].left \in Nat
    BY RequestFields
<1>4. c \in Nat /\ c <= st[e][i].sendCredit
    BY <1>2, <1>3 DEF Chunk, Smaller
<1> HIDE DEF c
<1>5. /\ s.sendCredit = st[e][i].sendCredit - c /\ s.receiveCredit = st[e][i].receiveCredit
      /\ s.remoteWindow = st[e][i].remoteWindow /\ s.buffered = st[e][i].buffered /\ s.err = st[e][i].err
      /\ s.creditDue = st[e][i].creditDue /\ s.remoteEOF = st[e][i].remoteEOF
    BY <1>2 DEF Stream
<1>6. r.pc = "queue" /\ r.n = c
    BY <1>3 DEF Part, Request
<1> HIDE DEF s, r
<1>7. /\ st'[e][i] = s /\ snd'[e][i] = r
      /\ \A g \in Ends, k \in Ids : g # e \/ k # i => st'[g][k] = st[g][k] /\ snd'[g][k] = snd[g][k]
    BY <1>1, SetStreamElsewhere, SndElsewhere
<1>8. Reserved(e, i) = 0 /\ Reserved(e, i)' = c
    BY <1>1, <1>6, <1>7 DEF Reserved
<1>9. Listens(e, i)' => Listens(e, i)
    BY <1>1, <1>5, <1>7 DEF Listens
<1>10. s.sendCredit + c = st[e][i].sendCredit + 0 /\ s.sendCredit <= st[e][i].sendCredit
    BY <1>2, <1>4, <1>5
<1> QED
    BY <1>1, <1>2, <1>4, <1>5, <1>7, <1>8, <1>9, <1>10, StreamStepCalm

LEMMA SentCalm ==
    ASSUME TypeOK, TypeOK', NEW e \in Ends, NEW i \in Ids, Sent(e, i), NEW f \in Ends, NEW j \in Ids
    PROVE  Calm(f, j)
<1> DEFINE s == [st[e][i] EXCEPT !.announced = TRUE]
<1> DEFINE r == IF snd[e][i].left > 0 THEN [Idle EXCEPT !.pc = "credit", !.left = snd[e][i].left] ELSE Idle
<1>1. /\ SetStream(e, i, s) \/ st' = st
      /\ SetRequest(e, i, r) /\ UNCHANGED <<writes, wire, lastRemoteID>>
      /\ snd[e][i].pc = "wait"
    <2>1. SetStream(e, i, s) \/ st' = st
        BY Zenon DEF Sent
    <2>2. SetRequest(e, i, r)
        BY Zenon DEF Sent, SetRequest
    <2>3. snd[e][i].pc = "wait" /\ UNCHANGED <<writes, wire, lastRemoteID>>
        BY DEF Sent, queues
    <2> QED
        BY <2>1, <2>2, <2>3
<1>2. st[e][i] \in Stream /\ st[e][i].sendCredit \in Nat /\ st[e][i].buffered \in Nat
    BY StreamFields
<1>3. /\ s.sendCredit = st[e][i].sendCredit /\ s.receiveCredit = st[e][i].receiveCredit
      /\ s.remoteWindow = st[e][i].remoteWindow /\ s.buffered = st[e][i].buffered /\ s.err = st[e][i].err
      /\ s.creditDue = st[e][i].creditDue /\ s.remoteEOF = st[e][i].remoteEOF
    BY <1>2 DEF Stream
<1>4. r.pc # "queue"
    BY DEF Idle
<1> HIDE DEF s, r
<1>5. /\ st'[e][i] = s \/ st'[e][i] = st[e][i]
      /\ snd'[e][i] = r
      /\ \A g \in Ends, k \in Ids : g # e \/ k # i => st'[g][k] = st[g][k] /\ snd'[g][k] = snd[g][k]
    BY <1>1, SetStreamElsewhere, SndElsewhere
<1>6. Reserved(e, i) = 0 /\ Reserved(e, i)' = 0
    BY <1>1, <1>4, <1>5 DEF Reserved
<1>7. Listens(e, i)' => Listens(e, i)
    BY <1>1, <1>3, <1>5 DEF Listens
<1>8. /\ st'[e][i].sendCredit = st[e][i].sendCredit /\ st'[e][i].receiveCredit = st[e][i].receiveCredit
      /\ st'[e][i].remoteWindow = st[e][i].remoteWindow /\ st'[e][i].buffered = st[e][i].buffered
      /\ st'[e][i].err = st[e][i].err /\ st'[e][i].creditDue = st[e][i].creditDue
    BY <1>3, <1>5
<1> QED
    BY <1>1, <1>2, <1>5, <1>6, <1>7, <1>8, StreamStepCalm

(* A stream that ends keeps its counters and is no longer listened to.     *)
LEMMA FinishFields ==
    ASSUME NEW s \in Stream, NEW why \in Finished
    PROVE  LET t == Finish(s, why)
           IN  /\ t \in Stream /\ t.err = why /\ t.err # "live" /\ t.err # "new" /\ t.buffered = 0
               /\ t.sendCredit = s.sendCredit /\ t.receiveCredit = s.receiveCredit
               /\ t.remoteWindow = s.remoteWindow /\ t.creditDue = s.creditDue /\ t.remoteEOF = s.remoteEOF
BY DEF Finish, Finished, Stream

LEMMA CloseStreamEffect ==
    ASSUME TypeOK, NEW e \in Ends, NEW i \in Ids, CloseStream(e, i)
    PROVE  /\ IF st[e][i].err = "live"
              THEN st'[e][i] = Finish(st[e][i], "closed") ELSE st'[e][i] = st[e][i]
           /\ \A f \in Ends, j \in Ids : f # e \/ j # i => st'[f][j] = st[f][j]
<1> DEFINE s == IF st[e][i].err = "live" THEN Finish(st[e][i], "closed") ELSE st[e][i]
<1>1. SetStream(e, i, s)
    BY DEF CloseStream
<1>2. st'[e][i] = s /\ \A f \in Ends, j \in Ids : f # e \/ j # i => st'[f][j] = st[f][j]
    <2> HIDE DEF s
    <2> QED
        BY <1>1, SetStreamElsewhere
<1> QED
    BY <1>2

LEMMA CloseCalm ==
    ASSUME TypeOK, TypeOK', Proper, NEW e \in Ends, NEW i \in Ids, CloseStream(e, i),
           snd' = snd \/ SetRequest(e, i, Idle), snd' = snd \/ snd[e][i].pc # "idle",
           UNCHANGED <<writes, wire, lastRemoteID>>, NEW f \in Ends, NEW j \in Ids
    PROVE  Calm(f, j)
<1>1. st[e][i] \in Stream /\ st[e][i].sendCredit \in Nat /\ st[e][i].buffered \in Nat
    BY StreamFields
<1>2. /\ IF st[e][i].err = "live"
         THEN st'[e][i] = Finish(st[e][i], "closed") ELSE st'[e][i] = st[e][i]
      /\ \A g \in Ends, k \in Ids : g # e \/ k # i => st'[g][k] = st[g][k] /\ snd'[g][k] = snd[g][k]
    BY CloseStreamEffect, SndElsewhere
<1>3. "closed" \in Finished
    BY DEF Finished
<1>4. /\ st'[e][i].sendCredit = st[e][i].sendCredit /\ st'[e][i].receiveCredit = st[e][i].receiveCredit
      /\ st'[e][i].remoteWindow = st[e][i].remoteWindow /\ st'[e][i].buffered <= st[e][i].buffered
      /\ st'[e][i].err # "live" /\ (st'[e][i].err = "new" => st[e][i].err = "new")
    <2>1. CASE st[e][i].err = "live"
        <3>1. st'[e][i] = Finish(st[e][i], "closed")
            BY <1>2, <2>1
        <3> QED
            BY <1>1, <1>3, <3>1, FinishFields
    <2>2. CASE st[e][i].err # "live"
        BY <1>1, <1>2, <2>2
    <2> QED
        BY <2>1, <2>2
<1>5. Reserved(e, i)' <= Reserved(e, i) /\ Reserved(e, i) \in Nat /\ (snd' = snd => Reserved(e, i)' = Reserved(e, i))
    <2>1. Reserved(e, i) \in Nat
        BY OwingType
    <2>2. CASE snd' = snd
        BY <2>1, <2>2 DEF Reserved
    <2>3. CASE SetRequest(e, i, Idle)
        <3>1. snd'[e][i] = Idle
            BY <2>3, SndElsewhere
        <3>2. Reserved(e, i)' = 0
            BY <3>1, IdleFields DEF Reserved
        <3> QED
            BY <2>1, <3>2 DEF Reserved
    <2> QED
        BY <2>2, <2>3
<1>6. Listens(e, i)' => Listens(e, i) /\ snd' = snd
    <2>1. snd[e][i].pc # "idle" => st[e][i].err # "new"
        BY DEF Proper, RequestProper
    <2> QED
        BY <1>4, <2>1 DEF Listens
<1>7. Reserved(e, i)' \in Nat
    BY OwingTypeNext
<1> QED
    BY <1>1, <1>2, <1>4, <1>5, <1>6, <1>7, StreamStepCalm

LEMMA ReadCalm ==
    ASSUME TypeOK, TypeOK', NEW e \in Ends, NEW i \in Ids, Consumer(e, i), NEW f \in Ends, NEW j \in Ids
    PROVE  Calm(f, j)
<1>1. st[e][i] \in Stream /\ st[e][i].sendCredit \in Nat /\ st[e][i].buffered \in Nat
    BY StreamFields
<1>2. ASSUME NEW s, SetStream(e, i, s), UNCHANGED <<snd, writes, wire, lastRemoteID>>,
             s.sendCredit = st[e][i].sendCredit, s.receiveCredit = st[e][i].receiveCredit,
             s.remoteWindow = st[e][i].remoteWindow, s.buffered <= st[e][i].buffered, s.err # "new",
             s.remoteEOF = st[e][i].remoteEOF,
             s.err = "live" => st[e][i].err = "live" /\ st[e][i].buffered > 0
      PROVE  Calm(f, j)
    <2>1. /\ st'[e][i] = s
          /\ \A g \in Ends, k \in Ids : g # e \/ k # i => st'[g][k] = st[g][k] /\ snd'[g][k] = snd[g][k]
        BY <1>2, SetStreamElsewhere
    <2>2. Reserved(e, i)' = Reserved(e, i) /\ Reserved(e, i) \in Nat
        BY <1>2, OwingType DEF Reserved
    <2>3. Listens(e, i)' => Listens(e, i)
        BY <1>2, <2>1 DEF Listens
    <2> QED
        BY <1>1, <1>2, <2>1, <2>2, <2>3, StreamStepCalm
<1>3. CASE ReadEOF(e, i)
    <2>1. SetStream(e, i, Finish(st[e][i], "EOF")) /\ "EOF" \in Finished
        BY <1>3 DEF ReadEOF, AtEOF, Finished
    <2>2. UNCHANGED <<snd, writes, wire, lastRemoteID>>
        BY <1>3 DEF ReadEOF, queues
    <2> QED
        BY <1>1, <1>2, <2>1, <2>2, FinishFields
<1>4. ASSUME NEW n \in 1..StreamBuffer[e], Read(e, i, n) PROVE Calm(f, j)
    <2>1. SetStream(e, i, Taken(e, i, n)) /\ UNCHANGED <<snd, writes, wire, lastRemoteID>>
          /\ st[e][i].err = "live" /\ n \in Nat /\ n > 0 /\ n <= st[e][i].buffered
        BY <1>1, <1>4 DEF Read, queues
    <2>2. /\ Taken(e, i, n).sendCredit = st[e][i].sendCredit /\ Taken(e, i, n).receiveCredit = st[e][i].receiveCredit
          /\ Taken(e, i, n).remoteWindow = st[e][i].remoteWindow /\ Taken(e, i, n).err = st[e][i].err
          /\ Taken(e, i, n).buffered = st[e][i].buffered - n /\ Taken(e, i, n).remoteEOF = st[e][i].remoteEOF
        BY <1>1 DEF Taken, Stream
    <2> QED
        BY <1>1, <1>2, <2>1, <2>2
<1> QED
    BY <1>3, <1>4 DEF Consumer

LEMMA FrameFields ==
    ASSUME NEW t \in {"OPEN", "CLOSE", "DATA", "CREDIT", "BAD"}, NEW i \in Ids, NEW k \in Nat
    PROVE  Frame(t, i, k) \in Frames /\ Frame(t, i, k).type = t /\ Frame(t, i, k).id = i /\ Frame(t, i, k).n = k
BY DEF Frame, Frames

(* What is reserved moves to the queue.                                    *)
LEMMA EnqueueCalm ==
    ASSUME TypeOK, TypeOK', Proper, NEW e \in Ends, NEW i \in Ids, Enqueue(e, i), NEW f \in Ends, NEW j \in Ids
    PROVE  Calm(f, j)
<1> DEFINE F == Frame(snd[e][i].type, i, snd[e][i].n)
<1>1. /\ writes' = [writes EXCEPT ![e] = Append(@, F)] /\ snd' = [snd EXCEPT ![e][i].pc = "wait"]
      /\ UNCHANGED <<st, wire, lastRemoteID>> /\ snd[e][i].pc = "queue"
    BY DEF Enqueue
<1>2. /\ snd[e][i].type \in {"OPEN", "DATA"} /\ snd[e][i].n \in Nat
      /\ snd[e][i].type = "OPEN" => snd[e][i].n = 0
    BY RequestFields DEF Proper, RequestProper
<1>3. F \in Frames /\ F.type = snd[e][i].type /\ F.id = i /\ F.n = snd[e][i].n
    BY <1>2, FrameFields
<1> HIDE DEF F
<1>4. \A g \in Ends, k \in Ids : \A t : Bytes(writes'[g], t, k) = Bytes(writes[g], t, k) + WeightAt(g, e, F, t, k)
    BY <1>1, <1>3, WritesAppended
<1>5. WeightAt(f, e, F, "CREDIT", j) = 0 /\ (f # e \/ j # i => WeightAt(f, e, F, "DATA", j) = 0)
    BY <1>2, <1>3 DEF WeightAt, Weight
<1>6. /\ Bytes(writes[f], "CREDIT", j) \in Nat /\ Bytes(writes[f], "DATA", j) \in Nat
      /\ Bytes(wire[f], "DATA", j) \in Nat
    BY OwingType
<1>7. Outgoing(f, "CREDIT", j)' = Outgoing(f, "CREDIT", j) /\ Grants(f, j)' = Grants(f, j)
      /\ lastRemoteID' \in Nat /\ lastRemoteID' >= lastRemoteID
    <2>1. Outgoing(f, "CREDIT", j)' = Outgoing(f, "CREDIT", j)
        BY <1>1, <1>4, <1>5, <1>6 DEF Outgoing
    <2>2. Grants(f, j)' = Grants(f, j)
        BY <1>1 DEF Grants
    <2> QED
        BY <1>1, <2>1, <2>2, LastSame
<1>8. CASE f # e \/ j # i
    <2>1. Outgoing(f, "DATA", j)' = Outgoing(f, "DATA", j)
        BY <1>1, <1>4, <1>5, <1>6, <1>8 DEF Outgoing
    <2>2. Reserved(f, j)' = Reserved(f, j)
        BY <1>1, <1>8, Zenon DEF Reserved, TypeOK
    <2> QED
        BY <1>1, <1>7, <2>1, <2>2, CalmElsewhere
<1>9. CASE f = e /\ j = i
    <2>1. WeightAt(f, e, F, "DATA", j) = snd[e][i].n
        BY <1>2, <1>3, <1>9 DEF WeightAt, Weight
    <2>2. Reserved(f, j) = snd[e][i].n /\ Reserved(f, j)' = 0
        <3>1. snd'[e][i].pc = "wait"
            BY <1>1 DEF TypeOK, Request
        <3> QED
            BY <1>1, <1>9, <3>1 DEF Reserved
    <2>3. Outgoing(f, "DATA", j)' = Outgoing(f, "DATA", j) + snd[e][i].n /\ Outgoing(f, "DATA", j) \in Nat
        BY <1>1, <1>2, <1>4, <1>6, <2>1 DEF Outgoing
    <2>4. st[f][j].sendCredit \in Nat /\ st[f][j].buffered \in Nat
        BY StreamFields
    <2>5. Owing(f, j)' = Owing(f, j)
        BY <1>1, <1>2, <2>2, <2>3, <2>4 DEF Owing
    <2>6. Granting(f, j)' = Granting(f, j) /\ Owing(f, j) \in Nat /\ Granting(f, j) \in Nat
        BY <1>7, OwingType DEF Granting
    <2>7. Listens(f, j)' => Listens(f, j)
        BY <1>1 DEF Listens
    <2> QED
        BY <1>1, <1>7, <2>4, <2>5, <2>6, <2>7 DEF Calm, SendCalm, ReceiveCalm
<1> QED
    BY <1>8, <1>9

(* A frame that carries no bytes and no credit goes on the wire.           *)
LEMMA WriteControlCalm ==
    ASSUME TypeOK, TypeOK', NEW e \in Ends, WriteControl(e), NEW f \in Ends, NEW j \in Ids
    PROVE  Calm(f, j)
<1> DEFINE F == CloseFrame(Head(controls[e]))
<1>1. OnWire(e, F) /\ UNCHANGED <<st, snd, writes, lastRemoteID>> /\ controls[e] # <<>>
    BY DEF WriteControl
<1>2. Head(controls[e]) \in Ids
    BY <1>1, HeadTail DEF TypeOK
<1>3. F \in Frames /\ F.type = "CLOSE"
    BY <1>2, FrameFields DEF CloseFrame
<1> HIDE DEF F
<1>4. /\ \A t : Bytes(wire'[f], t, j) = Bytes(wire[f], t, j) + WeightAt(f, e, F, t, j)
      /\ Grants(f, j)' \subseteq Grants(f, j) \union {}
    BY <1>1, <1>3, WireAppended
<1>5. WeightAt(f, e, F, "DATA", j) = 0 /\ WeightAt(f, e, F, "CREDIT", j) = 0
    BY <1>3 DEF WeightAt, Weight
<1>6. Bytes(wire[f], "DATA", j) \in Nat /\ Bytes(wire[f], "CREDIT", j) \in Nat
    BY OwingType
<1>7. /\ Outgoing(f, "DATA", j)' = Outgoing(f, "DATA", j)
      /\ Outgoing(f, "CREDIT", j)' = Outgoing(f, "CREDIT", j)
    BY <1>1, <1>4, <1>5, <1>6 DEF Outgoing
<1>8. Reserved(f, j)' = Reserved(f, j) /\ lastRemoteID' \in Nat /\ lastRemoteID' >= lastRemoteID
    BY <1>1, LastSame DEF Reserved
<1> QED
    BY <1>1, <1>4, <1>7, <1>8, CalmElsewhere

LEMMA ReportEffect ==
    ASSUME TypeOK, NEW e \in Ends, NEW i \in Ids, NEW r, Report(e, i, r), NEW f \in Ends, NEW j \in Ids
    PROVE  \/ snd'[f][j] = snd[f][j]
           \/ /\ f = e /\ j = i /\ snd[f][j].pc = "wait" /\ snd'[f][j].pc = "wait"
              /\ snd'[f][j].type = snd[f][j].type /\ snd'[f][j].n = snd[f][j].n
              /\ snd'[f][j].left = snd[f][j].left /\ snd'[f][j].result = r
<1>1. CASE snd' = snd
    BY <1>1
<1>2. CASE snd' # snd
    <2>1. snd' = [snd EXCEPT ![e][i].result = r] /\ snd[e][i].pc = "wait"
        BY <1>2 DEF Report
    <2>2. snd[f][j] \in Request
        BY RequestFields
    <2>3. snd'[f][j] = IF f = e /\ j = i THEN [snd[e][i] EXCEPT !.result = r] ELSE snd[f][j]
        BY <2>1 DEF TypeOK
    <2> QED
        BY <2>1, <2>2, <2>3 DEF Request
<1> QED
    BY <1>1, <1>2

(* Sums in the order in which Owing adds them.                             *)
LEMMA AddThree ==
    ASSUME NEW a \in Nat, NEW b \in Nat, NEW c \in Nat, NEW w \in Nat
    PROVE  a + b + (c + w) = (a + b + c) + w /\ a + b + c \in Nat
OBVIOUS

(* A request is written, or dropped because its stream has ended.          *)
LEMMA WriteRequestCalm ==
    ASSUME TypeOK, TypeOK', Proper, LedgerInv, Untouched, NEW e \in Ends, WriteRequest(e), NEW f \in Ends, NEW j \in Ids
    PROVE  Calm(f, j)
<1> DEFINE F == Head(writes[e])
<1>1. /\ writes[e] # <<>> /\ writes' = [writes EXCEPT ![e] = Tail(@)] /\ UNCHANGED <<st, lastRemoteID>>
      /\ err[e] = "none"
      /\ \/ WriteError(e, F.id) /\ Report(e, F.id, "err") /\ wire' = wire
         \/ ~WriteError(e, F.id) /\ Report(e, F.id, "ok") /\ OnWire(e, F)
    BY DEF WriteRequest, Turn
<1>2. F \in Frames /\ WriteProper(e, F)
    <2>1. writes[e] \in Seq(Frames)
        BY DEF TypeOK
    <2>2. F \in Frames /\ F = writes[e][1] /\ 1 \in DOMAIN writes[e]
        BY <1>1, <2>1
    <2> QED
        BY <2>2 DEF Proper
<1> HIDE DEF F
<1>3. F.id \in Ids /\ F.n \in Nat /\ F.type \in {"OPEN", "DATA"}
    BY <1>2 DEF Frames, WriteProper
<1>4. Reserved(f, j)' = Reserved(f, j)
    <2>1. snd'[f][j].pc = snd[f][j].pc /\ snd'[f][j].n = snd[f][j].n
        BY <1>1, <1>3, ReportEffect
    <2> QED
        BY <2>1 DEF Reserved
<1>5. \A t : Bytes(writes[f], t, j) = Bytes(writes'[f], t, j) + WeightAt(f, e, F, t, j)
    BY <1>1, WritesShortened DEF F
<1>6. WeightAt(f, e, F, "CREDIT", j) = 0 /\ WeightAt(f, e, F, "DATA", j) \in Nat
    BY <1>3 DEF WeightAt, Weight
<1>7. /\ Bytes(wire[f], "DATA", j) \in Nat /\ Bytes(wire[f], "CREDIT", j) \in Nat
      /\ Bytes(writes'[f], "DATA", j) \in Nat /\ Bytes(writes'[f], "CREDIT", j) \in Nat
    <2>1. writes'[f] \in Seq(Frames)
        BY DEF TypeOK
    <2> QED
        BY <2>1, OwingType, BytesType
<1>8. lastRemoteID' \in Nat /\ lastRemoteID' >= lastRemoteID
    BY <1>1, LastSame
<1>9. CASE OnWire(e, F)
    <2>1. /\ \A t : Bytes(wire'[f], t, j) = Bytes(wire[f], t, j) + WeightAt(f, e, F, t, j)
          /\ Grants(f, j)' \subseteq Grants(f, j) \union {}
        BY <1>2, <1>3, <1>9, WireAppended
    <2>2. Outgoing(f, "DATA", j)' = Outgoing(f, "DATA", j)
        BY <1>5, <1>6, <1>7, <2>1 DEF Outgoing
    <2>3. Outgoing(f, "CREDIT", j)' = Outgoing(f, "CREDIT", j)
        BY <1>5, <1>6, <1>7, <2>1 DEF Outgoing
    <2> QED
        BY <1>1, <1>4, <1>8, <2>1, <2>2, <2>3, CalmElsewhere
<1>10. CASE WriteError(e, F.id) /\ wire' = wire
    <2>1. Outgoing(f, "DATA", j) = Outgoing(f, "DATA", j)' + WeightAt(f, e, F, "DATA", j)
          /\ Outgoing(f, "CREDIT", j)' = Outgoing(f, "CREDIT", j)
        BY <1>5, <1>6, <1>7, <1>10 DEF Outgoing
    <2>2. Grants(f, j)' = Grants(f, j)
        BY <1>10 DEF Grants
    <2>3. CASE f # e \/ j # F.id
        <3>1. WeightAt(f, e, F, "DATA", j) = 0
            BY <2>3 DEF WeightAt, Weight
        <3>2. Outgoing(f, "DATA", j)' = Outgoing(f, "DATA", j)
            BY <1>7, <1>10, <2>1, <3>1 DEF Outgoing
        <3> QED
            BY <1>1, <1>4, <1>8, <2>1, <2>2, <3>2, CalmElsewhere
    <2>4. CASE f = e /\ j = F.id
        <3>1. /\ Outgoing(f, "DATA", j)' \in Nat /\ st[f][j].sendCredit \in Nat /\ Reserved(f, j) \in Nat
              /\ st[f][j].buffered \in Nat
            BY <1>7, <1>10, OwingType, StreamFields DEF Outgoing
        <3>2. Owing(f, j) = Owing(f, j)' + WeightAt(f, e, F, "DATA", j) /\ Owing(f, j)' \in Nat
            <4>1. PICK a \in Nat, b \in Nat : a = st[f][j].sendCredit /\ b = Reserved(f, j)
                BY <3>1
            <4>2. PICK c \in Nat, w \in Nat : c = Outgoing(f, "DATA", j)' /\ w = WeightAt(f, e, F, "DATA", j)
                BY <1>6, <3>1
            <4>3. Owing(f, j) = a + b + (c + w)
                BY <2>1, <4>1, <4>2 DEF Owing
            <4>4. Owing(f, j)' = a + b + c
                BY <1>1, <1>4, <4>1, <4>2 DEF Owing
            <4>5. a + b + (c + w) = (a + b + c) + w /\ a + b + c \in Nat
                BY AddThree
            <4> QED
                BY <4>2, <4>3, <4>4, <4>5
        <3>3. Granting(f, j)' = Granting(f, j) /\ Granting(f, j) \in Nat
            BY <2>1, OwingType DEF Granting
        <3>4. Listens(f, j)' => Listens(f, j)
            BY <1>1 DEF Listens
        <3>5. ASSUME Listens(f, j) PROVE Owing(f, j) = 0
            <4>1. st[f][j].err = "new"
                BY <1>1, <1>10, <2>4, <3>5 DEF Listens, WriteError
            <4>2. st[f][j].remoteWindow = 0
                BY <4>1 DEF Untouched, Fresh
            <4> QED
                BY <3>5, <4>2 DEF LedgerInv, Ledger, FirstGrant
        <3>6. Listens(f, j)' => Owing(f, j)' = Owing(f, j)
            BY <1>6, <3>2, <3>4, <3>5
        <3>7. Owing(f, j)' <= Owing(f, j)
            BY <1>6, <3>2
        <3> QED
            BY <1>1, <2>2, <3>1, <3>3, <3>4, <3>6, <3>7 DEF Calm, SendCalm, ReceiveCalm
    <2> QED
        BY <2>3, <2>4
<1> QED
    BY <1>1, <1>9, <1>10

LEMMA HeadProper ==
    ASSUME TypeOK, Proper, NEW e \in Ends, wire[e] # <<>>
    PROVE  /\ Head(wire[e]) \in Frames /\ Head(wire[e]) = wire[e][1] /\ 1 \in DOMAIN wire[e]
           /\ Head(wire[e]).id \in Ids /\ Head(wire[e]).n \in Nat
           /\ WireProper(e, Head(wire[e]))
<1>1. wire[e] \in Seq(Frames)
    BY DEF TypeOK
<1>2. Head(wire[e]) \in Frames /\ Head(wire[e]) = wire[e][1] /\ 1 \in DOMAIN wire[e]
    BY <1>1
<1> QED
    BY <1>2 DEF Proper, Frames

(* What the reader's step changes in the sums.                             *)
ReadWeight(e, f, t, j) == WeightAt(f, Peer(e), Head(wire[Peer(e)]), t, j)

ReadEffect(e, i, s, f, j) ==
    /\ st'[e][i] = s
    /\ \A g \in Ends, k \in Ids : g # e \/ k # i => st'[g][k] = st[g][k]
    /\ \A t : /\ ReadWeight(e, f, t, j) \in Nat
              /\ ReadWeight(e, f, t, j) # 0 => f = Peer(e) /\ j = i /\ Head(wire[Peer(e)]).type = t
              /\ Outgoing(f, t, j) = Outgoing(f, t, j)' + ReadWeight(e, f, t, j)
              /\ Outgoing(f, t, j)' \in Nat
    /\ Reserved(f, j)' = Reserved(f, j) /\ Reserved(f, j) \in Nat
    /\ Grants(f, j)' \subseteq Grants(f, j)

LEMMA ReadCounts ==
    ASSUME TypeOK, TypeOK', NEW e \in Ends, wire[Peer(e)] # <<>>, NEW i \in Ids, i = Head(wire[Peer(e)]).id,
           NEW s, NEW reset, Consumed(e, i, s, reset), UNCHANGED <<snd, writes>>,
           NEW f \in Ends, NEW j \in Ids
    PROVE  ReadEffect(e, i, s, f, j)
<1> DEFINE p == Peer(e)
           F == Head(wire[p])
<1>1. p \in Ends /\ p # e /\ Peer(p) = e
    BY PeerEnds
<1>2. /\ wire' = [wire EXCEPT ![p] = Tail(@)] /\ SetStream(e, i, s)
    BY DEF Consumed
<1>3. F \in Frames
    BY <1>1, HeadTail DEF TypeOK
<1> HIDE DEF p
<1>4. /\ \A t : Bytes(wire[f], t, j) = Bytes(wire'[f], t, j) + WeightAt(f, p, F, t, j)
      /\ Grants(f, j)' \subseteq Grants(f, j)
    BY <1>1, <1>2, WireShortened DEF p
<1>5. /\ st'[e][i] = s
      /\ \A g \in Ends, k \in Ids : g # e \/ k # i => st'[g][k] = st[g][k]
    BY <1>2, SetStreamElsewhere
<1>6. \A t : WeightAt(f, p, F, t, j) \in Nat /\ (WeightAt(f, p, F, t, j) # 0 => f = p /\ j = i /\ F.type = t)
    BY <1>3, WeightType DEF WeightAt, Weight, p
<1>7. \A t : Bytes(writes[f], t, j) \in Nat /\ Bytes(wire'[f], t, j) \in Nat /\ Bytes(wire[f], t, j) \in Nat
    <2>1. wire'[f] \in Seq(Frames)
        BY DEF TypeOK
    <2> QED
        BY <2>1, OwingType, BytesType
<1> HIDE DEF F
<1>8. \A t : Outgoing(f, t, j) = Outgoing(f, t, j)' + WeightAt(f, p, F, t, j) /\ Outgoing(f, t, j)' \in Nat
    BY <1>4, <1>6, <1>7 DEF Outgoing
<1>9. Reserved(f, j)' = Reserved(f, j) /\ Reserved(f, j) \in Nat
    BY OwingType DEF Reserved
<1> QED
    BY <1>4, <1>5, <1>6, <1>8, <1>9 DEF p, F, ReadWeight, ReadEffect

(* A frame is read and neither takes nor brings credit.                    *)
LEMMA ReadCalmly ==
    ASSUME TypeOK, TypeOK', NEW e \in Ends, wire[Peer(e)] # <<>>, NEW i \in Ids, i = Head(wire[Peer(e)]).id,
           NEW s, NEW reset, Consumed(e, i, s, reset), UNCHANGED <<snd, writes>>,
           lastRemoteID' \in Nat, lastRemoteID' >= lastRemoteID,
           s.sendCredit = st[e][i].sendCredit, s.receiveCredit = st[e][i].receiveCredit,
           s.remoteWindow = st[e][i].remoteWindow, s.buffered <= st[e][i].buffered,
           s.err = "live" =>
              \/ st[e][i].err = "live" /\ s.creditDue = st[e][i].creditDue
              \/ st[e][i].receiveCredit = 0 /\ s.creditDue = StreamBuffer[e],
           Listens(e, i)' => Listens(e, i),
           Head(wire[Peer(e)]).type = "DATA" => ~(Listens(Peer(e), i)' /\ s.err = "live"),
           Head(wire[Peer(e)]).type = "CREDIT" => ~(Listens(e, i)' /\ st[Peer(e)][i].err = "live"),
           NEW f \in Ends, NEW j \in Ids
    PROVE  Calm(f, j)
<1> DEFINE p == Peer(e)
           W(t) == ReadWeight(e, f, t, j)
<1>1. ReadEffect(e, i, s, f, j)
    BY ReadCounts
<1>2. p \in Ends /\ p # e /\ Peer(p) = e
    BY PeerEnds
<1>3. /\ st'[e][i] = s
      /\ \A g \in Ends, k \in Ids : g # e \/ k # i => st'[g][k] = st[g][k]
      /\ Reserved(f, j)' = Reserved(f, j) /\ Reserved(f, j) \in Nat
      /\ Grants(f, j)' \subseteq Grants(f, j)
    BY <1>1 DEF ReadEffect
<1>4. \A t : W(t) \in Nat /\ (W(t) # 0 => f = p /\ j = i /\ Head(wire[p]).type = t)
    BY <1>1 DEF ReadEffect
<1>5. \A t : Outgoing(f, t, j) = Outgoing(f, t, j)' + W(t) /\ Outgoing(f, t, j)' \in Nat
    BY <1>1, SMTT(30) DEF ReadEffect
<1> HIDE DEF p, W
<1>6. CASE f = p /\ j = i
    <2>1. st'[f][j] = st[f][j]
        BY <1>2, <1>3, <1>6
    <2>2. /\ Owing(f, j) = Owing(f, j)' + W("DATA") /\ Owing(f, j)' \in Nat
          /\ Granting(f, j) = Granting(f, j)' + W("CREDIT") /\ Granting(f, j)' \in Nat
          /\ st[f][j].sendCredit \in Nat /\ st[f][j].buffered \in Nat
        <3>1. st[f][j].sendCredit \in Nat /\ st[f][j].buffered \in Nat
            BY StreamFields
        <3>2. Owing(f, j)' = st[f][j].sendCredit + Reserved(f, j) + Outgoing(f, "DATA", j)'
            BY <1>3, <2>1 DEF Owing
        <3>3. W("DATA") \in Nat /\ W("CREDIT") \in Nat
            BY <1>4
        <3>4. Owing(f, j) = Owing(f, j)' + W("DATA") /\ Owing(f, j)' \in Nat
            <4>1. Outgoing(f, "DATA", j) = Outgoing(f, "DATA", j)' + W("DATA")
                  /\ Outgoing(f, "DATA", j)' \in Nat /\ Reserved(f, j) \in Nat
                BY <1>5, <1>3
            <4>2. Owing(f, j) = st[f][j].sendCredit + Reserved(f, j) + Outgoing(f, "DATA", j)
                BY DEF Owing
            <4>3. PICK a \in Nat, b \in Nat : a = st[f][j].sendCredit /\ b = Reserved(f, j)
                BY <3>1, <4>1
            <4>4. PICK c \in Nat, w \in Nat : c = Outgoing(f, "DATA", j)' /\ w = W("DATA")
                BY <3>3, <4>1
            <4>5. Owing(f, j) = a + b + (c + w) /\ Owing(f, j)' = a + b + c
                BY <3>2, <4>1, <4>2, <4>3, <4>4
            <4>6. a + b + (c + w) = (a + b + c) + w /\ a + b + c \in Nat
                BY AddThree, SMTT(30)
            <4> QED
                BY <4>4, <4>5, <4>6
        <3> QED
            BY <1>5, <3>1, <3>4 DEF Granting
    <2>3. Listens(f, j)' => Listens(f, j)
        BY <2>1 DEF Listens, Ids, TypeOK
    <2>4. Listens(f, j)' /\ st'[e][i].err = "live" => W("DATA") = 0
        BY <1>3, <1>4, <1>6 DEF p
    <2>5. Listens(e, i)' /\ st[p][i].err = "live" => W("CREDIT") = 0
        BY <1>4, <1>6 DEF p
    <2>6. Owing(f, j)' <= Owing(f, j) /\ (Listens(f, j)' /\ st'[e][i].err = "live" => Owing(f, j)' = Owing(f, j))
        BY <1>4, <2>2, <2>4
    <2>7. Granting(f, j)' <= Granting(f, j) /\ (Listens(e, i)' /\ st[p][i].err = "live" => Granting(f, j)' = Granting(f, j))
        BY <1>4, <2>2, <2>5
    <2> QED
        BY <1>2, <1>3, <1>6, <2>1, <2>2, <2>3, <2>6, <2>7 DEF Calm, SendCalm, ReceiveCalm
<1>7. CASE f # p \/ j # i
    <2>1. W("DATA") = 0 /\ W("CREDIT") = 0
        BY <1>4, <1>7
    <2>2. Outgoing(f, "DATA", j)' = Outgoing(f, "DATA", j) /\ Outgoing(f, "CREDIT", j)' = Outgoing(f, "CREDIT", j)
        BY <1>5, <2>1
    <2>3. CASE f # e \/ j # i
        BY <1>3, <2>2, <2>3, CalmElsewhere, SMTT(30)
    <2>4. CASE f = e /\ j = i
        <3>1. Owing(f, j)' = Owing(f, j) /\ Granting(f, j)' = Granting(f, j) /\ Owing(f, j) \in Nat /\ Granting(f, j) \in Nat
            BY <1>3, <2>2, <2>4, OwingType DEF Owing, Granting
        <3>2. st[f][j].sendCredit \in Nat
            BY StreamFields
        <3> QED
            BY <1>3, <2>4, <3>1, <3>2, SMTT(30) DEF Calm, SendCalm, ReceiveCalm
    <2> QED
        BY <2>3, <2>4
<1> QED
    BY <1>6, <1>7

-----------------------------------------------------------------------------
(* The accept queue and the order of the OPEN frames.                      *)

(* What waits for Accept is live, waits once and is not accepted yet.      *)
Queue ==
    /\ \A k \in DOMAIN acceptQ : acceptQ[k] \in accepted["server"] => FALSE
    /\ \A j, k \in DOMAIN acceptQ : acceptQ[j] = acceptQ[k] => j = k
    /\ \A k \in DOMAIN acceptQ : acceptQ[k] \in Live("server")

(* As long as there is a slot there is room in the accept queue.           *)
LEMMA AcceptRoom ==
    ASSUME TypeOK, Queue, ~Refuses("server")
    PROVE  ~AcceptFull
<1>1. "server" \in Ends
    BY DEF Ends
<1>2. IsFiniteSet(Live("server")) /\ Cardinality(Live("server")) \in Nat
    BY <1>1, LiveFinite
<1>3. Len(acceptQ) \in Nat /\ DOMAIN acceptQ = 1..Len(acceptQ) /\ acceptQ \in [1..Len(acceptQ) -> Ids]
    BY DEF TypeOK
<1>4. acceptQ \in [1..Len(acceptQ) -> Live("server")]
    BY <1>3 DEF Queue
<1>5. acceptQ \in Injection(1..Len(acceptQ), Live("server"))
    BY <1>3, <1>4 DEF Queue, Injection, IsInjective
<1>6. Cardinality(1..Len(acceptQ)) <= Cardinality(Live("server"))
    BY <1>2, <1>5, FS_Injection
<1>7. Cardinality(1..Len(acceptQ)) = Len(acceptQ)
    BY <1>3, FS_Interval
<1>8. MaxStreams["server"] \in Nat
    BY <1>1, SessionAssumption
<1> QED
    BY <1>2, <1>3, <1>6, <1>7, <1>8 DEF Refuses, AcceptFull

(* OPEN reaches the server: the stream is refused and stays unknown, or it *)
(* is started and queued.                                                  *)
OpenRead(i, s) ==
    /\ wire["client"] # <<>> /\ Head(wire["client"]).type = "OPEN" /\ Head(wire["client"]).id = i
    /\ i > lastRemoteID /\ lastRemoteID' = i /\ st["server"][i].err = "new"
    /\ \/ /\ Refuses("server") /\ s = st["server"][i] /\ acceptQ' = acceptQ
          /\ Consumed("server", i, s, TRUE)
       \/ /\ ~Refuses("server") /\ s = [Started("server") EXCEPT !.announced = TRUE]
          /\ acceptQ' = Append(acceptQ, i) /\ Consumed("server", i, s, FALSE)
    /\ UNCHANGED <<err, nextID, snd, writes, controls, closing, flags, accepted, history>>

LEMMA OpenReadStep ==
    ASSUME TypeOK, Queue, Untouched, RecvOpen
    PROVE  \E i \in Ids, s \in Stream : OpenRead(i, s)
<1> DEFINE i == Head(wire["client"]).id
           new == [Started("server") EXCEPT !.announced = TRUE]
           s == IF Refuses("server") THEN st["server"][i] ELSE new
<1>1. "server" \in Ends /\ Peer("server") = "client"
    BY DEF Ends, Peer
<1>2. i \in Ids
    BY <1>1, FirstFrame DEF RecvOpen, Reading
<1>3. st["server"][i] \in Stream
    BY <1>1, <1>2 DEF TypeOK
<1>4. new \in Stream
    BY <1>1, StartedType DEF Stream
<1>5. /\ wire["client"] # <<>> /\ Head(wire["client"]).type = "OPEN"
      /\ i > lastRemoteID /\ lastRemoteID' = i
      /\ Consumed("server", i, IF s.err = "live" /\ AcceptFull THEN Finish(s, "limit") ELSE s,
                  Refuses("server") \/ AcceptFull)
      /\ acceptQ' = IF Refuses("server") \/ AcceptFull THEN acceptQ ELSE Append(acceptQ, i)
      /\ UNCHANGED <<err, nextID, snd, writes, controls, closing, flags, accepted, history>>
    BY <1>1 DEF RecvOpen, Reading
<1> HIDE DEF i, new
<1>6. st["server"][i].err = "new"
    <2>1. i \in Nat /\ lastRemoteID \in Nat
        BY <1>2, SessionAssumption DEF TypeOK, Ids
    <2> QED
        BY <1>2, <1>5, <2>1 DEF Untouched
<1>7. CASE ~Refuses("server")
    <2>1. ~AcceptFull
        BY <1>7, AcceptRoom
    <2>2. s = new /\ acceptQ' = Append(acceptQ, i) /\ Consumed("server", i, s, FALSE)
        BY <1>5, <1>7, <2>1
    <2>3. OpenRead(i, new)
        BY <1>5, <1>7, <1>6, <2>2 DEF OpenRead, i, new
    <2> QED
        BY <1>2, <1>4, <2>3
<1>8. CASE Refuses("server")
    <2>1. s = st["server"][i] /\ acceptQ' = acceptQ
        BY <1>5, <1>8
    <2>2. Consumed("server", i, st["server"][i], TRUE)
        <3>1. st["server"][i].err # "live"
            BY <1>5, <1>6
        <3> QED
            BY <1>5, <1>8, <3>1
    <2>3. OpenRead(i, st["server"][i])
        BY <1>5, <1>8, <1>6, <2>1, <2>2 DEF OpenRead, i
    <2> QED
        BY <1>2, <1>3, <2>3
<1> QED
    BY <1>7, <1>8

-----------------------------------------------------------------------------
(* What the reader does with a frame of a peer that runs this code: it     *)
(* never resets a stream.                                                  *)

FrameRead(e, t, i, n) ==
    /\ wire[Peer(e)] # <<>> /\ Head(wire[Peer(e)]).type = t
    /\ i = Head(wire[Peer(e)]).id /\ n = Head(wire[Peer(e)]).n
    /\ UNCHANGED <<err, nextID, lastRemoteID, snd, writes, controls, creditWake, closing, flags,
                   acceptQ, accepted, history>>

TakenIn(e, i, n) == [st[e][i] EXCEPT !.receiveCredit = @ - n, !.buffered = @ + n]

GrantedTo(e, i, n) == [st[e][i] EXCEPT !.remoteWindow = StreamBuffer[Peer(e)], !.sendCredit = @ + n]

DataRead(e, i, n) ==
    /\ FrameRead(e, "DATA", i, n)
    /\ n > 0
    /\ \/ Ignores(e, i) /\ Consumed(e, i, st[e][i], FALSE)
       \/ ~Ignores(e, i) /\ n <= st[e][i].receiveCredit /\ Consumed(e, i, TakenIn(e, i, n), FALSE)

CreditRead(e, i, n) ==
    /\ FrameRead(e, "CREDIT", i, n)
    /\ n > 0
    /\ \/ Ignores(e, i) /\ Consumed(e, i, st[e][i], FALSE)
       \/ ~Ignores(e, i) /\ Consumed(e, i, GrantedTo(e, i, n), FALSE)

(* The first frame on the wire is part of what its end owes.               *)
LEMMA HeadOwed ==
    ASSUME TypeOK, NEW e \in Ends, wire[e] # <<>>
    PROVE  LET F == Head(wire[e])
           IN  /\ F.type = "DATA" => F.n <= Owing(e, F.id)
               /\ F.type = "CREDIT" => F.n <= Granting(e, F.id) /\ F.n \in Grants(e, F.id)
<1> DEFINE F == Head(wire[e])
<1>1. wire[e] \in Seq(Frames)
    BY DEF TypeOK
<1>2. F \in Frames /\ Tail(wire[e]) \in Seq(Frames) /\ F = wire[e][1] /\ 1 \in DOMAIN wire[e]
    BY <1>1
<1>3. F.id \in Ids /\ F.n \in Nat
    BY <1>2 DEF Frames
<1>4. F.type \in {"DATA", "CREDIT"} => F.n <= Bytes(wire[e], F.type, F.id)
    <2>1. Bytes(wire[e], F.type, F.id) = Weight(F, F.type, F.id) + Bytes(Tail(wire[e]), F.type, F.id)
        BY <1>1, BytesTail
    <2>2. Bytes(Tail(wire[e]), F.type, F.id) \in Nat /\ Weight(F, F.type, F.id) = F.n
        BY <1>2, BytesType DEF Weight
    <2> QED
        BY <1>3, <2>1, <2>2
<1> HIDE DEF F
<1>5. F.type = "DATA" => F.n <= Owing(e, F.id)
    <2> SUFFICES ASSUME F.type = "DATA" PROVE F.n <= Owing(e, F.id)
        OBVIOUS
    <2>1. Bytes(writes[e], "DATA", F.id) \in Nat /\ Bytes(wire[e], "DATA", F.id) \in Nat
          /\ Reserved(e, F.id) \in Nat /\ st[e][F.id].sendCredit \in Nat
        BY <1>3, OwingType, StreamFields
    <2>2. F.n <= Bytes(wire[e], "DATA", F.id)
        BY <1>4
    <2> QED
        BY <1>3, <2>1, <2>2 DEF Owing, Outgoing
<1>6. F.type = "CREDIT" => F.n <= Granting(e, F.id) /\ F.n \in Grants(e, F.id)
    <2> SUFFICES ASSUME F.type = "CREDIT" PROVE F.n <= Granting(e, F.id) /\ F.n \in Grants(e, F.id)
        OBVIOUS
    <2>1. Bytes(writes[e], "CREDIT", F.id) \in Nat /\ Bytes(wire[e], "CREDIT", F.id) \in Nat
        BY <1>3, OwingType
    <2>2. F.n <= Bytes(wire[e], "CREDIT", F.id)
        BY <1>4
    <2>3. F.n \in Grants(e, F.id)
        BY <1>2 DEF Grants
    <2> QED
        BY <1>3, <2>1, <2>2, <2>3 DEF Granting, Outgoing
<1> QED
    BY <1>5, <1>6 DEF F

LEMMA DataReadStep ==
    ASSUME TypeOK, Proper, WindowAccounted, SlotsBounded, UnreadLive, LedgerInv, NEW e \in Ends, RecvData(e)
    PROVE  \E i \in Ids, n \in Nat : DataRead(e, i, n)
<1> DEFINE p == Peer(e)
           i == Head(wire[p]).id
           n == Head(wire[p]).n
<1>1. p \in Ends /\ Peer(p) = e
    BY PeerEnds
<1>2. /\ wire[p] # <<>> /\ Head(wire[p]).type = "DATA"
      /\ UNCHANGED <<err, nextID, lastRemoteID, snd, writes, controls, creditWake, closing, flags,
                     acceptQ, accepted, history>>
    BY DEF RecvData, Reading
<1>3. i \in Ids /\ n \in Nat /\ n > 0
    BY <1>1, <1>2, HeadProper DEF WireProper
<1>4. n <= Owing(p, i)
    BY <1>1, <1>2, HeadOwed
<1>5. FrameRead(e, "DATA", i, n)
    BY <1>2 DEF FrameRead
<1>6. /\ Ignores(e, i) => Consumed(e, i, st[e][i], FALSE)
      /\ ~Ignores(e, i) /\ n # 0 /\ ~ExceedsWindow(e, i, n) => Consumed(e, i, TakenIn(e, i, n), FALSE)
    BY Zenon DEF RecvData, TakenIn
<1> HIDE DEF i, n
<1>7. ASSUME ~Ignores(e, i) PROVE n <= st[e][i].receiveCredit /\ ~ExceedsWindow(e, i, n)
    <2>1. st[e][i].err = "live" /\ i \in Live(e)
        BY <1>3, <1>7 DEF Ignores, Live
    <2>2. Owing(p, i) + Granting(e, i) <= st[e][i].receiveCredit
        BY <1>1, <1>3 DEF LedgerInv, Ledger, Covered
    <2>3. /\ Owing(p, i) \in Nat /\ Granting(e, i) \in Nat /\ st[e][i].receiveCredit \in Nat
          /\ st[e][i].buffered \in Nat /\ st[e][i].creditDue \in Nat
        BY <1>1, <1>3, OwingType, StreamFields
    <2>4. n <= st[e][i].receiveCredit
        BY <1>3, <1>4, <2>2, <2>3
    <2>5. st[e][i].receiveCredit + st[e][i].buffered + st[e][i].creditDue = StreamBuffer[e]
        BY <1>3, <2>1 DEF WindowAccounted
    <2>6. st[e][i].buffered + n <= StreamBuffer[e]
        BY <1>3, <2>3, <2>4, <2>5
    <2>7. SessionBuffered(e) + n <= SessionBuffer[e]
        BY <1>3, <2>1, <2>6, SessionFits
    <2>8. SessionBuffered(e) \in Nat /\ StreamBuffer[e] \in Nat /\ SessionBuffer[e] \in Nat
        <3>1. \A k \in 1..MaxId : [j \in Ids |-> st[e][j].buffered][k] \in Nat
            BY StreamFields DEF Ids
        <3>2. MaxId \in Nat
            BY SessionAssumption
        <3>3. SessionBuffered(e) \in Nat
            BY <3>1, <3>2, TotalType DEF SessionBuffered
        <3> QED
            BY <3>3, SessionAssumption
    <2> QED
        BY <1>3, <2>3, <2>4, <2>6, <2>7, <2>8 DEF ExceedsWindow
<1>8. DataRead(e, i, n)
    <2>1. n # 0
        BY <1>3
    <2> QED
        BY <1>3, <1>5, <1>6, <1>7, <2>1, Zenon DEF DataRead
<1> QED
    BY <1>3, <1>8

LEMMA CreditReadStep ==
    ASSUME TypeOK, Proper, LedgerInv, NEW e \in Ends, RecvCredit(e)
    PROVE  \E i \in Ids, n \in Nat : CreditRead(e, i, n)
<1> DEFINE p == Peer(e)
           i == Head(wire[p]).id
           n == Head(wire[p]).n
           granted == [st[e][i] EXCEPT !.remoteWindow = Window(e, i, n), !.sendCredit = @ + n]
<1>1. p \in Ends /\ Peer(p) = e
    BY PeerEnds
<1>2. /\ wire[p] # <<>> /\ Head(wire[p]).type = "CREDIT"
      /\ UNCHANGED <<err, nextID, lastRemoteID, snd, writes, controls, creditWake, closing, flags,
                     acceptQ, accepted, history>>
    BY DEF RecvCredit, Reading
<1>3. i \in Ids /\ n \in Nat /\ n > 0
    BY <1>1, <1>2, HeadProper DEF WireProper
<1>4. n <= Granting(p, i) /\ n \in Grants(p, i)
    BY <1>1, <1>2, HeadOwed
<1>5. FrameRead(e, "CREDIT", i, n)
    BY <1>2 DEF FrameRead
<1>6. /\ Ignores(e, i) => Consumed(e, i, st[e][i], FALSE)
      /\ ~Ignores(e, i) /\ ~InvalidGrant(e, i, n) => Consumed(e, i, granted, FALSE)
    BY Zenon DEF RecvCredit
<1> HIDE DEF i, n
<1>7. ASSUME ~Ignores(e, i) PROVE Window(e, i, n) = StreamBuffer[p] /\ ~InvalidGrant(e, i, n)
    <2>1. Listens(e, i) /\ Ledger(e, i)
        BY <1>3, <1>7 DEF Ignores, Listens, LedgerInv
    <2>2. /\ Owing(e, i) \in Nat /\ Granting(p, i) \in Nat /\ st[p][i].receiveCredit \in Nat
          /\ st[e][i].sendCredit \in Nat /\ st[e][i].remoteWindow \in Nat
        BY <1>1, <1>3, OwingType, StreamFields
    <2>3. StreamBuffer[p] \in Nat /\ StreamBuffer[p] # 0 /\ StreamBuffer[p] <= MaxWindow /\ MaxWindow \in Nat
        BY <1>1, SessionAssumption
    <2>4. CASE st[e][i].remoteWindow = 0
        <3>1. n = StreamBuffer[p] /\ st[e][i].sendCredit = 0
            BY <1>4, <2>1, <2>4 DEF Ledger, FirstGrant, WindowFixed
        <3> QED
            BY <1>3, <2>3, <2>4, <3>1 DEF Window, InvalidGrant
    <2>5. CASE st[e][i].remoteWindow = StreamBuffer[p]
        <3>1. Window(e, i, n) = StreamBuffer[p]
            BY <2>3, <2>5 DEF Window
        <3>2. st[e][i].sendCredit <= Owing(e, i)
            <4>1. Reserved(e, i) \in Nat /\ Outgoing(e, "DATA", i) \in Nat
                BY <1>3, OwingType
            <4> QED
                BY <2>2, <4>1 DEF Owing
        <3>3. Owing(e, i) + Granting(p, i) <= st[p][i].receiveCredit /\ st[p][i].receiveCredit <= StreamBuffer[p]
            BY <2>1 DEF Ledger, Covered, Credit
        <3>4. n <= StreamBuffer[p] - st[e][i].sendCredit
            BY <1>3, <1>4, <2>2, <2>3, <3>2, <3>3
        <3> QED
            BY <1>3, <2>2, <2>3, <3>1, <3>4 DEF InvalidGrant
    <2> QED
        BY <2>1, <2>4, <2>5 DEF Ledger, WindowFixed
<1>8. CreditRead(e, i, n)
    BY <1>3, <1>5, <1>6, <1>7 DEF CreditRead, GrantedTo
<1> QED
    BY <1>3, <1>8

-----------------------------------------------------------------------------
(* The reader's steps and the ledger.                                      *)

LEMMA OpenReadCalm ==
    ASSUME TypeOK, TypeOK', Proper, Untouched, NEW i \in Ids, NEW s \in Stream, OpenRead(i, s),
           NEW f \in Ends, NEW j \in Ids
    PROVE  Calm(f, j)
<1>1. "server" \in Ends /\ Peer("server") = "client"
    BY DEF Ends, Peer
<1>2. /\ wire["client"] # <<>> /\ i = Head(wire["client"]).id /\ Head(wire["client"]).type = "OPEN"
      /\ st["server"][i].err = "new" /\ i > lastRemoteID /\ lastRemoteID' = i /\ UNCHANGED <<snd, writes>>
    BY DEF OpenRead
<1>3. lastRemoteID' \in Nat /\ lastRemoteID' >= lastRemoteID
    <2>1. i \in Nat /\ lastRemoteID \in Nat
        BY IdsNumbers
    <2> QED
        BY <1>2, <2>1
<1>4. Fresh("server", i)
    BY <1>1 DEF Untouched
<1>5. Listens("server", i)
    BY <1>2 DEF Listens
<1>6. \/ s = st["server"][i]
      \/ s = [Started("server") EXCEPT !.announced = TRUE]
    BY DEF OpenRead
<1>7. /\ s.sendCredit = 0 /\ s.receiveCredit = 0 /\ s.remoteWindow = 0 /\ s.buffered = 0
      /\ s.err = "live" => s.creditDue = StreamBuffer["server"]
    <2>1. CASE s = st["server"][i]
        BY <1>2, <1>4, <2>1 DEF Fresh
    <2>2. CASE s = [Started("server") EXCEPT !.announced = TRUE]
        BY <2>2 DEF Started, NoStream
    <2> QED
        BY <1>6, <2>1, <2>2
<1>8. PICK reset : Consumed("server", i, s, reset)
    BY DEF OpenRead
<1> QED
    BY <1>1, <1>2, <1>3, <1>4, <1>5, <1>7, <1>8, ReadCalmly DEF Fresh

LEMMA ListensKept ==
    ASSUME TypeOK, NEW e \in Ends, NEW i \in Ids, NEW s, SetStream(e, i, s), UNCHANGED lastRemoteID,
           NEW f \in Ends, NEW j \in Ids
    PROVE  /\ f # e \/ j # i => (Listens(f, j)' <=> Listens(f, j))
           /\ s.err = st[e][i].err /\ s.remoteEOF = st[e][i].remoteEOF => (Listens(f, j)' <=> Listens(f, j))
           /\ s.err = st[e][i].err /\ s.remoteEOF => (Listens(f, j)' => Listens(f, j))
<1>1. /\ st'[e][i] = s
      /\ \A g \in Ends, k \in Ids : g # e \/ k # i => st'[g][k] = st[g][k]
    BY SetStreamElsewhere
<1>2. CASE f # e \/ j # i
    BY <1>1, <1>2 DEF Listens
<1>3. CASE f = e /\ j = i
    BY <1>1, <1>3, SMTT(30) DEF Listens
<1> QED
    BY <1>2, <1>3

LEMMA CloseReadCalm ==
    ASSUME TypeOK, TypeOK', NEW e \in Ends, RecvClose(e), NEW f \in Ends, NEW j \in Ids
    PROVE  Calm(f, j)
<1>1. wire[Peer(e)] # <<>> /\ Head(wire[Peer(e)]).id \in Ids
    BY FirstFrame DEF RecvClose, Reading
<1>2. PICK i \in Ids : i = Head(wire[Peer(e)]).id
    BY <1>1
<1>3. PICK s : s = IF st[e][i].err = "live" THEN HalfClosed(e, i) ELSE st[e][i]
    OBVIOUS
<1>4. /\ Head(wire[Peer(e)]).type = "CLOSE" /\ UNCHANGED <<snd, writes, lastRemoteID>>
      /\ Consumed(e, i, s, FALSE)
    BY <1>2, <1>3 DEF RecvClose, Reading
<1>5. st[e][i] \in Stream /\ st[e][i].buffered \in Nat
    BY StreamFields
<1>6. /\ s.sendCredit = st[e][i].sendCredit /\ s.receiveCredit = st[e][i].receiveCredit
      /\ s.remoteWindow = st[e][i].remoteWindow /\ s.buffered <= st[e][i].buffered /\ s.err = st[e][i].err
      /\ s.creditDue = st[e][i].creditDue /\ (s.remoteEOF \/ s.remoteEOF = st[e][i].remoteEOF)
    <2>1. CASE st[e][i].err = "live"
        <3>1. s = [st[e][i] EXCEPT !.remoteEOF = TRUE]
            BY <1>3, <2>1 DEF HalfClosed
        <3>2. s.remoteEOF
            BY <1>5, <3>1 DEF Stream
        <3> QED
            BY <1>5, <3>1, <3>2 DEF Stream
    <2>2. CASE st[e][i].err # "live"
        BY <1>3, <1>5, <2>2
    <2> QED
        BY <2>1, <2>2
<1>7. Listens(e, i)' => Listens(e, i)
    BY <1>4, <1>6, ListensKept DEF Consumed
<1>8. lastRemoteID' \in Nat /\ lastRemoteID' >= lastRemoteID
    BY <1>4, LastSame
<1> QED
    BY <1>1, <1>2, <1>4, <1>6, <1>7, <1>8, ReadCalmly

(* What is ignored is of a stream the two ends do not both hold any more.  *)
LEMMA IgnoredCalm ==
    ASSUME TypeOK, TypeOK', Untouched, GrantAfterOpen, ToldOnlyWhenDone, NEW e \in Ends, NEW i \in Ids,
           NEW n, NEW t \in {"DATA", "CREDIT"}, FrameRead(e, t, i, n), Ignores(e, i),
           Consumed(e, i, st[e][i], FALSE), NEW f \in Ends, NEW j \in Ids
    PROVE  Calm(f, j)
<1> DEFINE p == Peer(e)
<1>1. p \in Ends /\ Peer(p) = e /\ p # e
    BY PeerEnds
<1>2. /\ wire[p] # <<>> /\ Head(wire[p]).type = t /\ i = Head(wire[p]).id
      /\ UNCHANGED <<snd, writes, lastRemoteID>>
    BY DEF FrameRead
<1> HIDE DEF p
<1>3. /\ Listens(e, i)' <=> Listens(e, i)
      /\ Listens(p, i)' <=> Listens(p, i)
    BY <1>1, <1>2, ListensKept DEF Consumed
<1>4. ~(Listens(p, i) /\ st[e][i].err = "live")
    <2> SUFFICES ASSUME Listens(p, i), st[e][i].err = "live" PROVE FALSE
        OBVIOUS
    <2>1. st[e][i].remoteEOF
        BY DEF Ignores
    <2>2. Told(p, i)
        BY <1>1, <2>1 DEF Told
    <2> QED
        BY <1>1, <2>2 DEF ToldOnlyWhenDone
<1>5. t = "CREDIT" => ~(Listens(e, i) /\ st[p][i].err = "live")
    <2> SUFFICES ASSUME t = "CREDIT", Listens(e, i), st[p][i].err = "live" PROVE FALSE
        OBVIOUS
    <2>1. st[e][i].err = "new" /\ (e = "server" => i > lastRemoteID)
        BY DEF Ignores, Listens
    <2>2. i \in Nat /\ lastRemoteID \in Nat
        BY SessionAssumption DEF TypeOK, Ids
    <2>3. CASE e = "client"
        <3>1. p = "server"
            BY <2>3 DEF p, Peer
        <3>2. ~Used(i)
            BY <2>1, <2>3 DEF Untouched
        <3>3. ~(i <= lastRemoteID)
            BY <3>2 DEF Untouched
        <3> QED
            BY <3>1, <3>3 DEF Untouched
    <2>4. CASE e = "server"
        <3>1. p = "client"
            BY <2>4 DEF p, Peer
        <3>2. wire["client"] \in Seq(Frames)
            BY <1>1, <3>1 DEF TypeOK
        <3>3. 1 \in DOMAIN wire["client"] /\ wire["client"][1].type = "CREDIT" /\ wire["client"][1].id = i
            BY <1>2, <3>1, <3>2
        <3>4. \E k \in DOMAIN wire["client"] : k < 1
            BY <2>1, <2>4, <3>3 DEF GrantAfterOpen, OnWireBefore
        <3> QED
            BY <3>2, <3>4
    <2> QED
        BY <2>3, <2>4 DEF Ends
<1>6. lastRemoteID' \in Nat /\ lastRemoteID' >= lastRemoteID /\ st[e][i].buffered <= st[e][i].buffered
    BY <1>2, LastSame, StreamFields
<1> QED
    BY <1>1, <1>2, <1>3, <1>4, <1>5, <1>6, ReadCalmly DEF p

(* What the two sides of a ledger look at.                                 *)
SendSteady(f, j) ==
    /\ st'[f][j].sendCredit = st[f][j].sendCredit /\ st'[f][j].remoteWindow = st[f][j].remoteWindow
    /\ Reserved(f, j)' = Reserved(f, j) /\ Outgoing(f, "DATA", j)' = Outgoing(f, "DATA", j)
    /\ Listens(f, j)' => Listens(f, j)

ReceiveSteady(f, j) ==
    /\ Outgoing(f, "CREDIT", j)' = Outgoing(f, "CREDIT", j) /\ Grants(f, j)' \subseteq Grants(f, j)
    /\ st'[f][j].err = st[f][j].err /\ st'[f][j].receiveCredit = st[f][j].receiveCredit
    /\ st'[f][j].buffered = st[f][j].buffered /\ st'[f][j].creditDue = st[f][j].creditDue

LEMMA SteadyCalm ==
    ASSUME TypeOK, NEW f \in Ends, NEW j \in Ids
    PROVE  (SendSteady(f, j) => SendCalm(f, j)) /\ (ReceiveSteady(f, j) => ReceiveCalm(f, j))
<1>1. ASSUME SendSteady(f, j) PROVE SendCalm(f, j)
    <2>1. Owing(f, j)' = Owing(f, j) /\ Owing(f, j) \in Nat
        BY <1>1, OwingType DEF Owing, SendSteady
    <2>2. st[f][j].sendCredit \in Nat
        BY StreamFields
    <2> QED
        BY <1>1, <2>1, <2>2 DEF SendCalm, SendSteady
<1>2. ASSUME ReceiveSteady(f, j) PROVE ReceiveCalm(f, j)
    <2>1. Granting(f, j)' = Granting(f, j) /\ Granting(f, j) \in Nat
        BY <1>2, OwingType DEF Granting, ReceiveSteady
    <2>2. st[f][j].buffered \in Nat
        BY StreamFields
    <2> QED
        BY <1>2, <2>1, <2>2 DEF ReceiveCalm, ReceiveSteady
<1> QED
    BY <1>1, <1>2

(* A step on the ledger of stream i at end e leaves the other ledgers be.  *)
LEMMA LedgerElsewhere ==
    ASSUME TypeOK, TypeOK', LedgerInv, NEW e \in Ends, NEW i \in Ids,
           \A g \in Ends, k \in Ids : g # e \/ k # i => SendSteady(g, k),
           \A g \in Ends, k \in Ids : g # Peer(e) \/ k # i => ReceiveSteady(g, k),
           Ledger(e, i)'
    PROVE  LedgerInv'
<1> SUFFICES ASSUME NEW f \in Ends, NEW j \in Ids, f # e \/ j # i
             PROVE  Ledger(f, j)'
    BY DEF LedgerInv
<1>1. Peer(f) \in Ends /\ Peer(Peer(f)) = f
    BY PeerEnds
<1>2. Peer(f) # Peer(e) \/ j # i
    BY <1>1, PeerEnds
<1>3. SendCalm(f, j) /\ ReceiveCalm(Peer(f), j)
    BY <1>1, <1>2, SteadyCalm
<1> QED
    BY <1>3, CalmLedger DEF LedgerInv

(* The bytes taken off the wire leave the sender's debt and the window.    *)
LEMMA TakenLedger ==
    ASSUME TypeOK, TypeOK', LedgerInv, NEW e \in Ends, NEW i \in Ids, NEW n \in Nat, FrameRead(e, "DATA", i, n),
           n > 0, n <= st[e][i].receiveCredit, ~Ignores(e, i), Consumed(e, i, TakenIn(e, i, n), FALSE)
    PROVE  LedgerInv'
<1> DEFINE p == Peer(e)
<1>1. p \in Ends /\ p # e /\ Peer(p) = e
    BY PeerEnds
<1>2. PICK s : s = TakenIn(e, i, n)
    OBVIOUS
<1>3. /\ wire[p] # <<>> /\ i = Head(wire[p]).id /\ Head(wire[p]).type = "DATA" /\ n = Head(wire[p]).n
      /\ UNCHANGED <<snd, writes, lastRemoteID>> /\ Consumed(e, i, s, FALSE)
    BY <1>2 DEF FrameRead
<1>4. \A g \in Ends, k \in Ids : ReadEffect(e, i, s, g, k)
    BY <1>3, ReadCounts
<1> HIDE DEF p
<1>5. /\ st[e][i].receiveCredit \in Nat /\ st[e][i].buffered \in Nat /\ st[e][i] \in Stream
    BY StreamFields
<1>6. /\ s.receiveCredit = st[e][i].receiveCredit - n /\ s.buffered = st[e][i].buffered + n
      /\ s.err = st[e][i].err /\ s.remoteEOF = st[e][i].remoteEOF /\ s.sendCredit = st[e][i].sendCredit
      /\ s.remoteWindow = st[e][i].remoteWindow /\ s.creditDue = st[e][i].creditDue
    BY <1>2, <1>5 DEF TakenIn, Stream
<1>7. /\ st'[e][i] = s
      /\ \A g \in Ends, k \in Ids : g # e \/ k # i => st'[g][k] = st[g][k]
    BY <1>4 DEF ReadEffect
<1>8. \A g \in Ends, k \in Ids : Listens(g, k)' <=> Listens(g, k)
    BY <1>3, <1>6, <1>7 DEF Listens
<1>9. \A g \in Ends, k \in Ids :
         /\ Outgoing(g, "CREDIT", k)' = Outgoing(g, "CREDIT", k)
         /\ g # p \/ k # i => Outgoing(g, "DATA", k)' = Outgoing(g, "DATA", k)
         /\ Reserved(g, k)' = Reserved(g, k) /\ Grants(g, k)' \subseteq Grants(g, k)
    <2> SUFFICES ASSUME NEW g \in Ends, NEW k \in Ids
                 PROVE  /\ Outgoing(g, "CREDIT", k)' = Outgoing(g, "CREDIT", k)
                        /\ g # p \/ k # i => Outgoing(g, "DATA", k)' = Outgoing(g, "DATA", k)
                        /\ Reserved(g, k)' = Reserved(g, k) /\ Grants(g, k)' \subseteq Grants(g, k)
        OBVIOUS
    <2>1. ReadEffect(e, i, s, g, k)
        BY <1>4
    <2>2. ReadWeight(e, g, "CREDIT", k) = 0 /\ (g # p \/ k # i => ReadWeight(e, g, "DATA", k) = 0)
        BY <1>3, <2>1 DEF ReadEffect, p
    <2>3. /\ Outgoing(g, "CREDIT", k) = Outgoing(g, "CREDIT", k)' + ReadWeight(e, g, "CREDIT", k)
          /\ Outgoing(g, "DATA", k) = Outgoing(g, "DATA", k)' + ReadWeight(e, g, "DATA", k)
          /\ Outgoing(g, "CREDIT", k)' \in Nat /\ Outgoing(g, "DATA", k)' \in Nat
        BY <2>1 DEF ReadEffect
    <2>4. Reserved(g, k)' = Reserved(g, k) /\ Grants(g, k)' \subseteq Grants(g, k)
        BY <2>1 DEF ReadEffect
    <2> QED
        BY <2>2, <2>3, <2>4
<1>10. /\ \A g \in Ends, k \in Ids : g # p \/ k # i => SendSteady(g, k)
       /\ \A g \in Ends, k \in Ids : g # Peer(p) \/ k # i => ReceiveSteady(g, k)
    <2>1. \A g \in Ends, k \in Ids : st'[g][k].sendCredit = st[g][k].sendCredit /\ st'[g][k].remoteWindow = st[g][k].remoteWindow
        BY <1>6, <1>7
    <2> QED
        BY <1>1, <1>7, <1>8, <1>9, <2>1 DEF SendSteady, ReceiveSteady
<1>11. Ledger(p, i)'
    <2>1. Ledger(p, i)
        BY <1>1 DEF LedgerInv
    <2>2. /\ Owing(p, i) \in Nat /\ Granting(e, i) \in Nat /\ Owing(p, i)' \in Nat /\ StreamBuffer[e] \in Nat
        BY <1>1, OwingType, OwingTypeNext, SessionAssumption
    <2>3. Outgoing(p, "DATA", i) = Outgoing(p, "DATA", i)' + n /\ Outgoing(p, "DATA", i)' \in Nat
        <3>1. ReadEffect(e, i, s, p, i)
            BY <1>1, <1>4
        <3>2. ReadWeight(e, p, "DATA", i) = n
            BY <1>3 DEF ReadWeight, WeightAt, Weight, p
        <3> QED
            BY <3>1, <3>2 DEF ReadEffect
    <2>4. st'[p][i] = st[p][i]
        BY <1>1, <1>7
    <2>5. Owing(p, i) = Owing(p, i)' + n
        <3>1. st[p][i].sendCredit \in Nat /\ Reserved(p, i) \in Nat /\ Reserved(p, i)' = Reserved(p, i)
            BY <1>1, <1>9, StreamFields, OwingType
        <3>2. /\ Owing(p, i) = st[p][i].sendCredit + Reserved(p, i) + Outgoing(p, "DATA", i)
              /\ Owing(p, i)' = st[p][i].sendCredit + Reserved(p, i) + Outgoing(p, "DATA", i)'
            BY <2>4, <3>1 DEF Owing
        <3>3. ASSUME NEW a, NEW b, NEW c, NEW d, NEW o, NEW m, a \in Nat, b \in Nat, c \in Nat,
                     o = a + b + d, m = a + b + c, d = c + n
              PROVE  o = m + n /\ m \in Nat
            BY <3>3, AddThree
        <3> QED
            BY <2>3, <3>1, <3>2, <3>3
    <2>6. Granting(e, i)' = Granting(e, i)
        BY <1>9 DEF Granting
    <2>7. Covered(p, i)'
        BY <1>1, <1>5, <1>6, <1>7, <2>1, <2>2, <2>5, <2>6 DEF Ledger, Covered
    <2>8. Credit(p, i)'
        BY <1>1, <1>5, <1>6, <1>7, <2>1, <2>2 DEF Ledger, Credit
    <2>9. WindowFixed(p, i)'
        BY <2>1, <2>4 DEF Ledger, WindowFixed
    <2>10. FirstGrant(p, i)'
        <3>1. ~(Listens(p, i) /\ st[p][i].remoteWindow = 0)
            BY <2>1, <2>2, <2>5 DEF Ledger, FirstGrant
        <3>2. ~(Listens(p, i)' /\ st'[p][i].remoteWindow = 0)
            BY <1>1, <1>8, <2>4, <3>1
        <3> QED
            BY <3>2 DEF FirstGrant
    <2>11. Balanced(p, i)'
        <3>1. Listens(p, i)' /\ st'[e][i].err = "live" => Owing(p, i) + Granting(e, i) = st[e][i].receiveCredit
            BY <1>1, <1>6, <1>7, <1>8, <2>1 DEF Ledger, Balanced
        <3>2. Listens(p, i)' /\ st'[e][i].err = "live" => Owing(p, i)' + Granting(e, i)' = st'[e][i].receiveCredit
            BY <1>5, <1>6, <1>7, <2>2, <2>5, <2>6, <3>1
        <3> QED
            BY <1>1, <3>2 DEF Balanced
    <2> QED
        BY <2>7, <2>8, <2>9, <2>10, <2>11 DEF Ledger
<1> QED
    BY <1>1, <1>10, <1>11, LedgerElsewhere

(* The credit taken off the wire becomes credit to send with.              *)
LEMMA GrantedLedger ==
    ASSUME TypeOK, TypeOK', LedgerInv, NEW e \in Ends, NEW i \in Ids, NEW n \in Nat, FrameRead(e, "CREDIT", i, n),
           ~Ignores(e, i), Consumed(e, i, GrantedTo(e, i, n), FALSE)
    PROVE  LedgerInv'
<1> DEFINE p == Peer(e)
<1>1. p \in Ends /\ p # e /\ Peer(p) = e
    BY PeerEnds
<1>2. PICK s : s = GrantedTo(e, i, n)
    OBVIOUS
<1>3. /\ wire[p] # <<>> /\ i = Head(wire[p]).id /\ Head(wire[p]).type = "CREDIT" /\ n = Head(wire[p]).n
      /\ UNCHANGED <<snd, writes, lastRemoteID>> /\ Consumed(e, i, s, FALSE)
    BY <1>2 DEF FrameRead
<1>4. \A g \in Ends, k \in Ids : ReadEffect(e, i, s, g, k)
    BY <1>3, ReadCounts
<1> HIDE DEF p
<1>5. st[e][i].sendCredit \in Nat /\ st[e][i] \in Stream
    BY StreamFields
<1>6. /\ s.receiveCredit = st[e][i].receiveCredit /\ s.buffered = st[e][i].buffered
      /\ s.err = st[e][i].err /\ s.remoteEOF = st[e][i].remoteEOF /\ s.sendCredit = st[e][i].sendCredit + n
      /\ s.remoteWindow = StreamBuffer[p] /\ s.creditDue = st[e][i].creditDue
    BY <1>2, <1>5 DEF GrantedTo, Stream, p
<1>7. /\ st'[e][i] = s
      /\ \A g \in Ends, k \in Ids : g # e \/ k # i => st'[g][k] = st[g][k]
    BY <1>4 DEF ReadEffect
<1>8. \A g \in Ends, k \in Ids : Listens(g, k)' <=> Listens(g, k)
    BY <1>3, <1>6, <1>7 DEF Listens
<1>9. \A g \in Ends, k \in Ids :
         /\ Outgoing(g, "DATA", k)' = Outgoing(g, "DATA", k)
         /\ g # p \/ k # i => Outgoing(g, "CREDIT", k)' = Outgoing(g, "CREDIT", k)
         /\ Reserved(g, k)' = Reserved(g, k) /\ Grants(g, k)' \subseteq Grants(g, k)
    <2> SUFFICES ASSUME NEW g \in Ends, NEW k \in Ids
                 PROVE  /\ Outgoing(g, "DATA", k)' = Outgoing(g, "DATA", k)
                        /\ g # p \/ k # i => Outgoing(g, "CREDIT", k)' = Outgoing(g, "CREDIT", k)
                        /\ Reserved(g, k)' = Reserved(g, k) /\ Grants(g, k)' \subseteq Grants(g, k)
        OBVIOUS
    <2>1. ReadEffect(e, i, s, g, k)
        BY <1>4
    <2>2. ReadWeight(e, g, "DATA", k) = 0 /\ (g # p \/ k # i => ReadWeight(e, g, "CREDIT", k) = 0)
        BY <1>3, <2>1 DEF ReadEffect, p
    <2>3. /\ Outgoing(g, "CREDIT", k) = Outgoing(g, "CREDIT", k)' + ReadWeight(e, g, "CREDIT", k)
          /\ Outgoing(g, "DATA", k) = Outgoing(g, "DATA", k)' + ReadWeight(e, g, "DATA", k)
          /\ Outgoing(g, "CREDIT", k)' \in Nat /\ Outgoing(g, "DATA", k)' \in Nat
        BY <2>1 DEF ReadEffect
    <2>4. Reserved(g, k)' = Reserved(g, k) /\ Grants(g, k)' \subseteq Grants(g, k)
        BY <2>1 DEF ReadEffect
    <2> QED
        BY <2>2, <2>3, <2>4
<1>10. /\ \A g \in Ends, k \in Ids : g # e \/ k # i => SendSteady(g, k)
       /\ \A g \in Ends, k \in Ids : g # p \/ k # i => ReceiveSteady(g, k)
    <2>1. \A g \in Ends, k \in Ids :
             /\ st'[g][k].err = st[g][k].err /\ st'[g][k].receiveCredit = st[g][k].receiveCredit
             /\ st'[g][k].buffered = st[g][k].buffered /\ st'[g][k].creditDue = st[g][k].creditDue
        BY <1>6, <1>7
    <2> QED
        BY <1>1, <1>7, <1>8, <1>9, <2>1 DEF SendSteady, ReceiveSteady
<1>11. Ledger(e, i)'
    <2>1. Ledger(e, i)
        BY DEF LedgerInv
    <2>2. /\ Owing(e, i) \in Nat /\ Granting(p, i) \in Nat /\ Granting(p, i)' \in Nat /\ StreamBuffer[p] \in Nat
          /\ StreamBuffer[p] # 0
        BY <1>1, OwingType, OwingTypeNext, SessionAssumption
    <2>3. Granting(p, i) = Granting(p, i)' + n
        <3>1. ReadEffect(e, i, s, p, i)
            BY <1>1, <1>4
        <3>2. ReadWeight(e, p, "CREDIT", i) = n
            BY <1>3 DEF ReadWeight, WeightAt, Weight, p
        <3> QED
            BY <3>1, <3>2 DEF ReadEffect, Granting
    <2>4. st'[p][i] = st[p][i]
        BY <1>1, <1>7
    <2>5. Owing(e, i)' = Owing(e, i) + n
        <3>1. Reserved(e, i) \in Nat /\ Reserved(e, i)' = Reserved(e, i) /\ Outgoing(e, "DATA", i) \in Nat
              /\ Outgoing(e, "DATA", i)' = Outgoing(e, "DATA", i)
            BY <1>9, OwingType
        <3>2. /\ Owing(e, i) = st[e][i].sendCredit + Reserved(e, i) + Outgoing(e, "DATA", i)
              /\ Owing(e, i)' = (st[e][i].sendCredit + n) + Reserved(e, i) + Outgoing(e, "DATA", i)
            BY <1>6, <1>7, <3>1 DEF Owing
        <3> QED
            BY <1>5, <3>1, <3>2
    <2>6. Covered(e, i)'
        <3>1. Owing(e, i)' + Granting(p, i)' = Owing(e, i) + Granting(p, i)
            BY <2>2, <2>3, <2>5
        <3> QED
            BY <2>1, <2>4, <3>1 DEF Ledger, Covered, p
    <2>7. Credit(e, i)'
        BY <2>1, <2>4 DEF Ledger, Credit, p
    <2>8. WindowFixed(e, i)' /\ FirstGrant(e, i)'
        BY <1>6, <1>7, <2>2 DEF WindowFixed, FirstGrant, p
    <2>9. Balanced(e, i)'
        <3>1. Listens(e, i)' /\ st'[p][i].err = "live" => Owing(e, i) + Granting(p, i) = st[p][i].receiveCredit
            BY <1>8, <2>1, <2>4 DEF Ledger, Balanced, p
        <3>2. Owing(e, i)' + Granting(p, i)' = Owing(e, i) + Granting(p, i)
            BY <2>2, <2>3, <2>5
        <3> QED
            BY <2>4, <3>1, <3>2 DEF Balanced, p
    <2> QED
        BY <2>6, <2>7, <2>8, <2>9 DEF Ledger
<1> QED
    BY <1>10, <1>11, LedgerElsewhere DEF p

(* What is due is granted.                                                 *)
Grant(e, i) ==
    /\ i \in Grantable(e) /\ Turn(e)
    /\ OnWire(e, Frame("CREDIT", i, st[e][i].creditDue))
    /\ SetStream(e, i, [st[e][i] EXCEPT !.receiveCredit = @ + st[e][i].creditDue, !.creditDue = 0])
    /\ UNCHANGED <<err, nextID, lastRemoteID, snd, writes, controls, rd, closing, flags, acceptQ, accepted, history>>

LEMMA GrantStep ==
    ASSUME NEW e \in Ends, WriteCredit(e)
    PROVE  (\E i \in Ids : Grant(e, i)) \/ UNCHANGED <<err, nextID, lastRemoteID, snd, writes, controls, rd, closing, flags,
                                                     acceptQ, accepted, history, st, wire>>
<1>1. UNCHANGED <<err, nextID, lastRemoteID, snd, writes, controls, rd, closing, flags, acceptQ, accepted, history>>
      /\ Turn(e)
    BY Zenon DEF WriteCredit
<1>2. CASE UNCHANGED <<st, wire>>
    BY <1>1, <1>2
<1>3. CASE ~UNCHANGED <<st, wire>>
    <2>1. PICK i \in Grantable(e) :
              /\ OnWire(e, Frame("CREDIT", i, st[e][i].creditDue))
              /\ SetStream(e, i, [st[e][i] EXCEPT !.receiveCredit = @ + st[e][i].creditDue, !.creditDue = 0])
        BY <1>3, Zenon DEF WriteCredit
    <2>2. i \in Ids
        BY DEF Grantable, Live
    <2> QED
        BY <1>1, <2>1, <2>2, Zenon DEF Grant
<1> QED
    BY <1>2, <1>3

LEMMA GrantLedger ==
    ASSUME TypeOK, TypeOK', WindowAccounted, LedgerInv, NEW e \in Ends, NEW i \in Ids, Grant(e, i)
    PROVE  LedgerInv'
<1> DEFINE p == Peer(e)
<1>1. p \in Ends /\ p # e /\ Peer(p) = e
    BY PeerEnds
<1> HIDE DEF p
<1>2. /\ st[e][i].sendCredit \in Nat /\ st[e][i] \in Stream /\ st[e][i].creditDue \in Nat /\ st[e][i].creditDue > 0
      /\ st[e][i].err = "live" /\ st[e][i].receiveCredit \in Nat /\ st[e][i].buffered \in Nat
    <2>1. st[e][i].creditDue > 0 /\ st[e][i].err = "live"
        BY DEF Grant, Grantable, Live
    <2> QED
        BY <2>1, StreamFields
<1>3. PICK d \in Nat : d = st[e][i].creditDue
    BY <1>2
<1>4. PICK s : s = [st[e][i] EXCEPT !.receiveCredit = @ + d, !.creditDue = 0]
    OBVIOUS
<1>5. PICK F : F = Frame("CREDIT", i, d)
    OBVIOUS
<1>6. OnWire(e, F) /\ SetStream(e, i, s) /\ UNCHANGED <<snd, writes, lastRemoteID>>
    BY <1>3, <1>4, <1>5 DEF Grant
<1>7. F \in Frames /\ F.type = "CREDIT" /\ F.id = i /\ F.n = d
    BY <1>5, FrameFields
<1>8. /\ s.receiveCredit = st[e][i].receiveCredit + d /\ s.creditDue = 0 /\ s.buffered = st[e][i].buffered
      /\ s.err = st[e][i].err /\ s.remoteEOF = st[e][i].remoteEOF /\ s.sendCredit = st[e][i].sendCredit
      /\ s.remoteWindow = st[e][i].remoteWindow
    BY <1>2, <1>4 DEF Stream
<1>9. /\ st'[e][i] = s
      /\ \A g \in Ends, k \in Ids : g # e \/ k # i => st'[g][k] = st[g][k]
    BY <1>6, SetStreamElsewhere
<1>10. \A g \in Ends, k \in Ids : Listens(g, k)' <=> Listens(g, k)
    BY <1>6, <1>8, <1>9 DEF Listens
<1>11. \A g \in Ends, k \in Ids :
         /\ Outgoing(g, "DATA", k)' = Outgoing(g, "DATA", k)
         /\ g # e \/ k # i => Outgoing(g, "CREDIT", k)' = Outgoing(g, "CREDIT", k) /\ Grants(g, k)' \subseteq Grants(g, k)
         /\ Reserved(g, k)' = Reserved(g, k)
    <2> SUFFICES ASSUME NEW g \in Ends, NEW k \in Ids
                 PROVE  /\ Outgoing(g, "DATA", k)' = Outgoing(g, "DATA", k)
                        /\ g # e \/ k # i => /\ Outgoing(g, "CREDIT", k)' = Outgoing(g, "CREDIT", k)
                                             /\ Grants(g, k)' \subseteq Grants(g, k)
                        /\ Reserved(g, k)' = Reserved(g, k)
        OBVIOUS
    <2>1. /\ \A t : Bytes(wire'[g], t, k) = Bytes(wire[g], t, k) + WeightAt(g, e, F, t, k)
          /\ Grants(g, k)' \subseteq Grants(g, k) \union (IF g = e /\ F.type = "CREDIT" /\ F.id = k THEN {F.n} ELSE {})
        BY <1>6, <1>7, WireAppended
    <2>2. Bytes(wire[g], "DATA", k) \in Nat /\ Bytes(wire[g], "CREDIT", k) \in Nat
        BY OwingType
    <2>3. WeightAt(g, e, F, "DATA", k) = 0 /\ (g # e \/ k # i => WeightAt(g, e, F, "CREDIT", k) = 0)
        BY <1>7 DEF WeightAt, Weight
    <2>4. Reserved(g, k)' = Reserved(g, k)
        BY <1>6 DEF Reserved
    <2>5. Outgoing(g, "DATA", k)' = Outgoing(g, "DATA", k)
          /\ (g # e \/ k # i => Outgoing(g, "CREDIT", k)' = Outgoing(g, "CREDIT", k))
        BY <1>6, <2>1, <2>2, <2>3 DEF Outgoing
    <2>6. g # e \/ k # i => Grants(g, k)' \subseteq Grants(g, k)
        BY <1>7, <2>1
    <2> QED
        BY <2>4, <2>5, <2>6
<1>12. /\ \A g \in Ends, k \in Ids : g # p \/ k # i => SendSteady(g, k)
       /\ \A g \in Ends, k \in Ids : g # Peer(p) \/ k # i => ReceiveSteady(g, k)
    <2>1. \A g \in Ends, k \in Ids : st'[g][k].sendCredit = st[g][k].sendCredit /\ st'[g][k].remoteWindow = st[g][k].remoteWindow
        BY <1>8, <1>9
    <2> QED
        BY <1>1, <1>9, <1>10, <1>11, <2>1 DEF SendSteady, ReceiveSteady
<1>13. Ledger(p, i)'
    <2>1. Ledger(p, i)
        BY <1>1 DEF LedgerInv
    <2>2. Owing(p, i) \in Nat /\ Granting(e, i) \in Nat
        BY <1>1, OwingType
    <2>3. Granting(e, i)' = Granting(e, i) + d
        <3>1. Bytes(wire'[e], "CREDIT", i) = Bytes(wire[e], "CREDIT", i) + d
            <4>1. WeightAt(e, e, F, "CREDIT", i) = d
                BY <1>7 DEF WeightAt, Weight
            <4>2. \A t : Bytes(wire'[e], t, i) = Bytes(wire[e], t, i) + WeightAt(e, e, F, t, i)
                BY <1>6, <1>7, WireAppended
            <4> QED
                BY <4>1, <4>2
        <3>2. Bytes(wire[e], "CREDIT", i) \in Nat /\ Bytes(writes[e], "CREDIT", i) \in Nat
            BY OwingType
        <3> QED
            BY <1>6, <3>1, <3>2 DEF Granting, Outgoing
    <2>4. st'[p][i] = st[p][i] /\ Owing(p, i)' = Owing(p, i)
        <3>1. st'[p][i] = st[p][i]
            BY <1>1, <1>9
        <3> QED
            BY <1>1, <1>11, <3>1 DEF Owing
    <2>5. Covered(p, i)'
        BY <1>1, <1>2, <1>8, <1>9, <2>1, <2>2, <2>3, <2>4 DEF Ledger, Covered
    <2>6. Credit(p, i)'
        <3>1. st[e][i].receiveCredit + st[e][i].buffered + st[e][i].creditDue = StreamBuffer[e]
            BY <1>2 DEF WindowAccounted
        <3>2. st[e][i].receiveCredit + d <= StreamBuffer[e]
            BY <1>2, <1>3, <3>1
        <3> QED
            BY <1>1, <1>8, <1>9, <3>2 DEF Credit
    <2>7. WindowFixed(p, i)'
        BY <2>1, <2>4 DEF Ledger, WindowFixed
    <2>8. FirstGrant(p, i)'
        <3> SUFFICES ASSUME Listens(p, i)', st'[p][i].remoteWindow = 0
                     PROVE  /\ Owing(p, i)' = 0 /\ st'[e][i].buffered = 0
                            /\ Grants(e, i)' \subseteq {StreamBuffer[e]}
                            /\ st'[e][i].creditDue \in {0, StreamBuffer[e]}
            BY <1>1 DEF FirstGrant
        <3>1. /\ Owing(p, i) = 0 /\ st[e][i].buffered = 0
              /\ Grants(e, i) \subseteq {StreamBuffer[e]}
              /\ st[e][i].creditDue \in {0, StreamBuffer[e]}
            BY <1>1, <1>2, <1>10, <2>1, <2>4 DEF Ledger, FirstGrant
        <3>2. d = StreamBuffer[e]
            BY <1>2, <1>3, <3>1
        <3>3. Grants(e, i)' \subseteq Grants(e, i) \union {d}
            BY <1>6, <1>7, WireAppended
        <3> QED
            BY <1>8, <1>9, <2>4, <3>1, <3>2, <3>3
    <2>9. Balanced(p, i)'
        <3>1. Listens(p, i)' => Owing(p, i) + Granting(e, i) = st[e][i].receiveCredit
            BY <1>1, <1>2, <1>10, <2>1 DEF Ledger, Balanced
        <3>2. Listens(p, i)' => Owing(p, i)' + Granting(e, i)' = st'[e][i].receiveCredit
            BY <1>2, <1>8, <1>9, <2>2, <2>3, <2>4, <3>1
        <3> QED
            BY <1>1, <3>2 DEF Balanced
    <2> QED
        BY <2>5, <2>6, <2>7, <2>8, <2>9 DEF Ledger
<1> QED
    BY <1>1, <1>12, <1>13, LedgerElsewhere

LEMMA FailEffect ==
    ASSUME TypeOK, NEW e \in Ends, NEW why, Fail(e, why), NEW f \in Ends
    PROVE  /\ \A j \in Ids : /\ st'[f][j] = IF f = e /\ st[f][j].err = "live" THEN Finish(st[f][j], "session") ELSE st[f][j]
                             /\ snd'[f][j] = IF f = e THEN Idle ELSE snd[f][j]
                             /\ closing'[f][j] = IF f = e THEN "no" ELSE closing[f][j]
           /\ writes'[f] = IF f = e THEN <<>> ELSE writes[f]
           /\ controls'[f] = IF f = e THEN <<>> ELSE controls[f]
           /\ rd'[f] = IF f = e THEN Rest ELSE rd[f]
           /\ err'[f] = IF f = e THEN why ELSE err[f]
           /\ acceptQ' = IF e = "server" THEN <<>> ELSE acceptQ
           /\ UNCHANGED <<draining, nextID, lastRemoteID, wire, accepted, history>>
BY DEF Fail, TypeOK

(* The end that fails drops what it had to send and listens to nothing.    *)
LEMMA FailCalm ==
    ASSUME TypeOK, TypeOK', Untouched, LedgerInv, NEW e \in Ends, NEW why, Fail(e, why),
           NEW f \in Ends, NEW j \in Ids
    PROVE  Calm(f, j)
<1>1. /\ st'[f][j] = IF f = e /\ st[f][j].err = "live" THEN Finish(st[f][j], "session") ELSE st[f][j]
      /\ snd'[f][j] = IF f = e THEN Idle ELSE snd[f][j]
      /\ writes'[f] = IF f = e THEN <<>> ELSE writes[f]
      /\ UNCHANGED <<lastRemoteID, wire>>
    BY FailEffect
<1>2. Grants(f, j)' = Grants(f, j) /\ lastRemoteID' \in Nat /\ lastRemoteID' >= lastRemoteID
    BY <1>1, LastSame DEF Grants
<1>3. CASE f # e
    BY <1>1, <1>2, <1>3, CalmElsewhere DEF Reserved, Outgoing
<1>4. CASE f = e
    <2>1. /\ Bytes(wire[f], "DATA", j) \in Nat /\ Bytes(writes[f], "DATA", j) \in Nat /\ Reserved(f, j) \in Nat
          /\ Bytes(wire[f], "CREDIT", j) \in Nat /\ Bytes(writes[f], "CREDIT", j) \in Nat
          /\ st[f][j].sendCredit \in Nat /\ st[f][j] \in Stream /\ st[f][j].buffered \in Nat
        BY OwingType, StreamFields
    <2>2. /\ Reserved(f, j)' = 0
          /\ Outgoing(f, "DATA", j)' = Bytes(wire[f], "DATA", j)
          /\ Outgoing(f, "CREDIT", j)' = Bytes(wire[f], "CREDIT", j)
        <3>1. Reserved(f, j)' = 0
            BY <1>1, <1>4, IdleFields DEF Reserved
        <3>2. Bytes(writes'[f], "DATA", j) = 0 /\ Bytes(writes'[f], "CREDIT", j) = 0
            BY <1>1, <1>4, BytesEmpty
        <3> QED
            BY <1>1, <2>1, <3>1, <3>2 DEF Outgoing
    <2>3. /\ st'[f][j].sendCredit = st[f][j].sendCredit /\ st'[f][j].receiveCredit = st[f][j].receiveCredit
          /\ st'[f][j].remoteWindow = st[f][j].remoteWindow /\ st'[f][j].buffered <= st[f][j].buffered
          /\ st'[f][j].err # "live" /\ (st'[f][j].err = "new" => st[f][j].err = "new")
        <3>1. "session" \in Finished
            BY DEF Finished
        <3>2. CASE st[f][j].err = "live"
            <4>1. st'[f][j] = Finish(st[f][j], "session")
                BY <1>1, <1>4, <3>2
            <4> QED
                BY <2>1, <3>1, <4>1, FinishFields
        <3>3. CASE st[f][j].err # "live"
            BY <1>1, <2>1, <3>3
        <3> QED
            BY <3>2, <3>3
    <2>4. Owing(f, j)' <= Owing(f, j) /\ Owing(f, j)' \in Nat
        BY <2>1, <2>2, <2>3 DEF Owing, Outgoing
    <2>5. Granting(f, j)' <= Granting(f, j)
        BY <2>1, <2>2 DEF Granting, Outgoing
    <2>6. Listens(f, j)' => Listens(f, j) /\ st[f][j].err = "new"
        BY <1>1, <2>3 DEF Listens
    <2>7. Listens(f, j)' => Owing(f, j)' = Owing(f, j)
        <3> SUFFICES ASSUME Listens(f, j)' PROVE Owing(f, j)' = Owing(f, j)
            OBVIOUS
        <3>1. st[f][j].remoteWindow = 0
            BY <2>6 DEF Untouched, Fresh
        <3>2. Owing(f, j) = 0
            BY <2>6, <3>1 DEF LedgerInv, Ledger, FirstGrant
        <3> QED
            BY <2>4, <3>2
    <2> QED
        BY <1>2, <2>1, <2>3, <2>4, <2>5, <2>6, <2>7 DEF Calm, SendCalm, ReceiveCalm
<1> QED
    BY <1>3, <1>4

-----------------------------------------------------------------------------
(* Everything that two ends which both run this code keep.                 *)
Conforms ==
    /\ TypeOK /\ WindowAccounted /\ SlotsBounded
    /\ Proper /\ Untouched /\ UnreadLive /\ GrantAfterOpen /\ OpenOnWire /\ ToldOnlyWhenDone
    /\ LedgerInv /\ Queue /\ SendsOne /\ IdOrder

LEMMA LedgerNext ==
    ASSUME NoForeign, Conforms, TypeOK', [Next]_vars
    PROVE  LedgerInv'
<1> USE DEF Conforms
<1>1. (\A f \in Ends, j \in Ids : Calm(f, j)) => LedgerInv'
    <2> SUFFICES ASSUME \A f \in Ends, j \in Ids : Calm(f, j), NEW e \in Ends, NEW i \in Ids
                 PROVE  Ledger(e, i)'
        BY DEF LedgerInv
    <2>1. Peer(e) \in Ends
        BY PeerEnds
    <2>2. SendCalm(e, i) /\ ReceiveCalm(Peer(e), i)
        BY <2>1 DEF Calm
    <2> QED
        BY <2>2, CalmLedger DEF LedgerInv
<1> USE <1>1
<1>2. CASE Open
    BY <1>2, OpenCalm
<1>3. CASE OpenExhausted \/ Accept \/ UNCHANGED vars
    <2>1. UNCHANGED <<st, snd, writes, wire, lastRemoteID>>
        BY <1>3 DEF OpenExhausted, Accept, vars, queues
    <2> QED
        BY <2>1, StillCalm
<1>4. CASE RecvOpen
    <2>1. PICK i \in Ids, s \in Stream : OpenRead(i, s)
        BY <1>4, OpenReadStep
    <2> QED
        BY <2>1, OpenReadCalm
<1>5. ASSUME NEW e \in Ends, NEW i \in Ids, NEW n, Write(e, i, n)
      PROVE  LedgerInv'
    BY <1>5, WriteCalm
<1>6. ASSUME NEW e \in Ends, NEW i \in Ids, Close(e, i)
      PROVE  LedgerInv'
    <2>1. CloseStream(e, i) /\ snd' = snd /\ UNCHANGED <<writes, wire, lastRemoteID>>
        BY <1>6 DEF Close, queues
    <2> QED
        BY <2>1, CloseCalm
<1>7. ASSUME NEW e \in Ends, NEW i \in Ids, Sender(e, i)
      PROVE  LedgerInv'
    <2>1. CASE Reserve(e, i)
        BY <2>1, ReserveCalm
    <2>2. CASE Enqueue(e, i)
        BY <2>2, EnqueueCalm
    <2>3. CASE Sent(e, i)
        BY <2>3, SentCalm
    <2>4. CASE SendFails(e, i)
        <3>1. CloseStream(e, i) /\ SetRequest(e, i, Idle) /\ UNCHANGED <<writes, wire, lastRemoteID>>
              /\ snd[e][i].pc # "idle"
            BY <2>4 DEF SendFails, queues, SetRequest
        <3> QED
            BY <3>1, CloseCalm
    <2> QED
        BY <1>7, <2>1, <2>2, <2>3, <2>4 DEF Sender
<1>8. ASSUME NEW e \in Ends, NEW i \in Ids, Consumer(e, i)
      PROVE  LedgerInv'
    BY <1>8, ReadCalm
<1>9. ASSUME NEW e \in Ends, NEW i \in Ids, QueueClose(e, i)
      PROVE  LedgerInv'
    <2>1. UNCHANGED <<st, snd, writes, wire, lastRemoteID>>
        BY <1>9 DEF QueueClose
    <2> QED
        BY <2>1, StillCalm
<1>10. ASSUME NEW e \in Ends, Failing(e)
       PROVE  LedgerInv'
    BY <1>10, FailingFails, FailCalm
<1>11. ASSUME NEW e \in Ends, RecvData(e)
       PROVE  LedgerInv'
    <2>1. PICK i \in Ids, n \in Nat : DataRead(e, i, n)
        BY <1>11, DataReadStep
    <2>2. CASE Ignores(e, i)
        BY <2>1, <2>2, IgnoredCalm DEF DataRead
    <2>3. CASE ~Ignores(e, i)
        BY <2>1, <2>3, TakenLedger DEF DataRead
    <2> QED
        BY <2>2, <2>3
<1>12. ASSUME NEW e \in Ends, RecvCredit(e)
       PROVE  LedgerInv'
    <2>1. PICK i \in Ids, n \in Nat : CreditRead(e, i, n)
        BY <1>12, CreditReadStep
    <2>2. CASE Ignores(e, i)
        BY <2>1, <2>2, IgnoredCalm DEF CreditRead
    <2>3. CASE ~Ignores(e, i)
        BY <2>1, <2>3, GrantedLedger DEF CreditRead
    <2> QED
        BY <2>2, <2>3
<1>13. ASSUME NEW e \in Ends, RecvClose(e)
       PROVE  LedgerInv'
    BY <1>13, CloseReadCalm
<1>14. ASSUME NEW e \in Ends, ReaderCloses(e) \/ Drain(e) \/ IdleCheck(e)
       PROVE  LedgerInv'
    <2>1. UNCHANGED <<st, snd, writes, wire, lastRemoteID>>
        BY <1>14 DEF ReaderCloses, Drain, IdleCheck, queues
    <2> QED
        BY <2>1, StillCalm
<1>15. ASSUME NEW e \in Ends, WriteControl(e)
       PROVE  LedgerInv'
    BY <1>15, WriteControlCalm
<1>16. ASSUME NEW e \in Ends, WriteRequest(e)
       PROVE  LedgerInv'
    BY <1>16, WriteRequestCalm
<1>17. ASSUME NEW e \in Ends, WriteCredit(e)
       PROVE  LedgerInv'
    <2>1. CASE UNCHANGED <<st, wire>> /\ UNCHANGED <<snd, writes, lastRemoteID>>
        BY <2>1, StillCalm
    <2>2. ASSUME NEW i \in Ids, Grant(e, i) PROVE LedgerInv'
        BY <2>2, GrantLedger
    <2> QED
        BY <1>17, <2>1, <2>2, GrantStep
<1>18. ASSUME NEW e \in Ends, ForeignFrame(e)
       PROVE  LedgerInv'
    BY <1>18 DEF ForeignFrame, NoForeign
<1> QED
    BY <1>2, <1>3, <1>4, <1>5, <1>6, <1>7, <1>8, <1>9, <1>10, <1>11, <1>12, <1>13, <1>14, <1>15, <1>16, <1>17, <1>18
    DEF Next, Business, Reader, Writer, Failing, Ended

-----------------------------------------------------------------------------
(* What a step may do to a stream, and to the IDs in use.                  *)

Opened(f, j) ==
    \/ f = "client" /\ Open /\ j = nextID
    \/ f = "server" /\ j > lastRemoteID /\ lastRemoteID' = j

Endings == {"closed", "EOF", "session"}

(* The stream may end: the business holds it, or the session fails.        *)
Held(f, j) == f = "server" => j \in accepted[f] \/ acceptQ' = <<>>

CloseArrives(f, j) == \E k \in DOMAIN wire[Peer(f)] : wire[Peer(f)][k].type = "CLOSE" /\ wire[Peer(f)][k].id = j

Moves(f, j, t) ==
    LET s == st[f][j]
    IN  /\ \/ /\ t.err = s.err /\ (s.remoteEOF => t.remoteEOF)
              /\ s.err = "new" => t = s
              /\ s.err # "live" => t.buffered = s.buffered
           \/ s.err = "live" /\ t.err \in Endings /\ t.buffered = 0 /\ Held(f, j)
           \/ s.err = "new" /\ t.err = "live" /\ Opened(f, j)
        /\ f = "client" /\ t.announced => OpenSent(j)
        /\ t.remoteEOF => s.remoteEOF \/ CloseArrives(f, j)

Moved == \A f \in Ends, j \in Ids : Moves(f, j, st'[f][j])

LEMMA SameMoves == ASSUME NEW f, NEW j PROVE Moves(f, j, st[f][j])
BY DEF Moves, OpenSent

LEMMA OneMoves ==
    ASSUME TypeOK, NEW e \in Ends, NEW i \in Ids, NEW s, SetStream(e, i, s), Moves(e, i, s)
    PROVE  Moved
<1> SUFFICES ASSUME NEW f \in Ends, NEW j \in Ids PROVE Moves(f, j, st'[f][j])
    BY DEF Moved
<1>1. CASE f = e /\ j = i
    BY <1>1, SetStreamElsewhere
<1>2. CASE f # e \/ j # i
    BY <1>2, SetStreamElsewhere, SameMoves
<1> QED
    BY <1>1, <1>2

LEMMA NoneMoves == st' = st => Moved
BY SameMoves DEF Moved

(* A record with the same error, announcement and half-close.              *)
LEMMA CountsMove ==
    ASSUME NEW e, NEW i, NEW s, st[e][i].err = "live", s.err = "live", s.remoteEOF = st[e][i].remoteEOF,
           s.announced = st[e][i].announced
    PROVE  Moves(e, i, s)
BY DEF Moves, OpenSent

LEMMA FinishMoves ==
    ASSUME TypeOK, NEW e \in Ends, NEW i \in Ids, NEW why \in Endings, st[e][i].err = "live", Held(e, i)
    PROVE  Moves(e, i, Finish(st[e][i], why))
<1>1. st[e][i] \in Stream
    BY StreamFields
<1>2. PICK t : t = Finish(st[e][i], why)
    OBVIOUS
<1>3. t.err = why /\ t.buffered = 0 /\ t.announced = st[e][i].announced /\ t.remoteEOF = st[e][i].remoteEOF
    BY <1>1, <1>2 DEF Finish, Stream
<1> QED
    BY <1>2, <1>3 DEF Moves, OpenSent

LEMMA CloseMoves ==
    ASSUME TypeOK, NEW e \in Ends, NEW i \in Ids, CloseStream(e, i), Held(e, i)
    PROVE  Moved
<1>1. PICK s : SetStream(e, i, s) /\ s = IF st[e][i].err = "live" THEN Finish(st[e][i], "closed") ELSE st[e][i]
    BY DEF CloseStream
<1>2. "closed" \in Endings
    BY DEF Endings
<1>3. Moves(e, i, s)
    <2>1. CASE st[e][i].err = "live"
        BY <1>1, <1>2, <2>1, FinishMoves
    <2>2. CASE st[e][i].err # "live"
        BY <1>1, <2>2, SameMoves
    <2> QED
        BY <2>1, <2>2
<1> QED
    BY <1>1, <1>3, OneMoves

LEMMA OpenMoves ==
    ASSUME TypeOK, Untouched, Open
    PROVE  Moved
<1>1. "client" \in Ends /\ nextID \in Ids
    BY NextIdType DEF Ends
<1>2. SetStream("client", nextID, Started("client"))
    BY DEF Open
<1>3. st["client"][nextID].err = "new"
    <2>1. ~Used(nextID)
        BY <1>1 DEF Used, Ids, Open
    <2> QED
        BY <1>1, <2>1 DEF Untouched
<1>4. Started("client").err = "live" /\ ~Started("client").announced /\ ~Started("client").remoteEOF
    BY DEF Started, NoStream
<1>5. Opened("client", nextID)
    BY DEF Opened
<1>6. Moves("client", nextID, Started("client"))
    BY <1>3, <1>4, <1>5 DEF Moves
<1> QED
    BY <1>1, <1>2, <1>6, OneMoves

LEMMA ReserveMoves ==
    ASSUME TypeOK, NEW e \in Ends, NEW i \in Ids, Reserve(e, i)
    PROVE  Moved
<1>1. PICK s : SetStream(e, i, s) /\ s = [st[e][i] EXCEPT !.sendCredit = @ - Chunk(e, i)]
    BY DEF Reserve
<1>2. st[e][i] \in Stream /\ st[e][i].err = "live"
    BY StreamFields DEF Reserve, WriteError
<1>3. s.err = "live" /\ s.remoteEOF = st[e][i].remoteEOF /\ s.announced = st[e][i].announced
    BY <1>1, <1>2 DEF Stream
<1>4. Moves(e, i, s)
    BY <1>2, <1>3, CountsMove
<1> QED
    BY <1>1, <1>4, OneMoves

LEMMA SentMoves ==
    ASSUME TypeOK, Proper, NEW e \in Ends, NEW i \in Ids, Sent(e, i)
    PROVE  Moved
<1>1. CASE snd[e][i].type = "OPEN"
    <2>1. PICK s : SetStream(e, i, s) /\ s = [st[e][i] EXCEPT !.announced = TRUE]
        BY <1>1 DEF Sent
    <2>2. st[e][i] \in Stream /\ st[e][i].err # "new"
        BY StreamFields DEF Sent, Proper, RequestProper
    <2>3. s.err = st[e][i].err /\ s.remoteEOF = st[e][i].remoteEOF /\ s.buffered = st[e][i].buffered
        BY <2>1, <2>2 DEF Stream
    <2>4. e = "client" => OpenSent(i)
        BY <1>1 DEF Sent, OpenSent
    <2>5. Moves(e, i, s)
        BY <2>2, <2>3, <2>4 DEF Moves
    <2> QED
        BY <2>1, <2>5, OneMoves
<1>2. CASE snd[e][i].type # "OPEN"
    <2>1. st' = st
        BY <1>2 DEF Sent
    <2> QED
        BY <2>1, NoneMoves
<1> QED
    BY <1>1, <1>2

LEMMA ReadMoves ==
    ASSUME TypeOK, NEW e \in Ends, NEW i \in Ids, Consumer(e, i)
    PROVE  Moved
<1>1. CASE ReadEOF(e, i)
    <2>1. PICK s : SetStream(e, i, s) /\ s = Finish(st[e][i], "EOF")
        BY <1>1 DEF ReadEOF, AtEOF
    <2>2. st[e][i].err = "live" /\ "EOF" \in Endings /\ Held(e, i)
        BY <1>1 DEF ReadEOF, Endings, Held
    <2> QED
        BY <2>1, <2>2, FinishMoves, OneMoves
<1>2. ASSUME NEW n, Read(e, i, n) PROVE Moved
    <2>1. PICK s : SetStream(e, i, s) /\ s = Taken(e, i, n)
        BY <1>2 DEF Read
    <2>2. st[e][i] \in Stream /\ st[e][i].err = "live"
        BY <1>2, StreamFields DEF Read
    <2>3. s.err = "live" /\ s.remoteEOF = st[e][i].remoteEOF /\ s.announced = st[e][i].announced
        BY <2>1, <2>2 DEF Stream, Taken
    <2>4. Moves(e, i, s)
        BY <2>2, <2>3, CountsMove
    <2> QED
        BY <2>1, <2>4, OneMoves
<1> QED
    BY <1>1, <1>2 DEF Consumer

LEMMA RecvMoves ==
    ASSUME Conforms, NEW e \in Ends, RecvData(e) \/ RecvCredit(e) \/ RecvClose(e)
    PROVE  Moved
<1> USE DEF Conforms
<1>1. ASSUME NEW i \in Ids, NEW s, NEW reset, Consumed(e, i, s, reset), Moves(e, i, s) PROVE Moved
    <2>1. SetStream(e, i, s)
        BY <1>1 DEF Consumed
    <2> QED
        BY <1>1, <2>1, OneMoves
<1>2. CASE RecvData(e)
    <2>1. PICK i \in Ids, n \in Nat : DataRead(e, i, n)
        BY <1>2, DataReadStep
    <2>2. CASE Consumed(e, i, st[e][i], FALSE)
        BY <1>1, <2>2, SameMoves
    <2>3. CASE ~Ignores(e, i) /\ Consumed(e, i, TakenIn(e, i, n), FALSE)
        <3>1. st[e][i] \in Stream /\ st[e][i].err = "live"
            BY <2>3, StreamFields DEF Ignores
        <3>2. PICK s : s = TakenIn(e, i, n)
            OBVIOUS
        <3>3. s.err = "live" /\ s.remoteEOF = st[e][i].remoteEOF /\ s.announced = st[e][i].announced
            BY <3>1, <3>2 DEF Stream, TakenIn
        <3> QED
            BY <1>1, <2>3, <3>1, <3>2, <3>3, CountsMove
    <2> QED
        BY <2>1, <2>2, <2>3 DEF DataRead
<1>3. CASE RecvCredit(e)
    <2>1. PICK i \in Ids, n \in Nat : CreditRead(e, i, n)
        BY <1>3, CreditReadStep
    <2>2. CASE Consumed(e, i, st[e][i], FALSE)
        BY <1>1, <2>2, SameMoves
    <2>3. CASE ~Ignores(e, i) /\ Consumed(e, i, GrantedTo(e, i, n), FALSE)
        <3>1. st[e][i] \in Stream /\ st[e][i].err = "live"
            BY <2>3, StreamFields DEF Ignores
        <3>2. PICK s : s = GrantedTo(e, i, n)
            OBVIOUS
        <3>3. s.err = "live" /\ s.remoteEOF = st[e][i].remoteEOF /\ s.announced = st[e][i].announced
            BY <3>1, <3>2 DEF Stream, GrantedTo
        <3> QED
            BY <1>1, <2>3, <3>1, <3>2, <3>3, CountsMove
    <2> QED
        BY <2>1, <2>2, <2>3 DEF CreditRead
<1>4. CASE RecvClose(e)
    <2>1. wire[Peer(e)] # <<>>
        BY <1>4 DEF RecvClose, Reading
    <2>2. PICK i \in Ids : i = Head(wire[Peer(e)]).id
        BY <2>1, FirstFrame
    <2>3. PICK s : s = IF st[e][i].err = "live" THEN HalfClosed(e, i) ELSE st[e][i]
        BY SMTT(30)
    <2>4. Consumed(e, i, s, FALSE)
        BY <1>4, <2>2, <2>3 DEF RecvClose
    <2>7. CloseArrives(e, i)
        <3>1. Peer(e) \in Ends
            BY PeerEnds
        <3>2. wire[Peer(e)] \in Seq(Frames)
            BY <3>1 DEF TypeOK
        <3>3. 1 \in DOMAIN wire[Peer(e)] /\ wire[Peer(e)][1].type = "CLOSE" /\ wire[Peer(e)][1].id = i
            BY <1>4, <2>1, <2>2, <3>2 DEF RecvClose, Reading
        <3> QED
            BY <3>3 DEF CloseArrives
    <2>5. CASE st[e][i].err = "live"
        <3>1. st[e][i] \in Stream
            BY StreamFields
        <3>2. s = [st[e][i] EXCEPT !.remoteEOF = TRUE]
            BY <2>3, <2>5 DEF HalfClosed
        <3>3. s.err = "live" /\ s.remoteEOF = TRUE /\ s.announced = st[e][i].announced
            BY <2>5, <3>1, <3>2 DEF Stream
        <3>4. Moves(e, i, s)
            BY <2>5, <2>7, <3>3 DEF Moves, OpenSent
        <3> QED
            BY <1>1, <2>4, <3>4
    <2>6. CASE st[e][i].err # "live"
        BY <1>1, <2>3, <2>4, <2>6, SameMoves
    <2> QED
        BY <2>5, <2>6
<1> QED
    BY <1>2, <1>3, <1>4

LEMMA OpenReadMoves ==
    ASSUME TypeOK, NEW i \in Ids, NEW s \in Stream, OpenRead(i, s)
    PROVE  Moved
<1>1. "server" \in Ends
    BY DEF Ends
<1>2. SetStream("server", i, s)
    BY DEF OpenRead, Consumed
<1>3. st["server"][i].err = "new" /\ Opened("server", i)
    BY DEF OpenRead, Opened
<1>4. Moves("server", i, s)
    <2>1. CASE s = st["server"][i]
        BY <2>1, SameMoves
    <2>2. CASE s = [Started("server") EXCEPT !.announced = TRUE]
        <3>1. s.err = "live" /\ ~s.remoteEOF
            BY <2>2 DEF Started, NoStream
        <3> QED
            BY <1>3, <3>1 DEF Moves
    <2> QED
        BY <2>1, <2>2 DEF OpenRead
<1> QED
    BY <1>1, <1>2, <1>4, OneMoves

LEMMA GrantMoves ==
    ASSUME TypeOK, NEW e \in Ends, WriteCredit(e)
    PROVE  Moved
<1>1. CASE st' = st
    BY <1>1, NoneMoves
<1>2. ASSUME NEW i \in Ids, Grant(e, i) PROVE Moved
    <2>1. PICK s : SetStream(e, i, s) /\ s = [st[e][i] EXCEPT !.receiveCredit = @ + st[e][i].creditDue, !.creditDue = 0]
        BY <1>2 DEF Grant
    <2>2. st[e][i] \in Stream /\ st[e][i].err = "live"
        BY <1>2, StreamFields DEF Grant, Grantable, Live
    <2>3. s.err = "live" /\ s.remoteEOF = st[e][i].remoteEOF /\ s.announced = st[e][i].announced
        BY <2>1, <2>2 DEF Stream
    <2>4. Moves(e, i, s)
        BY <2>2, <2>3, CountsMove
    <2> QED
        BY <2>1, <2>4, OneMoves
<1> QED
    BY <1>1, <1>2, GrantStep

LEMMA FailMoves ==
    ASSUME TypeOK, NEW e \in Ends, NEW why, Fail(e, why)
    PROVE  Moved
<1> SUFFICES ASSUME NEW f \in Ends, NEW j \in Ids PROVE Moves(f, j, st'[f][j])
    BY DEF Moved
<1>1. st'[f][j] = IF f = e /\ st[f][j].err = "live" THEN Finish(st[f][j], "session") ELSE st[f][j]
    BY FailEffect
<1>2. "session" \in Endings /\ (f = e => Held(f, j))
    BY FailEffect DEF Endings, Held
<1>3. CASE st'[f][j] = st[f][j]
    BY <1>3, SameMoves
<1>4. CASE f = e /\ st[f][j].err = "live" /\ st'[f][j] = Finish(st[f][j], "session")
    BY <1>2, <1>4, FinishMoves
<1> QED
    BY <1>1, <1>3, <1>4

LEMMA MovedNext ==
    ASSUME NoForeign, Conforms, [Next]_vars
    PROVE  Moved
<1> USE DEF Conforms
<1>1. CASE Open
    BY <1>1, OpenMoves
<1>2. CASE OpenExhausted \/ Accept \/ UNCHANGED vars
    BY <1>2, NoneMoves DEF OpenExhausted, Accept, vars
<1>3. CASE RecvOpen
    BY <1>3, OpenReadStep, OpenReadMoves
<1>4. ASSUME NEW e \in Ends, NEW i \in Ids, (\E n : Write(e, i, n)) \/ QueueClose(e, i)
      PROVE  Moved
    BY <1>4, NoneMoves, Zenon DEF Write, QueueClose
<1>5. ASSUME NEW e \in Ends, NEW i \in Ids, Close(e, i) \/ SendFails(e, i)
      PROVE  Moved
    <2>1. CloseStream(e, i) /\ Held(e, i)
        BY <1>5 DEF Close, SendFails, Held, Proper, RequestProper
    <2> QED
        BY <2>1, CloseMoves
<1>6. ASSUME NEW e \in Ends, NEW i \in Ids, Reserve(e, i) \/ Sent(e, i) \/ Consumer(e, i)
      PROVE  Moved
    BY <1>6, ReserveMoves, SentMoves, ReadMoves
<1>7. ASSUME NEW e \in Ends, NEW i \in Ids, Enqueue(e, i)
      PROVE  Moved
    BY <1>7, NoneMoves DEF Enqueue
<1>8. ASSUME NEW e \in Ends, Failing(e)
      PROVE  Moved
    BY <1>8, FailingFails, FailMoves
<1>9. ASSUME NEW e \in Ends, RecvData(e) \/ RecvCredit(e) \/ RecvClose(e)
      PROVE  Moved
    BY <1>9, RecvMoves
<1>10. ASSUME NEW e \in Ends, ReaderCloses(e) \/ Drain(e) \/ IdleCheck(e) \/ WriteControl(e) \/ WriteRequest(e)
       PROVE  Moved
    BY <1>10, NoneMoves DEF ReaderCloses, Drain, IdleCheck, WriteControl, WriteRequest
<1>11. ASSUME NEW e \in Ends, WriteCredit(e)
       PROVE  Moved
    BY <1>11, GrantMoves
<1>12. ASSUME NEW e \in Ends, ForeignFrame(e)
       PROVE  Moved
    BY <1>12 DEF ForeignFrame, NoForeign
<1> QED
    BY <1>1, <1>2, <1>3, <1>4, <1>5, <1>6, <1>7, <1>8, <1>9, <1>10, <1>11, <1>12
    DEF Next, Business, Sender, Reader, Writer, Failing, Ended

LEMMA IdsNext ==
    ASSUME TypeOK, [Next]_vars
    PROVE  (nextID' = nextID \/ Open) /\ (lastRemoteID' = lastRemoteID \/ RecvOpen)
<1>1. ASSUME NEW e, NEW why, Fail(e, why) PROVE UNCHANGED <<nextID, lastRemoteID>>
    BY <1>1 DEF Fail
<1>2. ASSUME NEW e \in Ends, Failing(e) PROVE UNCHANGED <<nextID, lastRemoteID>>
    BY <1>1, <1>2, FailingFails
<1>3. CASE Open
    BY <1>3 DEF Open
<1>4. CASE RecvOpen
    BY <1>4 DEF RecvOpen
<1>5. CASE OpenExhausted \/ Accept \/ UNCHANGED vars
    BY <1>5 DEF OpenExhausted, Accept, vars
<1>6. ASSUME NEW e \in Ends, NEW i \in Ids,
             (\E n : Write(e, i, n)) \/ Close(e, i) \/ Sender(e, i) \/ Consumer(e, i) \/ QueueClose(e, i)
      PROVE  UNCHANGED <<nextID, lastRemoteID>>
    BY <1>6, Zenon DEF Write, Close, Sender, Reserve, Enqueue, Sent, SendFails, Consumer, ReadEOF, Read, QueueClose
<1>7. ASSUME NEW e \in Ends,
             RecvData(e) \/ RecvCredit(e) \/ RecvClose(e) \/ ReaderCloses(e) \/ Drain(e) \/ IdleCheck(e)
                 \/ WriteControl(e) \/ WriteRequest(e) \/ WriteCredit(e) \/ ForeignFrame(e)
      PROVE  UNCHANGED <<nextID, lastRemoteID>>
    BY <1>7, Zenon DEF RecvData, RecvCredit, RecvClose, ReaderCloses, Drain, IdleCheck, WriteControl, WriteRequest,
                WriteCredit, ForeignFrame
<1> QED
    BY <1>2, <1>3, <1>4, <1>5, <1>6, <1>7 DEF Next, Business, Reader, Writer, Failing, Ended

(* IDs stay used, and what the server has seen stays seen.                 *)
LEMMA UsedGrows ==
    ASSUME TypeOK, [Next]_vars
    PROVE  /\ \A j \in Ids : Used(j)' <=> Used(j) \/ (Open /\ j = nextID)
           /\ lastRemoteID' \in Nat /\ lastRemoteID' >= lastRemoteID
<1>1. CASE Open
    <2>1. nextID \in Ids /\ MaxId \in Nat /\ nextID' = (nextID + 1) % (MaxId + 1)
        BY <1>1, NextIdType, SessionAssumption DEF Open
    <2>5. nextID \in 1..MaxId
        BY <2>1 DEF Ids
    <2>7. nextID # 0
        BY <1>1 DEF Open
    <2>6. ASSUME NEW k \in Nat, k <= MaxId PROVE k % (MaxId + 1) = k
        BY <2>1, <2>6
    <2>2. ASSUME nextID = MaxId PROVE \A j \in Ids : Used(j)' <=> Used(j) \/ (Open /\ j = nextID)
        <3>1. nextID' = 0
            <4>1. (MaxId + 1) % (MaxId + 1) = 0
                BY <2>1
            <4> QED
                BY <2>1, <2>2, <4>1
        <3>2. \A j \in Ids : j < nextID \/ j = nextID
            BY <2>1, <2>2 DEF Ids
        <3> QED
            BY <1>1, <3>1, <3>2 DEF Used
    <2>3. ASSUME nextID # MaxId PROVE \A j \in Ids : Used(j)' <=> Used(j) \/ (Open /\ j = nextID)
        <3>1. nextID + 1 \in Nat /\ nextID + 1 <= MaxId
            BY <2>1, <2>3, <2>5
        <3>2. nextID' = nextID + 1 /\ nextID' # 0
            BY <2>1, <2>5, <2>6, <3>1
        <3>3. \A j \in Ids : j \in Nat /\ (j < nextID + 1 <=> j < nextID \/ j = nextID)
            BY <2>1, <2>5 DEF Ids
        <3> QED
            BY <1>1, <2>7, <3>2, <3>3 DEF Used
    <2>4. \A j \in Ids : Used(j)' <=> Used(j) \/ (Open /\ j = nextID)
        BY <2>2, <2>3
    <2>8. lastRemoteID' = lastRemoteID
        BY <1>1 DEF Open
    <2> QED
        BY <2>4, <2>8, LastSame
<1>2. CASE ~Open
    <2>1. nextID' = nextID
        BY <1>2, IdsNext
    <2>2. \A j \in Ids : Used(j)' <=> Used(j)
        BY <2>1 DEF Used
    <2>3. lastRemoteID' \in Nat /\ lastRemoteID' >= lastRemoteID
        <3>1. CASE RecvOpen
            <4>1. wire["client"] # <<>> /\ lastRemoteID' = Head(wire["client"]).id /\ Head(wire["client"]).id > lastRemoteID
                BY <3>1 DEF RecvOpen, Reading, Peer
            <4>2. Head(wire["client"]).id \in Ids
                BY <4>1, FirstFrame DEF Ends, Peer
            <4> QED
                BY <4>1, <4>2, IdsNumbers
        <3> QED
            BY <3>1, IdsNext, LastSame
    <2> QED
        BY <1>2, <2>2, <2>3
<1> QED
    BY <1>1, <1>2

LEMMA ListensFalls ==
    ASSUME NoForeign, Conforms, [Next]_vars, NEW f \in Ends, NEW j \in Ids, Listens(f, j)'
    PROVE  Listens(f, j)
<1>1. Moves(f, j, st'[f][j])
    BY MovedNext DEF Moved
<1>2. lastRemoteID' \in Nat /\ lastRemoteID' >= lastRemoteID /\ lastRemoteID \in Nat /\ j \in Nat /\ nextID \in Nat
    <2>1. nextID \in Nat
        BY SessionAssumption DEF Conforms, TypeOK
    <2> QED
        BY <2>1, UsedGrows, IdsNumbers DEF Conforms
<1>3. CASE st'[f][j].err = "live" /\ ~st'[f][j].remoteEOF
    <2>1. CASE st[f][j].err = "live"
        BY <1>1, <1>3, <2>1 DEF Moves, Listens, Endings
    <2>2. CASE st[f][j].err # "live"
        <3>1. st[f][j].err = "new" /\ Opened(f, j)
            BY <1>1, <1>3, <2>2 DEF Moves, Endings
        <3> QED
            BY <3>1 DEF Opened, Listens
    <2> QED
        BY <2>1, <2>2
<1>4. CASE st'[f][j].err = "new" /\ (f = "server" => j > lastRemoteID')
    <2>1. st[f][j].err = "new"
        BY <1>1, <1>4 DEF Moves, Endings
    <2> QED
        BY <1>2, <1>4, <2>1 DEF Listens
<1> QED
    BY <1>3, <1>4 DEF Listens

LEMMA UnreadNext ==
    ASSUME NoForeign, Conforms, [Next]_vars
    PROVE  UnreadLive'
<1> SUFFICES ASSUME NEW f \in Ends, NEW j \in Ids, st'[f][j].err # "live"
             PROVE  st'[f][j].buffered = 0
    BY DEF UnreadLive
<1>1. Moves(f, j, st'[f][j])
    BY MovedNext DEF Moved
<1>2. st[f][j].err # "live" => st[f][j].buffered = 0
    BY DEF Conforms, UnreadLive
<1> QED
    BY <1>1, <1>2 DEF Moves

(* Only Accept hands a stream to the business of the server.               *)
LEMMA AcceptedNext ==
    ASSUME TypeOK, Proper, [Next]_vars
    PROVE  /\ \A e \in Ends : accepted[e] \subseteq accepted'[e]
           /\ \A i \in accepted'["server"] :
                 i \in accepted["server"] \/ (Accept /\ i = Head(acceptQ) /\ st["server"][i].err = "live")
<1>a. accepted \in [Ends -> SUBSET Ids]
    BY DEF TypeOK
<1>1. CASE accepted' = accepted
    BY <1>1
<1>2. CASE Accept
    <2>1. accepted' = [accepted EXCEPT !["server"] =
                          IF st["server"][Head(acceptQ)].err = "live" THEN @ \union {Head(acceptQ)} ELSE @]
        BY <1>2 DEF Accept
    <2> QED
        BY <1>2, <1>a, <2>1 DEF Ends
<1>3. ASSUME NEW e \in Ends, NEW i \in Ids, Sent(e, i)
      PROVE  \/ accepted' = accepted
             \/ e = "client" /\ accepted' = [accepted EXCEPT !["client"] = @ \union {i}]
    <2>1. snd[e][i].type = "OPEN" => e = "client"
        BY <1>3 DEF Sent, Proper, RequestProper
    <2> QED
        BY <1>3, <2>1 DEF Sent
<1>4. ASSUME NEW e \in Ends, NEW i \in Ids, Sent(e, i)
      PROVE  \/ accepted' = accepted
             \/ accepted'["server"] = accepted["server"] /\ \A f \in Ends : accepted[f] \subseteq accepted'[f]
    <2>1. \/ accepted' = accepted
          \/ accepted' = [accepted EXCEPT !["client"] = @ \union {i}]
        BY <1>3, <1>4
    <2> QED
        BY <1>a, <2>1 DEF Ends
<1>5. ASSUME NEW e, NEW why, Fail(e, why) PROVE accepted' = accepted
    BY <1>5 DEF Fail
<1>6. ASSUME NEW e \in Ends, Failing(e) PROVE accepted' = accepted
    BY <1>5, <1>6, FailingFails
<1>7. ASSUME Open \/ OpenExhausted \/ RecvOpen \/ UNCHANGED vars
      PROVE  accepted' = accepted
    BY <1>7 DEF Open, OpenExhausted, RecvOpen, vars
<1>8. ASSUME NEW e \in Ends, NEW i \in Ids,
             \/ (\E n : Write(e, i, n)) \/ Close(e, i) \/ Consumer(e, i) \/ QueueClose(e, i)
             \/ Reserve(e, i) \/ Enqueue(e, i) \/ SendFails(e, i)
      PROVE  accepted' = accepted
    BY <1>8, Zenon DEF Write, Close, Reserve, Enqueue, SendFails, Consumer, ReadEOF, Read, QueueClose
<1>9. ASSUME NEW e \in Ends,
             RecvData(e) \/ RecvCredit(e) \/ RecvClose(e) \/ ReaderCloses(e) \/ Drain(e) \/ IdleCheck(e)
                 \/ WriteControl(e) \/ WriteRequest(e) \/ WriteCredit(e) \/ ForeignFrame(e)
      PROVE  accepted' = accepted
    BY <1>9, Zenon DEF RecvData, RecvCredit, RecvClose, ReaderCloses, Drain, IdleCheck, WriteControl, WriteRequest,
                WriteCredit, ForeignFrame
<1>10. \/ Accept \/ accepted' = accepted
       \/ \E e \in Ends, i \in Ids : Sent(e, i)
    BY <1>6, <1>7, <1>8, <1>9 DEF Next, Business, Sender, Reader, Writer, Failing, Ended
<1> QED
    BY <1>1, <1>2, <1>4, <1>10

LEMMA UntouchedNext ==
    ASSUME NoForeign, Conforms, [Next]_vars
    PROVE  Untouched'
<1>1. "client" \in Ends /\ "server" \in Ends
    BY DEF Ends
<1>2. \A f \in Ends, j \in Ids : Moves(f, j, st'[f][j])
    BY MovedNext DEF Moved
<1>3. /\ \A j \in Ids : Used(j)' <=> Used(j) \/ (Open /\ j = nextID)
      /\ lastRemoteID' \in Nat /\ lastRemoteID' >= lastRemoteID /\ lastRemoteID \in Nat
      /\ \A j \in Ids : j \in Nat
    BY UsedGrows, IdsNumbers DEF Conforms
<1>4. ASSUME NEW i \in Ids PROVE Used(i)' <=> st'["client"][i].err # "new"
    <2>1. Used(i) <=> st["client"][i].err # "new"
        BY DEF Conforms, Untouched
    <2>2. Open /\ i = nextID => st'["client"][i].err = "live"
        <3> SUFFICES ASSUME Open, i = nextID PROVE st'["client"][i].err = "live"
            OBVIOUS
        <3>1. SetStream("client", i, Started("client")) /\ Started("client").err = "live"
            BY DEF Open, Started, NoStream
        <3> QED
            BY <1>1, <3>1, SetStreamElsewhere DEF Conforms
    <2>3. Moves("client", i, st'["client"][i])
        BY <1>1, <1>2
    <2>4. CASE Open /\ i = nextID
        BY <1>3, <2>2, <2>4
    <2>5. CASE ~(Open /\ i = nextID)
        BY <1>3, <2>1, <2>3, <2>5 DEF Moves, Opened, Endings
    <2> QED
        BY <2>4, <2>5
<1>5. ASSUME NEW i \in Ids, st'["server"][i].err # "new" PROVE i <= lastRemoteID'
    <2>1. Moves("server", i, st'["server"][i])
        BY <1>1, <1>2
    <2>2. st["server"][i].err # "new" => i <= lastRemoteID
        BY DEF Conforms, Untouched
    <2>3. CASE st["server"][i].err # "new"
        BY <1>3, <2>2, <2>3
    <2>4. CASE st["server"][i].err = "new"
        <3>1. Opened("server", i)
            BY <1>5, <2>1, <2>4 DEF Moves
        <3> QED
            BY <1>3, <3>1 DEF Opened
    <2> QED
        BY <2>3, <2>4
<1>6. ASSUME NEW i \in Ids, i <= lastRemoteID' PROVE Used(i)'
    <2>1. CASE lastRemoteID' = lastRemoteID
        BY <1>3, <1>6, <2>1 DEF Conforms, Untouched
    <2>2. CASE RecvOpen
        <3>1. wire["client"] # <<>> /\ Head(wire["client"]).type = "OPEN" /\ lastRemoteID' = Head(wire["client"]).id
            BY <2>2 DEF RecvOpen, Reading, Peer
        <3>2. wire["client"] \in Seq(Frames)
            BY <1>1 DEF Conforms, TypeOK
        <3>3. 1 \in OpenFrames(wire["client"]) /\ Head(wire["client"]) = wire["client"][1]
            BY <3>1, <3>2 DEF OpenFrames
        <3>4. Used(lastRemoteID')
            BY <3>1, <3>3 DEF Conforms, IdOrder, Ahead
        <3>5. nextID \in Nat /\ i \in Nat
            BY <1>3, SessionAssumption DEF Conforms, TypeOK
        <3>6. Used(i)
            BY <1>3, <1>6, <3>4, <3>5 DEF Used
        <3> QED
            BY <1>3, <3>6
    <2> QED
        BY <2>1, <2>2, IdsNext DEF Conforms
<1>7. ASSUME NEW f \in Ends, NEW j \in Ids PROVE Fresh(f, j)'
    <2> SUFFICES ASSUME st'[f][j].err = "new"
                 PROVE  st'[f][j].receiveCredit = 0 /\ st'[f][j].sendCredit = 0 /\ st'[f][j].remoteWindow = 0
                        /\ st'[f][j].buffered = 0
        BY DEF Fresh
    <2>1. Moves(f, j, st'[f][j])
        BY <1>2
    <2>2. st[f][j].err = "new" /\ st'[f][j] = st[f][j]
        BY <2>1 DEF Moves, Endings
    <2> QED
        BY <2>2 DEF Conforms, Untouched, Fresh
<1>8. ASSUME NEW i \in accepted'["server"] PROVE st'["server"][i].err # "new"
    <2>1. i \in Ids
        BY <1>1, <1>8, NextType DEF Conforms, TypeOK
    <2>2. st["server"][i].err # "new"
        BY <1>8, AcceptedNext DEF Conforms, Untouched
    <2> QED
        BY <1>1, <1>2, <2>1, <2>2 DEF Moves, Endings
<1> QED
    BY <1>4, <1>5, <1>6, <1>7, <1>8 DEF Untouched

-----------------------------------------------------------------------------
(* What a step may do to the call of Open or Write on a stream.            *)

OpenRequest == [Idle EXCEPT !.pc = "queue", !.type = "OPEN"]

SameFrame(r, t) == t.type = r.type /\ t.n = r.n /\ t.left = r.left

Starts(f, j, t) ==
    /\ t.pc = "credit" /\ t.type = "DATA" /\ t.left > 0 /\ t.n = 0 /\ t.result = "none"
    /\ st[f][j].err # "new" /\ (f = "server" => j \in accepted[f])
    /\ snd[f][j].pc = "idle" \/ (snd[f][j].pc = "wait" /\ snd[f][j].result = "ok")

Asks(f, j, t) ==
    \/ t = snd[f][j]
    \/ t = Idle /\ (st'[f][j].err # "live" \/ (snd[f][j].pc = "wait" /\ snd[f][j].result = "ok"))
    \/ Open /\ f = "client" /\ j = nextID /\ t = OpenRequest
    \/ Starts(f, j, t)
    \/ /\ snd[f][j].pc = "credit" /\ t.pc = "queue" /\ t.type = snd[f][j].type /\ t.n > 0
       /\ t.result = snd[f][j].result
    \/ /\ Enqueue(f, j) /\ snd[f][j].pc = "queue" /\ t.pc = "wait" /\ SameFrame(snd[f][j], t)
       /\ t.result = snd[f][j].result
    \/ /\ WriteRequest(f) /\ j = Head(writes[f]).id /\ snd[f][j].pc = "wait" /\ t.pc = "wait" /\ SameFrame(snd[f][j], t)
       /\ \/ t.result = "err"
          \/ t.result = "ok" /\ OnWire(f, Head(writes[f])) /\ st[f][j].err = "live" /\ ~WriteError(f, j)

Asked == \A f \in Ends, j \in Ids : Asks(f, j, snd'[f][j])

LEMMA OneAsks ==
    ASSUME TypeOK, NEW e \in Ends, NEW i \in Ids, NEW r, SetRequest(e, i, r), Asks(e, i, r)
    PROVE  Asked
<1> SUFFICES ASSUME NEW f \in Ends, NEW j \in Ids PROVE Asks(f, j, snd'[f][j])
    BY DEF Asked
<1>1. CASE f = e /\ j = i
    BY <1>1, SndElsewhere
<1>2. CASE f # e \/ j # i
    BY <1>2, SndElsewhere DEF Asks
<1> QED
    BY <1>1, <1>2

LEMMA NoneAsks == snd' = snd => Asked
BY DEF Asked, Asks

LEMMA OpenAsks ==
    ASSUME TypeOK, Open
    PROVE  Asked
<1>1. "client" \in Ends /\ nextID \in Ids
    BY NextIdType
<1>2. SetRequest("client", nextID, OpenRequest)
    BY DEF Open, SetRequest, OpenRequest
<1>3. Asks("client", nextID, OpenRequest)
    BY DEF Asks
<1> QED
    BY <1>1, <1>2, <1>3, OneAsks

LEMMA WriteAsks ==
    ASSUME TypeOK, NEW e \in Ends, NEW i \in Ids, NEW n \in 1..MaxBytes[e], Write(e, i, n)
    PROVE  Asked
<1>1. PICK r : SetRequest(e, i, r) /\ r = [Idle EXCEPT !.pc = "credit", !.left = n]
    BY DEF Write, SetRequest
<1>2. n > 0
    BY SessionAssumption
<1>3. r.pc = "credit" /\ r.type = "DATA" /\ r.left = n /\ r.n = 0 /\ r.result = "none"
    BY <1>1 DEF Idle
<1>4. Starts(e, i, r)
    BY <1>2, <1>3 DEF Write, Starts
<1>5. Asks(e, i, r)
    BY <1>4 DEF Asks
<1> QED
    BY <1>1, <1>5, OneAsks

LEMMA ReserveAsks ==
    ASSUME TypeOK, Proper, NEW e \in Ends, NEW i \in Ids, Reserve(e, i)
    PROVE  Asked
<1>1. PICK r : SetRequest(e, i, r) /\ r = Part(e, i, Chunk(e, i))
    BY DEF Reserve, SetRequest
<1>2. snd[e][i].pc = "credit" /\ st[e][i].sendCredit > 0 /\ st[e][i].sendCredit \in Nat
    BY StreamFields DEF Reserve
<1>3. snd[e][i] \in Request /\ snd[e][i].left \in Nat /\ snd[e][i].left > 0
    BY <1>2, RequestFields DEF Proper, RequestProper
<1>4. Chunk(e, i) > 0
    BY <1>2, <1>3 DEF Chunk, Smaller
<1>5. r.pc = "queue" /\ r.type = snd[e][i].type /\ r.n = Chunk(e, i) /\ r.result = snd[e][i].result
    BY <1>1, <1>3 DEF Part, Request
<1>6. Asks(e, i, r)
    BY <1>2, <1>4, <1>5 DEF Asks
<1> QED
    BY <1>1, <1>6, OneAsks

LEMMA EnqueueAsks ==
    ASSUME TypeOK, NEW e \in Ends, NEW i \in Ids, Enqueue(e, i)
    PROVE  Asked
<1>1. PICK r : r = [snd[e][i] EXCEPT !.pc = "wait"]
    OBVIOUS
<1>2. snd[e][i] \in Request /\ snd[e][i].pc = "queue"
    BY RequestFields DEF Enqueue
<1>3. SetRequest(e, i, r)
    BY <1>1 DEF Enqueue, SetRequest
<1>4. r.pc = "wait" /\ SameFrame(snd[e][i], r) /\ r.result = snd[e][i].result
    BY <1>1, <1>2 DEF SameFrame, Request
<1>5. Asks(e, i, r)
    BY <1>2, <1>4 DEF Asks
<1> QED
    BY <1>3, <1>5, OneAsks

LEMMA SentAsks ==
    ASSUME TypeOK, Proper, NEW e \in Ends, NEW i \in Ids, Sent(e, i)
    PROVE  Asked
<1>1. PICK r : /\ SetRequest(e, i, r)
               /\ r = IF snd[e][i].left > 0 THEN [Idle EXCEPT !.pc = "credit", !.left = snd[e][i].left] ELSE Idle
    BY Zenon DEF Sent, SetRequest
<1>2. snd[e][i].pc = "wait" /\ snd[e][i].result = "ok"
    BY DEF Sent
<1>3. st[e][i].err # "new" /\ (e = "server" => i \in accepted[e])
    BY <1>2 DEF Proper, RequestProper
<1>4. CASE snd[e][i].left > 0
    <2>1. r.pc = "credit" /\ r.type = "DATA" /\ r.left = snd[e][i].left /\ r.n = 0 /\ r.result = "none"
        BY <1>1, <1>4 DEF Idle
    <2>2. Starts(e, i, r)
        BY <1>2, <1>3, <1>4, <2>1 DEF Starts
    <2>3. Asks(e, i, r)
        BY <2>2 DEF Asks
    <2> QED
        BY <1>1, <2>3, OneAsks
<1>5. CASE ~(snd[e][i].left > 0)
    <2>1. Asks(e, i, r)
        BY <1>1, <1>2, <1>5 DEF Asks
    <2> QED
        BY <1>1, <2>1, OneAsks
<1> QED
    BY <1>4, <1>5

LEMMA SendFailsAsks ==
    ASSUME TypeOK, NEW e \in Ends, NEW i \in Ids, SendFails(e, i)
    PROVE  Asked
<1>1. SetRequest(e, i, Idle) /\ CloseStream(e, i)
    BY DEF SendFails, SetRequest
<1>2. st'[e][i].err # "live"
    <2>1. IF st[e][i].err = "live"
          THEN st'[e][i] = Finish(st[e][i], "closed") ELSE st'[e][i] = st[e][i]
        BY <1>1, CloseStreamEffect
    <2>2. "closed" \in Finished /\ st[e][i] \in Stream
        BY StreamFields DEF Finished
    <2> QED
        BY <2>1, <2>2, FinishFields
<1>3. Asks(e, i, Idle)
    BY <1>2 DEF Asks
<1> QED
    BY <1>1, <1>3, OneAsks

LEMMA FailAsks ==
    ASSUME TypeOK, NEW e \in Ends, NEW why, Fail(e, why)
    PROVE  Asked
<1> SUFFICES ASSUME NEW f \in Ends, NEW j \in Ids PROVE Asks(f, j, snd'[f][j])
    BY DEF Asked
<1>1. /\ st'[f][j] = IF f = e /\ st[f][j].err = "live" THEN Finish(st[f][j], "session") ELSE st[f][j]
      /\ snd'[f][j] = IF f = e THEN Idle ELSE snd[f][j]
    BY FailEffect
<1>2. f = e => st'[f][j].err # "live"
    <2>1. "session" \in Finished /\ st[f][j] \in Stream
        BY StreamFields DEF Finished
    <2> QED
        BY <1>1, <2>1, FinishFields
<1> QED
    BY <1>1, <1>2 DEF Asks

LEMMA WriteRequestAsks ==
    ASSUME TypeOK, Proper, NEW e \in Ends, WriteRequest(e)
    PROVE  Asked
<1> SUFFICES ASSUME NEW f \in Ends, NEW j \in Ids PROVE Asks(f, j, snd'[f][j])
    BY DEF Asked
<1>1. writes[e] # <<>> /\ writes[e] \in Seq(Frames)
    BY DEF TypeOK, WriteRequest
<1>2. Head(writes[e]) \in Frames
    BY <1>1, HeadTail
<1>3. PICK i \in Ids : i = Head(writes[e]).id
    BY <1>2 DEF Frames
<1>4. \/ Report(e, i, "err")
      \/ ~WriteError(e, i) /\ Report(e, i, "ok") /\ OnWire(e, Head(writes[e]))
    BY <1>3, Zenon DEF WriteRequest
<1>5. CASE Report(e, i, "err")
    <2>1. \/ snd'[f][j] = snd[f][j]
          \/ /\ f = e /\ j = i /\ snd[f][j].pc = "wait" /\ snd'[f][j].pc = "wait"
             /\ snd'[f][j].type = snd[f][j].type /\ snd'[f][j].n = snd[f][j].n
             /\ snd'[f][j].left = snd[f][j].left /\ snd'[f][j].result = "err"
        BY <1>5, ReportEffect
    <2> QED
        BY <1>3, <2>1, Zenon DEF Asks, SameFrame
<1>6. CASE ~WriteError(e, i) /\ Report(e, i, "ok") /\ OnWire(e, Head(writes[e]))
    <2>1. \/ snd'[f][j] = snd[f][j]
          \/ /\ f = e /\ j = i /\ snd[f][j].pc = "wait" /\ snd'[f][j].pc = "wait"
             /\ snd'[f][j].type = snd[f][j].type /\ snd'[f][j].n = snd[f][j].n
             /\ snd'[f][j].left = snd[f][j].left /\ snd'[f][j].result = "ok"
        BY <1>6, ReportEffect
    <2>2. st[e][i].err = "live"
        BY <1>6 DEF WriteError
    <2> QED
        BY <1>3, <1>6, <2>1, <2>2, Zenon DEF Asks, SameFrame
<1> QED
    BY <1>4, <1>5, <1>6

(* The steps that touch the requests and their queue.                      *)
Sends ==
    \/ Open
    \/ \E e \in Ends, i \in Ids : \/ \E n \in 1..MaxBytes[e] : Write(e, i, n)
                                  \/ Reserve(e, i) \/ Enqueue(e, i) \/ Sent(e, i) \/ SendFails(e, i)
    \/ \E e \in Ends : WriteRequest(e) \/ \E why : Fail(e, why)

LEMMA SendsNext ==
    ASSUME NoForeign, [Next]_vars
    PROVE  Sends \/ UNCHANGED <<snd, writes>>
<1>1. ASSUME NEW e \in Ends, Failing(e) PROVE Sends
    BY <1>1, FailingFails DEF Sends
<1>2. ASSUME OpenExhausted \/ Accept \/ RecvOpen \/ UNCHANGED vars
      PROVE  UNCHANGED <<snd, writes>>
    BY <1>2 DEF OpenExhausted, Accept, RecvOpen, vars, queues
<1>3. ASSUME NEW e \in Ends, NEW i \in Ids, Close(e, i) \/ Consumer(e, i) \/ QueueClose(e, i)
      PROVE  UNCHANGED <<snd, writes>>
    BY <1>3 DEF Close, Consumer, ReadEOF, Read, QueueClose, queues
<1>4. ASSUME NEW e \in Ends,
             RecvData(e) \/ RecvCredit(e) \/ RecvClose(e) \/ ReaderCloses(e) \/ Drain(e) \/ IdleCheck(e)
                 \/ WriteControl(e) \/ WriteCredit(e)
      PROVE  UNCHANGED <<snd, writes>>
    BY <1>4, Zenon DEF RecvData, RecvCredit, RecvClose, ReaderCloses, Drain, IdleCheck, WriteControl, WriteCredit, queues
<1>5. ASSUME NEW e \in Ends, ForeignFrame(e) PROVE FALSE
    BY <1>5 DEF ForeignFrame, NoForeign
<1> QED
    BY <1>1, <1>2, <1>3, <1>4, <1>5, Zenon DEF Sends, Next, Business, Sender, Reader, Writer, Failing, Ended

LEMMA AskedNext ==
    ASSUME NoForeign, Conforms, [Next]_vars
    PROVE  Asked
BY SendsNext, NoneAsks, OpenAsks, WriteAsks, ReserveAsks, EnqueueAsks, SentAsks, SendFailsAsks, WriteRequestAsks, FailAsks
DEF Sends, Conforms

(* The steps that touch the wire: a frame is read, or written.             *)
TakesOff(e) ==
    /\ wire[Peer(e)] # <<>> /\ wire' = [wire EXCEPT ![Peer(e)] = Tail(@)]
    /\ IF Head(wire[Peer(e)]).type = "OPEN"
       THEN e = "server" /\ lastRemoteID' = Head(wire[Peer(e)]).id ELSE lastRemoteID' = lastRemoteID
    /\ Head(wire[Peer(e)]).type = "DATA" => RecvData(e)
    /\ UNCHANGED <<snd, writes, nextID>>

PutsOn(e, F) ==
    /\ OnWire(e, F) /\ UNCHANGED <<lastRemoteID, nextID>>
    /\ \/ F.type = "CLOSE" /\ WriteControl(e) /\ (\E k \in DOMAIN controls[e] : controls[e][k] = F.id)
          /\ UNCHANGED <<snd, writes>>
       \/ F.type = "CREDIT" /\ Grant(e, F.id) /\ F.n > 0 /\ UNCHANGED <<snd, writes>>
       \/ /\ WriteRequest(e) /\ writes[e] # <<>> /\ F = Head(writes[e]) /\ writes' = [writes EXCEPT ![e] = Tail(@)]
          /\ ~WriteError(e, F.id)

Carries ==
    \/ \E e \in Ends : TakesOff(e)
    \/ \E e \in Ends, F \in Frames : PutsOn(e, F)

LEMMA RecvTakes ==
    ASSUME NEW e \in Ends, RecvData(e) \/ RecvCredit(e) \/ RecvClose(e)
    PROVE  TakesOff(e)
<1>1. /\ wire[Peer(e)] # <<>> /\ Head(wire[Peer(e)]).type # "OPEN"
      /\ UNCHANGED <<snd, writes, nextID, lastRemoteID>>
    BY DEF RecvData, RecvCredit, RecvClose, Reading
<1>2. wire' = [wire EXCEPT ![Peer(e)] = Tail(@)]
    <2>1. CASE RecvData(e)
        BY <2>1 DEF RecvData, Consumed
    <2>2. CASE RecvCredit(e)
        BY <2>2, SMTT(30) DEF RecvCredit, Consumed
    <2>3. CASE RecvClose(e)
        BY <2>3, SMTT(30) DEF RecvClose, Consumed
    <2> QED
        BY <2>1, <2>2, <2>3
<1>3. Head(wire[Peer(e)]).type = "DATA" => RecvData(e)
    BY DEF RecvCredit, RecvClose, Reading
<1> QED
    BY <1>1, <1>2, <1>3, SMTT(30) DEF TakesOff

LEMMA RecvOpenTakes ==
    ASSUME RecvOpen
    PROVE  TakesOff("server")
<1>1. Peer("server") = "client"
    BY DEF Peer
<1>2. /\ wire["client"] # <<>> /\ Head(wire["client"]).type = "OPEN" /\ lastRemoteID' = Head(wire["client"]).id
      /\ UNCHANGED <<snd, writes, nextID>>
    BY <1>1, SMTT(30) DEF RecvOpen, Reading
<1>3. wire' = [wire EXCEPT !["client"] = Tail(@)]
    BY <1>1 DEF RecvOpen, Consumed
<1> QED
    BY <1>1, <1>2, <1>3 DEF TakesOff

LEMMA ControlPuts ==
    ASSUME TypeOK, NEW e \in Ends, WriteControl(e)
    PROVE  \E F \in Frames : PutsOn(e, F)
<1>1. controls[e] # <<>> /\ controls[e] \in Seq(Ids)
    BY DEF WriteControl, TypeOK
<1>2. PICK i \in Ids : i = Head(controls[e])
    BY <1>1, HeadTail
<1>3. 1 \in DOMAIN controls[e] /\ controls[e][1] = i
    BY <1>1, <1>2
<1>4. PICK F : F = CloseFrame(i)
    OBVIOUS
<1>5. F \in Frames /\ F.type = "CLOSE" /\ F.id = i
    BY <1>4, FrameFields DEF CloseFrame
<1>6. OnWire(e, F) /\ UNCHANGED <<snd, writes, lastRemoteID, nextID>>
    BY <1>2, <1>4 DEF WriteControl
<1> QED
    BY <1>3, <1>5, <1>6 DEF PutsOn

LEMMA GrantPuts ==
    ASSUME TypeOK, NEW e \in Ends, WriteCredit(e)
    PROVE  wire' = wire \/ \E F \in Frames : PutsOn(e, F)
<1>1. ASSUME NEW i \in Ids, Grant(e, i) PROVE \E F \in Frames : PutsOn(e, F)
    <2>1. st[e][i].creditDue \in Nat /\ st[e][i].creditDue > 0
        BY <1>1, StreamFields DEF Grant, Grantable
    <2>2. PICK F : F = Frame("CREDIT", i, st[e][i].creditDue)
        OBVIOUS
    <2>3. F \in Frames /\ F.type = "CREDIT" /\ F.id = i /\ F.n > 0
        BY <2>1, <2>2, FrameFields
    <2>4. OnWire(e, F) /\ UNCHANGED <<snd, writes, lastRemoteID, nextID>>
        BY <1>1, <2>2 DEF Grant
    <2> QED
        BY <1>1, <2>3, <2>4 DEF PutsOn
<1> QED
    BY <1>1, GrantStep

LEMMA RequestPuts ==
    ASSUME TypeOK, NEW e \in Ends, WriteRequest(e)
    PROVE  wire' = wire \/ \E F \in Frames : PutsOn(e, F)
<1>1. writes[e] # <<>> /\ writes[e] \in Seq(Frames) /\ err[e] = "none"
    BY DEF TypeOK, WriteRequest, Turn
<1>2. PICK F \in Frames : F = Head(writes[e])
    BY <1>1, HeadTail
<1>3. UNCHANGED <<lastRemoteID, nextID>> /\ writes' = [writes EXCEPT ![e] = Tail(@)]
    BY DEF WriteRequest
<1>4. wire' = wire \/ (~WriteError(e, F.id) /\ OnWire(e, F))
    BY <1>2, Zenon DEF WriteRequest
<1> QED
    BY <1>1, <1>2, <1>3, <1>4 DEF PutsOn

LEMMA CarriesNext ==
    ASSUME NoForeign, TypeOK, [Next]_vars
    PROVE  Carries \/ UNCHANGED wire
<1>1. ASSUME NEW e \in Ends, Failing(e) PROVE UNCHANGED wire
    BY <1>1, FailingFails DEF Fail
<1>2. ASSUME Open \/ OpenExhausted \/ Accept \/ UNCHANGED vars
      PROVE  UNCHANGED wire
    BY <1>2 DEF Open, OpenExhausted, Accept, vars, queues
<1>3. ASSUME NEW e \in Ends, NEW i \in Ids,
             \/ Close(e, i) \/ Sender(e, i) \/ Consumer(e, i) \/ QueueClose(e, i)
             \/ \E n \in 1..MaxBytes[e] : Write(e, i, n)
      PROVE  UNCHANGED wire
    BY <1>3, Zenon DEF Close, Sender, Reserve, Enqueue, Sent, SendFails, Consumer, ReadEOF, Read, QueueClose, Write, queues
<1>4. ASSUME NEW e \in Ends, ReaderCloses(e) \/ Drain(e) \/ IdleCheck(e)
      PROVE  UNCHANGED wire
    BY <1>4 DEF ReaderCloses, Drain, IdleCheck, queues
<1>5. ASSUME NEW e \in Ends, ForeignFrame(e) PROVE FALSE
    BY <1>5 DEF ForeignFrame, NoForeign
<1>6. ASSUME NEW e \in Ends, RecvData(e) \/ RecvCredit(e) \/ RecvClose(e) PROVE Carries
    BY <1>6, RecvTakes DEF Carries
<1>7. RecvOpen => Carries
    BY RecvOpenTakes DEF Carries, Ends
<1>8. ASSUME NEW e \in Ends, WriteControl(e) \/ WriteCredit(e) \/ WriteRequest(e) PROVE Carries \/ UNCHANGED wire
    BY <1>8, ControlPuts, GrantPuts, RequestPuts DEF Carries
<1> QED
    BY <1>1, <1>2, <1>3, <1>4, <1>5, <1>6, <1>7, <1>8, Zenon DEF Next, Business, Reader, Writer, Failing, Ended

-----------------------------------------------------------------------------
(* The frames after a step.                                                *)

LEMMA PutElements ==
    ASSUME TypeOK, NEW e \in Ends, NEW F \in Frames, OnWire(e, F), NEW f \in Ends, NEW k \in DOMAIN wire'[f]
    PROVE  \/ k \in DOMAIN wire[f] /\ wire'[f][k] = wire[f][k]
           \/ f = e /\ k = Len(wire[e]) + 1 /\ wire'[f][k] = F
<1>1. wire[f] \in Seq(Frames) /\ wire'[f] = IF f = e THEN Append(wire[f], F) ELSE wire[f]
    BY DEF TypeOK, OnWire
<1>2. CASE f # e
    BY <1>1, <1>2
<1>3. CASE f = e
    <2>1. k \in DOMAIN Append(wire[f], F) /\ wire'[f] = Append(wire[f], F)
        BY <1>1, <1>3
    <2> QED
        BY <1>1, <1>3, <2>1, AppendElements
<1> QED
    BY <1>2, <1>3

LEMMA TakenElements ==
    ASSUME TypeOK, NEW e \in Ends, TakesOff(e), NEW f \in Ends, NEW k \in DOMAIN wire'[f]
    PROVE  \/ f # Peer(e) /\ wire'[f] = wire[f]
           \/ f = Peer(e) /\ k \in Nat \ {0} /\ k + 1 \in DOMAIN wire[f] /\ wire'[f][k] = wire[f][k + 1]
<1>1. wire[f] \in Seq(Frames) /\ wire'[f] = IF f = Peer(e) THEN Tail(wire[f]) ELSE wire[f]
    BY DEF TypeOK, TakesOff
<1>2. CASE f # Peer(e)
    BY <1>1, <1>2
<1>3. CASE f = Peer(e)
    <2>1. k \in DOMAIN Tail(wire[f]) /\ wire'[f] = Tail(wire[f]) /\ wire[f] # <<>>
        BY <1>1, <1>3 DEF TakesOff
    <2> QED
        BY <1>1, <1>3, <2>1, TailElements
<1> QED
    BY <1>2, <1>3

QueuedFrame(e, i) == Frame(snd[e][i].type, i, snd[e][i].n)

(* What is in the queue of requests after a step.                          *)
Queues(f) ==
    \/ writes'[f] = writes[f]
    \/ writes'[f] = <<>>
    \/ WriteRequest(f) /\ writes[f] # <<>> /\ writes'[f] = Tail(writes[f])
    \/ \E i \in Ids : /\ Enqueue(f, i) /\ writes'[f] = Append(writes[f], QueuedFrame(f, i))
                      /\ QueuedFrame(f, i) \in Frames /\ QueuedFrame(f, i).id = i
                      /\ QueuedFrame(f, i).type = snd[f][i].type /\ QueuedFrame(f, i).n = snd[f][i].n

LEMMA QueuesNext ==
    ASSUME NoForeign, TypeOK, [Next]_vars, NEW f \in Ends
    PROVE  Queues(f)
<1>1. CASE writes' = writes
    BY <1>1 DEF Queues
<1>2. ASSUME NEW e \in Ends, NEW i \in Ids, Enqueue(e, i) PROVE Queues(f)
    <2>1. writes' = [writes EXCEPT ![e] = Append(@, QueuedFrame(e, i))]
        BY <1>2 DEF Enqueue, QueuedFrame
    <2>2. /\ QueuedFrame(e, i) \in Frames /\ QueuedFrame(e, i).id = i
          /\ QueuedFrame(e, i).type = snd[e][i].type /\ QueuedFrame(e, i).n = snd[e][i].n
        <3>1. snd[e][i].type \in {"OPEN", "CLOSE", "DATA", "CREDIT", "BAD"} /\ snd[e][i].n \in Nat
            BY RequestFields
        <3> QED
            BY <3>1, FrameFields DEF QueuedFrame
    <2>3. writes'[f] = IF f = e THEN Append(writes[f], QueuedFrame(e, i)) ELSE writes[f]
        BY <2>1 DEF TypeOK
    <2> QED
        BY <1>2, <2>2, <2>3, Zenon DEF Queues
<1>3. ASSUME NEW e \in Ends, WriteRequest(e) PROVE Queues(f)
    <2>1. writes' = [writes EXCEPT ![e] = Tail(@)] /\ writes[e] # <<>>
        BY <1>3 DEF WriteRequest
    <2>2. writes'[f] = IF f = e THEN Tail(writes[f]) ELSE writes[f]
        BY <2>1 DEF TypeOK
    <2> QED
        BY <1>3, <2>1, <2>2 DEF Queues
<1>4. ASSUME NEW e \in Ends, NEW why, Fail(e, why) PROVE Queues(f)
    <2>1. writes'[f] = IF f = e THEN <<>> ELSE writes[f]
        BY <1>4, FailEffect
    <2> QED
        BY <2>1 DEF Queues
<1>5. ASSUME NEW e \in Ends, NEW i \in Ids, (\E n \in 1..MaxBytes[e] : Write(e, i, n)) \/ Reserve(e, i) \/ Sent(e, i)
                                            \/ SendFails(e, i)
      PROVE  writes' = writes
    BY <1>5, Zenon DEF Write, Reserve, Sent, SendFails, queues
<1>6. Open => writes' = writes
    BY DEF Open, queues
<1> QED
    BY <1>1, <1>2, <1>3, <1>4, <1>5, <1>6, SendsNext, Zenon DEF Sends

LEMMA WriteProperNext ==
    ASSUME NoForeign, Conforms, [Next]_vars, NEW f \in Ends, NEW k \in DOMAIN writes'[f]
    PROVE  WriteProper(f, writes'[f][k])
<1> USE DEF Conforms
<1>1. writes[f] \in Seq(Frames) /\ \A m \in DOMAIN writes[f] : WriteProper(f, writes[f][m])
    BY DEF TypeOK, Proper
<1>2. CASE writes'[f] = writes[f]
    BY <1>1, <1>2
<1>3. CASE writes'[f] = <<>>
    BY <1>3
<1>4. CASE writes[f] # <<>> /\ writes'[f] = Tail(writes[f])
    BY <1>1, <1>4, TailElements
<1>5. ASSUME NEW i \in Ids, Enqueue(f, i), writes'[f] = Append(writes[f], QueuedFrame(f, i)),
             QueuedFrame(f, i) \in Frames,
             QueuedFrame(f, i).type = snd[f][i].type, QueuedFrame(f, i).n = snd[f][i].n
      PROVE  WriteProper(f, writes'[f][k])
    <2>1. snd[f][i].pc = "queue" /\ RequestProper(f, i)
        BY <1>5 DEF Enqueue, Proper
    <2>2. WriteProper(f, QueuedFrame(f, i))
        BY <1>5, <2>1, RequestFields DEF WriteProper, RequestProper
    <2>3. writes'[f][k] = QueuedFrame(f, i) \/ (k \in DOMAIN writes[f] /\ writes'[f][k] = writes[f][k])
        BY <1>1, <1>5, AppendElements
    <2> QED
        BY <1>1, <2>2, <2>3
<1> QED
    BY <1>2, <1>3, <1>4, <1>5, QueuesNext DEF Queues

LEMMA WireProperNext ==
    ASSUME NoForeign, Conforms, [Next]_vars, NEW f \in Ends, NEW k \in DOMAIN wire'[f]
    PROVE  WireProper(f, wire'[f][k])
<1> USE DEF Conforms
<1>1. \A m \in DOMAIN wire[f] : WireProper(f, wire[f][m])
    BY DEF Proper
<1>2. CASE wire' = wire
    BY <1>1, <1>2
<1>3. ASSUME NEW e \in Ends, TakesOff(e) PROVE WireProper(f, wire'[f][k])
    BY <1>1, <1>3, TakenElements
<1>4. ASSUME NEW e \in Ends, NEW F \in Frames, PutsOn(e, F) PROVE WireProper(f, wire'[f][k])
    <2>1. WireProper(e, F)
        <3>1. CASE F.type \in {"CLOSE", "CREDIT"} /\ (F.type = "CREDIT" => F.n > 0)
            BY <3>1 DEF WireProper
        <3>2. CASE writes[e] # <<>> /\ F = Head(writes[e])
            <4>1. writes[e] \in Seq(Frames)
                BY DEF TypeOK
            <4>2. 1 \in DOMAIN writes[e] /\ F = writes[e][1]
                BY <3>2, <4>1
            <4>3. WriteProper(e, F)
                BY <4>2 DEF Proper
            <4> QED
                BY <4>3 DEF WriteProper, WireProper
        <3> QED
            BY <1>4, <3>1, <3>2 DEF PutsOn
    <2>2. OnWire(e, F)
        BY <1>4 DEF PutsOn
    <2> QED
        BY <1>1, <2>1, <2>2, PutElements
<1> QED
    BY <1>2, <1>3, <1>4, CarriesNext DEF Carries

LEMMA RequestProperNext ==
    ASSUME NoForeign, Conforms, [Next]_vars, NEW f \in Ends, NEW j \in Ids
    PROVE  RequestProper(f, j)'
<1> USE DEF Conforms
<1>1. PICK t : t = snd'[f][j]
    OBVIOUS
<1>2. Asks(f, j, t) /\ Moves(f, j, st'[f][j]) /\ accepted[f] \subseteq accepted'[f]
    BY <1>1, AskedNext, MovedNext, AcceptedNext DEF Asked, Moved
<1>3. RequestProper(f, j)
    BY DEF Proper
<1>4. st[f][j].err # "new" => st'[f][j].err # "new"
    BY <1>2 DEF Moves, Endings
<1>5. CASE t = snd[f][j]
    BY <1>1, <1>2, <1>3, <1>4, <1>5 DEF RequestProper
<1>6. CASE t = Idle
    BY <1>1, <1>6, IdleFields DEF RequestProper
<1>7. CASE Open /\ f = "client" /\ j = nextID /\ t = OpenRequest
    <2>1. t.pc = "queue" /\ t.type = "OPEN" /\ t.n = 0 /\ t.left = 0 /\ t.result = "none"
        BY <1>7 DEF OpenRequest, Idle
    <2>2. st'[f][j].err # "new"
        <3>1. SetStream(f, j, Started(f)) /\ Started(f).err = "live"
            BY <1>7 DEF Open, Started, NoStream
        <3> QED
            BY <3>1, SetStreamElsewhere
    <2> QED
        BY <1>1, <1>7, <2>1, <2>2 DEF RequestProper
<1>8. CASE Starts(f, j, t)
    BY <1>1, <1>2, <1>4, <1>8 DEF RequestProper, Starts
<1>9. CASE snd[f][j].pc = "credit" /\ t.pc = "queue" /\ t.type = snd[f][j].type /\ t.n > 0 /\ t.result = snd[f][j].result
    BY <1>1, <1>2, <1>3, <1>4, <1>9 DEF RequestProper
<1>10. CASE snd[f][j].pc \in {"queue", "wait"} /\ t.pc = "wait" /\ SameFrame(snd[f][j], t)
    BY <1>1, <1>2, <1>3, <1>4, <1>10 DEF RequestProper, SameFrame
<1> QED
    BY <1>2, <1>5, <1>6, <1>7, <1>8, <1>9, <1>10 DEF Asks

LEMMA ProperNext ==
    ASSUME NoForeign, Conforms, [Next]_vars
    PROVE  Proper'
BY WriteProperNext, WireProperNext, RequestProperNext DEF Proper

(* Where a queued request was before the step.                             *)
LEMMA OldFrame ==
    ASSUME NoForeign, TypeOK, [Next]_vars, NEW f \in Ends, NEW k \in DOMAIN writes'[f]
    PROVE  \/ WriteRequest(f) /\ k \in Nat \ {0} /\ k + 1 \in DOMAIN writes[f] /\ writes'[f][k] = writes[f][k + 1]
           \/ ~WriteRequest(f) /\ k \in DOMAIN writes[f] /\ writes'[f][k] = writes[f][k]
           \/ /\ ~WriteRequest(f) /\ k = Len(writes[f]) + 1
              /\ \E i \in Ids : /\ Enqueue(f, i) /\ writes'[f][k].id = i
                                /\ writes'[f][k].type = snd[f][i].type /\ writes'[f][k].n = snd[f][i].n
<1>1. writes[f] \in Seq(Frames)
    BY DEF TypeOK
<1>2. CASE WriteRequest(f)
    <2>1. writes' = [writes EXCEPT ![f] = Tail(@)] /\ writes[f] # <<>>
        BY <1>2 DEF WriteRequest
    <2>2. writes'[f] = Tail(writes[f])
        BY <2>1 DEF TypeOK
    <2> QED
        BY <1>1, <1>2, <2>1, <2>2, TailElements
<1>3. CASE ~WriteRequest(f)
    <2>1. CASE writes'[f] = writes[f]
        BY <1>3, <2>1
    <2>2. CASE writes'[f] = <<>>
        BY <2>2
    <2>3. ASSUME NEW i \in Ids, Enqueue(f, i), writes'[f] = Append(writes[f], QueuedFrame(f, i)),
                 QueuedFrame(f, i) \in Frames, QueuedFrame(f, i).id = i,
                 QueuedFrame(f, i).type = snd[f][i].type, QueuedFrame(f, i).n = snd[f][i].n
          PROVE  \/ k \in DOMAIN writes[f] /\ writes'[f][k] = writes[f][k]
                 \/ /\ k = Len(writes[f]) + 1
                    /\ writes'[f][k].id = i
                    /\ writes'[f][k].type = snd[f][i].type /\ writes'[f][k].n = snd[f][i].n
        <3>1. \/ k \in DOMAIN writes[f] /\ writes'[f][k] = writes[f][k]
              \/ k = Len(writes[f]) + 1 /\ writes'[f][k] = QueuedFrame(f, i)
            BY <1>1, <2>3, AppendElements
        <3> QED
            BY <2>3, <3>1
    <2> QED
        BY <1>3, <2>1, <2>2, <2>3, QueuesNext DEF Queues
<1> QED
    BY <1>2, <1>3

LEMMA FrameIds ==
    ASSUME TypeOK, NEW f \in Ends
    PROVE  /\ \A k \in DOMAIN writes[f] : writes[f][k].id \in Ids /\ writes[f][k] \in Frames
           /\ \A k \in DOMAIN wire[f] : wire[f][k].id \in Ids /\ wire[f][k] \in Frames
<1>1. writes[f] \in Seq(Frames) /\ wire[f] \in Seq(Frames)
    BY DEF TypeOK
<1>2. \A F \in Frames : F.id \in Ids
    BY DEF Frames
<1> QED
    BY <1>1, <1>2

LEMMA OpensNew ==
    ASSUME TypeOK, Untouched, Open
    PROVE  st["client"][nextID].err = "new" /\ ~Used(nextID)
<1>1. nextID \in Ids /\ nextID # 0
    BY NextIdType DEF Open
<1>2. ~(nextID < nextID)
    BY <1>1 DEF Ids
<1>3. ~Used(nextID)
    BY <1>1, <1>2 DEF Used
<1> QED
    BY <1>1, <1>3 DEF Untouched

(* A request that was in the queue and is not the one the writer takes.    *)
LEMMA OutstandingKept ==
    ASSUME NoForeign, Conforms, [Next]_vars, NEW f \in Ends, NEW m \in DOMAIN writes[f],
           WriteRequest(f) => m # 1
    PROVE  /\ st'[f][writes[f][m].id].err # "new"
           /\ st'[f][writes[f][m].id].err = "live" =>
                 /\ snd'[f][writes[f][m].id].pc = "wait" /\ snd'[f][writes[f][m].id].result = "none"
                 /\ snd'[f][writes[f][m].id].type = writes[f][m].type /\ snd'[f][writes[f][m].id].n = writes[f][m].n
<1> USE DEF Conforms
<1>1. PICK i \in Ids : i = writes[f][m].id
    BY FrameIds
<1>2. PICK F : F = writes[f][m]
    OBVIOUS
<1>3. Outstanding(f, F)
    BY <1>2 DEF SendsOne
<1>4. Moves(f, i, st'[f][i]) /\ Asks(f, i, snd'[f][i])
    BY MovedNext, AskedNext, SMTT(30) DEF Moved, Asked
<1>5. st[f][i].err # "new" /\ st'[f][i].err # "new"
    BY <1>1, <1>2, <1>3, <1>4 DEF Outstanding, Moves, Endings
<1>6. ASSUME st'[f][i].err = "live"
      PROVE  /\ snd'[f][i].pc = "wait" /\ snd'[f][i].result = "none"
             /\ snd'[f][i].type = F.type /\ snd'[f][i].n = F.n
    <2>1. st[f][i].err = "live"
        BY <1>4, <1>5, <1>6 DEF Moves, Endings
    <2>2. snd[f][i].pc = "wait" /\ snd[f][i].result = "none" /\ snd[f][i].type = F.type /\ snd[f][i].n = F.n
        BY <1>1, <1>2, <1>3, <2>1 DEF Outstanding
    <2>3. ~(Open /\ f = "client" /\ i = nextID)
        BY <1>5, OpensNew
    <2>4. ~(WriteRequest(f) /\ i = Head(writes[f]).id)
        <3> SUFFICES ASSUME WriteRequest(f), i = Head(writes[f]).id PROVE FALSE
            OBVIOUS
        <3>1. writes[f] \in Seq(Frames) /\ writes[f] # <<>>
            BY DEF TypeOK, WriteRequest
        <3>2. 1 \in DOMAIN writes[f] /\ writes[f][1].id = i
            BY <3>1
        <3> QED
            BY <1>1, <2>1, <3>2 DEF SendsOne
    <2>5. snd'[f][i] = snd[f][i]
        BY <1>4, <1>6, <2>2, <2>3, <2>4 DEF Asks, Starts
    <2> QED
        BY <2>2, <2>5
<1> QED
    BY <1>1, <1>2, <1>5, <1>6

LEMMA OutstandingNew ==
    ASSUME NoForeign, Conforms, [Next]_vars, NEW f \in Ends, NEW i \in Ids, Enqueue(f, i), NEW F,
           F.id = i, F.type = snd[f][i].type, F.n = snd[f][i].n
    PROVE  /\ st'[f][i].err # "new"
           /\ snd'[f][i].pc = "wait" /\ snd'[f][i].result = "none"
           /\ snd'[f][i].type = F.type /\ snd'[f][i].n = F.n
<1> USE DEF Conforms
<1>1. snd[f][i].pc = "queue" /\ RequestProper(f, i) /\ st' = st /\ snd[f][i] \in Request
    BY RequestFields DEF Enqueue, Proper
<1>2. snd'[f][i] = [snd[f][i] EXCEPT !.pc = "wait"]
    BY DEF Enqueue, TypeOK
<1>3. snd'[f][i].pc = "wait" /\ snd'[f][i].result = snd[f][i].result /\ snd'[f][i].type = snd[f][i].type
      /\ snd'[f][i].n = snd[f][i].n
    BY <1>1, <1>2 DEF Request
<1> QED
    BY <1>1, <1>3 DEF RequestProper

LEMMA SendsOneNext ==
    ASSUME NoForeign, Conforms, [Next]_vars
    PROVE  SendsOne'
<1> USE DEF Conforms
<1>1. ASSUME NEW f \in Ends, NEW k \in DOMAIN writes'[f]
      PROVE  /\ st'[f][writes'[f][k].id].err # "new"
             /\ st'[f][writes'[f][k].id].err = "live" =>
                   /\ snd'[f][writes'[f][k].id].pc = "wait" /\ snd'[f][writes'[f][k].id].result = "none"
                   /\ snd'[f][writes'[f][k].id].type = writes'[f][k].type /\ snd'[f][writes'[f][k].id].n = writes'[f][k].n
    <2>1. ASSUME NEW m \in DOMAIN writes[f], WriteRequest(f) => m # 1, writes'[f][k] = writes[f][m]
          PROVE  /\ st'[f][writes'[f][k].id].err # "new"
                 /\ st'[f][writes'[f][k].id].err = "live" =>
                       /\ snd'[f][writes'[f][k].id].pc = "wait" /\ snd'[f][writes'[f][k].id].result = "none"
                       /\ snd'[f][writes'[f][k].id].type = writes'[f][k].type /\ snd'[f][writes'[f][k].id].n = writes'[f][k].n
        BY <2>1, OutstandingKept
    <2>2. ASSUME NEW i \in Ids, Enqueue(f, i), writes'[f][k].id = i, writes'[f][k].type = snd[f][i].type,
                 writes'[f][k].n = snd[f][i].n
          PROVE  /\ st'[f][writes'[f][k].id].err # "new"
                 /\ st'[f][writes'[f][k].id].err = "live" =>
                       /\ snd'[f][writes'[f][k].id].pc = "wait" /\ snd'[f][writes'[f][k].id].result = "none"
                       /\ snd'[f][writes'[f][k].id].type = writes'[f][k].type /\ snd'[f][writes'[f][k].id].n = writes'[f][k].n
        BY <2>2, OutstandingNew, SMTT(30)
    <2>3. CASE WriteRequest(f) /\ k \in Nat \ {0} /\ k + 1 \in DOMAIN writes[f] /\ writes'[f][k] = writes[f][k + 1]
        <3>1. k + 1 # 1
            BY <2>3
        <3> QED
            BY <2>1, <2>3, <3>1
    <2> QED
        BY <2>1, <2>2, <2>3, OldFrame
<1>2. ASSUME NEW f \in Ends, NEW j \in DOMAIN writes'[f], NEW k \in DOMAIN writes'[f],
             writes'[f][j].id = writes'[f][k].id, st'[f][writes'[f][j].id].err = "live"
      PROVE  j = k
    <2>1. PICK i : i = writes'[f][j].id
        OBVIOUS
    <2>2. i \in Ids
        <3>1. TypeOK'
            BY NextType
        <3>2. writes'[f] \in Seq(Frames)
            BY <3>1 DEF TypeOK
        <3>3. \A F \in Frames : F.id \in Ids
            BY SMTT(30) DEF Frames
        <3> QED
            BY <2>1, <3>2, <3>3
    <2>3. ASSUME NEW m \in DOMAIN writes[f], writes[f][m].id = i
          PROVE  st[f][i].err = "live" /\ snd[f][i].pc = "wait"
        <3>1. st[f][i].err # "new" /\ (st[f][i].err = "live" => snd[f][i].pc = "wait")
            BY <2>3 DEF SendsOne, Outstanding
        <3>2. Moves(f, i, st'[f][i])
            BY <2>2, MovedNext DEF Moved
        <3> QED
            BY <1>2, <2>1, <3>1, <3>2 DEF Moves, Endings
    <2>4. ASSUME NEW m \in DOMAIN writes[f], NEW n \in DOMAIN writes[f], writes[f][m].id = i, writes[f][n].id = i
          PROVE  m = n
        BY <2>3, <2>4 DEF SendsOne
    <2>5. ASSUME NEW m \in DOMAIN writes[f], writes[f][m].id = i, NEW l \in Ids, Enqueue(f, l), l = i
          PROVE  FALSE
        BY <2>3, <2>5 DEF Enqueue
    <2>6. CASE WriteRequest(f)
        <3>1. /\ j \in Nat /\ j + 1 \in DOMAIN writes[f] /\ writes'[f][j] = writes[f][j + 1]
              /\ k \in Nat /\ k + 1 \in DOMAIN writes[f] /\ writes'[f][k] = writes[f][k + 1]
            BY <2>6, OldFrame
        <3>2. j + 1 = k + 1
            BY <1>2, <2>1, <2>4, <3>1
        <3> QED
            BY <3>1, <3>2
    <2>7. CASE ~WriteRequest(f)
        <3>1. \/ j \in DOMAIN writes[f] /\ writes[f][j].id = i
              \/ j = Len(writes[f]) + 1 /\ Enqueue(f, i)
            BY <2>1, <2>7, OldFrame
        <3>2. \/ k \in DOMAIN writes[f] /\ writes[f][k].id = i
              \/ k = Len(writes[f]) + 1 /\ Enqueue(f, i)
            BY <1>2, <2>1, <2>7, OldFrame
        <3> QED
            BY <2>2, <2>4, <2>5, <3>1, <3>2
    <2> QED
        BY <2>6, <2>7
<1> QED
    BY <1>1, <1>2 DEF SendsOne, Outstanding

-----------------------------------------------------------------------------
(* The accept queue.                                                       *)

LEMMA AcceptQNext ==
    ASSUME NoForeign, Conforms, [Next]_vars
    PROVE  \/ Accept
           \/ ~Accept /\ acceptQ' = acceptQ
           \/ ~Accept /\ acceptQ' = <<>>
           \/ ~Accept /\ \E i \in Ids, s \in Stream : OpenRead(i, s) /\ ~Refuses("server") /\ acceptQ' = Append(acceptQ, i)
                            /\ st'["server"][i].err = "live"
<1> USE DEF Conforms
<1>1. ASSUME NEW e \in Ends, Failing(e) PROVE acceptQ' = acceptQ \/ acceptQ' = <<>>
    BY <1>1, FailingFails DEF Fail
<1>2. ASSUME Open \/ OpenExhausted \/ UNCHANGED vars
      PROVE  acceptQ' = acceptQ
    BY <1>2 DEF Open, OpenExhausted, vars
<1>3. ASSUME NEW e \in Ends, NEW i \in Ids,
             \/ Close(e, i) \/ Sender(e, i) \/ Consumer(e, i) \/ QueueClose(e, i)
             \/ \E n \in 1..MaxBytes[e] : Write(e, i, n)
      PROVE  acceptQ' = acceptQ
    BY <1>3, Zenon DEF Close, Sender, Reserve, Enqueue, Sent, SendFails, Consumer, ReadEOF, Read, QueueClose, Write
<1>4. ASSUME NEW e \in Ends,
             RecvData(e) \/ RecvCredit(e) \/ RecvClose(e) \/ ReaderCloses(e) \/ Drain(e) \/ IdleCheck(e)
                 \/ WriteControl(e) \/ WriteRequest(e) \/ WriteCredit(e) \/ ForeignFrame(e)
      PROVE  acceptQ' = acceptQ
    BY <1>4, Zenon DEF RecvData, RecvCredit, RecvClose, ReaderCloses, Drain, IdleCheck, WriteControl, WriteRequest,
                WriteCredit, ForeignFrame
<1>5. ASSUME RecvOpen
      PROVE  \/ acceptQ' = acceptQ
             \/ \E i \in Ids, s \in Stream : OpenRead(i, s) /\ ~Refuses("server") /\ acceptQ' = Append(acceptQ, i)
                    /\ st'["server"][i].err = "live"
    <2>1. PICK i \in Ids, s \in Stream : OpenRead(i, s)
        BY <1>5, OpenReadStep
    <2>2. CASE s = [Started("server") EXCEPT !.announced = TRUE] /\ acceptQ' = Append(acceptQ, i) /\ ~Refuses("server")
               /\ Consumed("server", i, s, FALSE)
        <3>1. s.err = "live" /\ SetStream("server", i, s) /\ "server" \in Ends
            BY <2>2 DEF Started, NoStream, Consumed, Ends
        <3>2. st'["server"][i] = s
            BY <3>1, SetStreamElsewhere
        <3> QED
            BY <2>1, <2>2, <3>1, <3>2
    <2> QED
        BY <2>1, <2>2 DEF OpenRead
<1> QED
    BY <1>1, <1>2, <1>3, <1>4, <1>5, Zenon DEF Next, Business, Reader, Writer, Failing, Ended

LEMMA QueueNext ==
    ASSUME NoForeign, Conforms, [Next]_vars
    PROVE  Queue'
<1> USE DEF Conforms
<1>1. "server" \in Ends
    BY DEF Ends
<1>2. acceptQ \in Seq(Ids) /\ \A k \in DOMAIN acceptQ : acceptQ[k] \in Ids
    BY DEF TypeOK
<1>3. /\ \A k \in DOMAIN acceptQ : acceptQ[k] \notin accepted["server"] /\ st["server"][acceptQ[k]].err = "live"
      /\ \A j, k \in DOMAIN acceptQ : acceptQ[j] = acceptQ[k] => j = k
    BY DEF Queue, Live
<1>4. \A i \in accepted'["server"] :
         i \in accepted["server"] \/ (Accept /\ i = Head(acceptQ))
    BY AcceptedNext
<1>5. ASSUME acceptQ' # <<>>, NEW k \in DOMAIN acceptQ PROVE st'["server"][acceptQ[k]].err = "live"
    <2>1. PICK i \in Ids : i = acceptQ[k]
        BY <1>2
    <2>2. Moves("server", i, st'["server"][i])
        BY <1>1, MovedNext DEF Moved
    <2>3. i \notin accepted["server"] /\ st["server"][i].err = "live"
        BY <1>3, <2>1
    <2> QED
        BY <1>5, <2>1, <2>2, <2>3 DEF Moves, Held
<1>6. CASE Accept
    <2>1. acceptQ # <<>> /\ acceptQ' = Tail(acceptQ)
        BY <1>6 DEF Accept
    <2>2. ASSUME NEW k \in DOMAIN acceptQ'
          PROVE  k \in Nat /\ k + 1 \in DOMAIN acceptQ /\ k + 1 # 1 /\ acceptQ'[k] = acceptQ[k + 1] /\ acceptQ' # <<>>
        BY <1>2, <2>1, <2>2
    <2>3. 1 \in DOMAIN acceptQ /\ Head(acceptQ) = acceptQ[1]
        BY <1>2, <2>1
    <2>4. ASSUME NEW k \in DOMAIN acceptQ'
          PROVE  acceptQ'[k] \notin accepted'["server"] /\ st'["server"][acceptQ'[k]].err = "live" /\ acceptQ'[k] \in Ids
        BY <1>2, <1>3, <1>4, <1>5, <2>2, <2>3
    <2>5. ASSUME NEW j \in DOMAIN acceptQ', NEW k \in DOMAIN acceptQ', acceptQ'[j] = acceptQ'[k]
          PROVE  j = k
        <3>1. j + 1 = k + 1 /\ j \in Nat /\ k \in Nat
            BY <1>3, <2>2, <2>5
        <3> QED
            BY <3>1
    <2> QED
        BY <2>4, <2>5 DEF Queue, Live
<1>7. CASE ~Accept /\ acceptQ' = acceptQ
    <2>1. ASSUME NEW k \in DOMAIN acceptQ
          PROVE  acceptQ[k] \notin accepted'["server"] /\ st'["server"][acceptQ[k]].err = "live" /\ acceptQ[k] \in Ids
        <3>1. acceptQ' # <<>>
            BY <1>2, <1>7
        <3> QED
            BY <1>2, <1>3, <1>4, <1>5, <1>7, <3>1
    <2> QED
        BY <1>3, <1>7, <2>1 DEF Queue, Live
<1>8. CASE acceptQ' = <<>>
    BY <1>8 DEF Queue
<1>9. ASSUME ~Accept, NEW i \in Ids, NEW s \in Stream, OpenRead(i, s), acceptQ' = Append(acceptQ, i),
             st'["server"][i].err = "live"
      PROVE  Queue'
    <2>1. st["server"][i].err = "new"
        BY <1>9 DEF OpenRead
    <2>2. i \notin accepted["server"] /\ \A k \in DOMAIN acceptQ : acceptQ[k] # i
        BY <1>3, <2>1 DEF Untouched
    <2>3. acceptQ' # <<>> /\ \A k \in DOMAIN acceptQ' : \/ k \in DOMAIN acceptQ /\ acceptQ'[k] = acceptQ[k]
                                                        \/ k = Len(acceptQ) + 1 /\ acceptQ'[k] = i
        BY <1>2, <1>9
    <2>4. ASSUME NEW k \in DOMAIN acceptQ'
          PROVE  acceptQ'[k] \notin accepted'["server"] /\ st'["server"][acceptQ'[k]].err = "live" /\ acceptQ'[k] \in Ids
        BY <1>2, <1>3, <1>4, <1>5, <1>9, <2>2, <2>3
    <2>5. ASSUME NEW j \in DOMAIN acceptQ', NEW k \in DOMAIN acceptQ', acceptQ'[j] = acceptQ'[k]
          PROVE  j = k
        BY <1>3, <2>2, <2>3, <2>5
    <2> QED
        BY <2>4, <2>5 DEF Queue, Live
<1> QED
    BY <1>6, <1>7, <1>8, <1>9, AcceptQNext

-----------------------------------------------------------------------------
(* What an end has told its peer.                                          *)

LEMMA ClosingNext ==
    ASSUME TypeOK, [Next]_vars, NEW f \in Ends, NEW j \in Ids, closing'[f][j] # "no"
    PROVE  closing[f][j] # "no" \/ (st'[f][j].err # "live" /\ st'[f][j].err # "new")
<1>1. CASE closing' = closing
    BY <1>1
<1>2. ASSUME NEW e \in Ends, NEW i \in Ids, CloseStream(e, i)
      PROVE  closing[f][j] # "no" \/ (st'[f][j].err # "live" /\ st'[f][j].err # "new")
    <2>1. CASE st[e][i].err = "live" /\ f = e /\ j = i
        <3>1. st'[e][i] = Finish(st[e][i], "closed") /\ "closed" \in Finished /\ st[e][i] \in Stream
            BY <1>2, <2>1, CloseStreamEffect, StreamFields DEF Finished
        <3> QED
            BY <2>1, <3>1, FinishFields
    <2>2. CASE ~(st[e][i].err = "live" /\ f = e /\ j = i)
        <3>1. closing'[f][j] = closing[f][j]
            BY <1>2, <2>2 DEF CloseStream, TypeOK
        <3> QED
            BY <3>1
    <2> QED
        BY <2>1, <2>2
<1>3. ASSUME NEW e \in Ends, NEW i \in Ids, QueueClose(e, i) PROVE closing[f][j] # "no"
    <2>1. closing' = [closing EXCEPT ![e][i] = "no"]
        BY <1>3 DEF QueueClose
    <2>2. closing'[f][j] = IF f = e /\ j = i THEN "no" ELSE closing[f][j]
        BY <2>1 DEF TypeOK
    <2> QED
        BY <2>2
<1>4. ASSUME NEW e \in Ends, Failing(e) PROVE closing[f][j] # "no"
    BY <1>4, FailingFails, FailEffect
<1>5. ASSUME Open \/ OpenExhausted \/ Accept \/ RecvOpen \/ UNCHANGED vars
      PROVE  closing' = closing
    BY <1>5 DEF Open, OpenExhausted, Accept, RecvOpen, vars
<1>6. ASSUME NEW e \in Ends, NEW i \in Ids, Close(e, i) \/ SendFails(e, i) PROVE CloseStream(e, i)
    BY <1>6 DEF Close, SendFails
<1>7. ASSUME NEW e \in Ends, NEW i \in Ids,
             \/ Reserve(e, i) \/ Enqueue(e, i) \/ Sent(e, i) \/ Consumer(e, i)
             \/ \E n \in 1..MaxBytes[e] : Write(e, i, n)
      PROVE  closing' = closing
    BY <1>7, Zenon DEF Reserve, Enqueue, Sent, Consumer, ReadEOF, Read, Write
<1>8. ASSUME NEW e \in Ends,
             RecvData(e) \/ RecvCredit(e) \/ RecvClose(e) \/ ReaderCloses(e) \/ Drain(e) \/ IdleCheck(e)
                 \/ WriteControl(e) \/ WriteRequest(e) \/ WriteCredit(e) \/ ForeignFrame(e)
      PROVE  closing' = closing
    BY <1>8, Zenon DEF RecvData, RecvCredit, RecvClose, ReaderCloses, Drain, IdleCheck, WriteControl, WriteRequest,
                WriteCredit, ForeignFrame
<1> QED
    BY <1>1, <1>2, <1>3, <1>4, <1>5, <1>6, <1>7, <1>8, Zenon
    DEF Next, Business, Sender, Reader, Writer, Failing, Ended

LEMMA ConsumedRd ==
    ASSUME TypeOK, NEW e \in Ends, NEW i, NEW s, NEW reset, Consumed(e, i, s, reset), NEW f \in Ends
    PROVE  rd'[f].close = IF f = e THEN (IF reset THEN i ELSE 0) ELSE rd[f].close
BY DEF Consumed, TypeOK

(* The reader owes a CLOSE only for a stream that it refused.              *)
LEMMA RdNext ==
    ASSUME NoForeign, Conforms, [Next]_vars, NEW f \in Ends, NEW j \in Ids, rd'[f].close = j
    PROVE  rd[f].close = j \/ (f = "server" /\ lastRemoteID' = j /\ st'[f][j].err = "new")
<1> USE DEF Conforms
<1>1. j # 0
    BY SessionAssumption DEF Ids
<1>2. CASE rd' = rd
    BY <1>2
<1>3. ASSUME NEW e \in Ends, NEW i, NEW s, Consumed(e, i, s, FALSE) PROVE rd[f].close = j
    BY <1>1, <1>3, ConsumedRd
<1>4. ASSUME NEW e \in Ends, Failing(e) PROVE rd[f].close = j
    <2>1. rd'[f] = IF f = e THEN Rest ELSE rd[f]
        BY <1>4, FailingFails, FailEffect
    <2> QED
        BY <1>1, <2>1 DEF Rest
<1>5. ASSUME NEW e \in Ends, RecvData(e) PROVE \E i, s : Consumed(e, i, s, FALSE)
    BY <1>5, DataReadStep DEF DataRead
<1>6. ASSUME NEW e \in Ends, RecvCredit(e) PROVE \E i, s : Consumed(e, i, s, FALSE)
    BY <1>6, CreditReadStep DEF CreditRead
<1>7. ASSUME NEW e \in Ends, RecvClose(e) PROVE \E i, s : Consumed(e, i, s, FALSE)
    BY <1>7 DEF RecvClose
<1>8. ASSUME RecvOpen
      PROVE  rd[f].close = j \/ (f = "server" /\ lastRemoteID' = j /\ st'[f][j].err = "new")
    <2>1. PICK i \in Ids, s \in Stream : OpenRead(i, s)
        BY <1>8, OpenReadStep
    <2>2. "server" \in Ends
        BY DEF Ends
    <2>3. CASE s = st["server"][i] /\ Consumed("server", i, s, TRUE)
        <3>1. SetStream("server", i, s)
            BY <2>3 DEF Consumed
        <3>2. st'["server"][i] = st["server"][i]
            BY <2>2, <2>3, <3>1, SetStreamElsewhere
        <3>3. st["server"][i].err = "new" /\ lastRemoteID' = i
            BY <2>1 DEF OpenRead
        <3>4. rd'[f].close = IF f = "server" THEN i ELSE rd[f].close
            BY <2>2, <2>3, ConsumedRd
        <3> QED
            BY <3>2, <3>3, <3>4
    <2>4. CASE Consumed("server", i, s, FALSE)
        BY <1>3, <2>2, <2>4
    <2> QED
        BY <2>1, <2>3, <2>4 DEF OpenRead
<1>9. ASSUME NEW e \in Ends, ReaderCloses(e) PROVE rd[f].close = j
    <2>1. rd' = [rd EXCEPT ![e].close = 0]
        BY <1>9 DEF ReaderCloses
    <2>2. rd'[f].close = IF f = e THEN 0 ELSE rd[f].close
        BY <2>1 DEF TypeOK
    <2> QED
        BY <1>1, <2>2
<1>10. ASSUME Open \/ OpenExhausted \/ Accept \/ UNCHANGED vars PROVE rd' = rd
    BY <1>10 DEF Open, OpenExhausted, Accept, vars
<1>11. ASSUME NEW e \in Ends, NEW i \in Ids,
              \/ Close(e, i) \/ Sender(e, i) \/ Consumer(e, i) \/ QueueClose(e, i)
              \/ \E n \in 1..MaxBytes[e] : Write(e, i, n)
       PROVE  rd' = rd
    BY <1>11, Zenon DEF Close, Sender, Reserve, Enqueue, Sent, SendFails, Consumer, ReadEOF, Read, QueueClose, Write
<1>12. ASSUME NEW e \in Ends,
              Drain(e) \/ IdleCheck(e) \/ WriteControl(e) \/ WriteRequest(e) \/ WriteCredit(e) \/ ForeignFrame(e)
       PROVE  rd' = rd
    BY <1>12, Zenon DEF Drain, IdleCheck, WriteControl, WriteRequest, WriteCredit, ForeignFrame
<1> QED
    BY <1>2, <1>3, <1>4, <1>5, <1>6, <1>7, <1>8, <1>9, <1>10, <1>11, <1>12, Zenon
    DEF Next, Business, Reader, Writer, Failing, Ended

(* A CLOSE is queued for a stream whose Close or whose reader waits.       *)
LEMMA ControlsNext ==
    ASSUME TypeOK, [Next]_vars, NEW f \in Ends, NEW j \in Ids, \E k \in DOMAIN controls'[f] : controls'[f][k] = j
    PROVE  (\E k \in DOMAIN controls[f] : controls[f][k] = j) \/ closing[f][j] # "no" \/ rd[f].close = j
<1> DEFINE has(q) == \E k \in DOMAIN q : q[k] = j
<1>1. controls[f] \in Seq(Ids) /\ \A k \in DOMAIN controls[f] : controls[f][k] \in Ids
    BY DEF TypeOK
<1>2. CASE controls' = controls
    BY <1>2
<1>3. ASSUME NEW e \in Ends, NEW i \in Ids, controls' = [controls EXCEPT ![e] = Append(@, i)],
             closing[e][i] # "no" \/ rd[e].close = i
      PROVE  has(controls[f]) \/ closing[f][j] # "no" \/ rd[f].close = j
    <2>1. controls'[f] = IF f = e THEN Append(controls[f], i) ELSE controls[f]
        BY <1>3 DEF TypeOK
    <2>2. CASE f # e
        BY <2>1, <2>2
    <2>3. CASE f = e
        <3>1. \E k \in DOMAIN Append(controls[f], i) : Append(controls[f], i)[k] = j
            BY <2>1, <2>3
        <3>2. i = j \/ has(controls[f])
            BY <1>1, <3>1
        <3> QED
            BY <1>3, <2>3, <3>2
    <2> QED
        BY <2>2, <2>3
<1>4. ASSUME NEW e \in Ends, WriteControl(e) PROVE has(controls[f])
    <2>1. controls' = [controls EXCEPT ![e] = Tail(@)] /\ controls[e] # <<>>
        BY <1>4 DEF WriteControl
    <2>2. controls'[f] = IF f = e THEN Tail(controls[f]) ELSE controls[f]
        BY <2>1 DEF TypeOK
    <2>3. CASE f # e
        BY <2>2, <2>3
    <2>4. CASE f = e
        <3>1. PICK k \in DOMAIN Tail(controls[f]) : Tail(controls[f])[k] = j
            BY <2>2, <2>4
        <3>2. k + 1 \in DOMAIN controls[f] /\ controls[f][k + 1] = j
            BY <1>1, <2>1, <2>4, <3>1
        <3> QED
            BY <3>2
    <2> QED
        BY <2>3, <2>4
<1>5. ASSUME NEW e \in Ends, Failing(e) PROVE has(controls[f])
    <2>1. controls'[f] = IF f = e THEN <<>> ELSE controls[f]
        BY <1>5, FailingFails, FailEffect
    <2> QED
        BY <2>1
<1>6. ASSUME NEW e \in Ends, NEW i \in Ids, QueueClose(e, i)
      PROVE  has(controls[f]) \/ closing[f][j] # "no" \/ rd[f].close = j
    <2>1. controls' = [controls EXCEPT ![e] = Append(@, i)] /\ closing[e][i] # "no"
        BY <1>6 DEF QueueClose
    <2> HIDE DEF has
    <2> QED
        BY <1>3, <2>1
<1>7. ASSUME NEW e \in Ends, ReaderCloses(e)
      PROVE  has(controls[f]) \/ closing[f][j] # "no" \/ rd[f].close = j
    <2>1. rd[e].close # 0 /\ rd[e].close \in 0..MaxId
        BY <1>7 DEF ReaderCloses, TypeOK
    <2>2. rd[e].close \in Ids
        BY <2>1, SessionAssumption DEF Ids
    <2>3. PICK i \in Ids : i = rd[e].close
        BY <2>2
    <2>4. controls' = [controls EXCEPT ![e] = Append(@, i)] /\ rd[e].close = i
        BY <1>7, <2>3 DEF ReaderCloses
    <2> HIDE DEF has
    <2> QED
        BY <1>3, <2>4
<1>8. ASSUME Open \/ OpenExhausted \/ Accept \/ RecvOpen \/ UNCHANGED vars PROVE controls' = controls
    BY <1>8 DEF Open, OpenExhausted, Accept, RecvOpen, vars, queues
<1>9. ASSUME NEW e \in Ends, NEW i \in Ids,
             \/ Close(e, i) \/ Sender(e, i) \/ Consumer(e, i)
             \/ \E n \in 1..MaxBytes[e] : Write(e, i, n)
      PROVE  controls' = controls
    BY <1>9, Zenon DEF Close, Sender, Reserve, Enqueue, Sent, SendFails, Consumer, ReadEOF, Read, Write, queues
<1>10. ASSUME NEW e \in Ends,
              RecvData(e) \/ RecvCredit(e) \/ RecvClose(e) \/ Drain(e) \/ IdleCheck(e)
                  \/ WriteRequest(e) \/ WriteCredit(e) \/ ForeignFrame(e)
       PROVE  controls' = controls
    BY <1>10, Zenon DEF RecvData, RecvCredit, RecvClose, Drain, IdleCheck, WriteRequest, WriteCredit, ForeignFrame, queues
<1> HIDE DEF has
<1>11. has(controls[f]) \/ closing[f][j] # "no" \/ rd[f].close = j
    <2>1. CASE controls' = controls
        BY <2>1 DEF has
    <2> QED
        BY <1>4, <1>5, <1>6, <1>7, <1>8, <1>9, <1>10, <2>1, Zenon DEF Next, Business, Reader, Writer, Failing, Ended
<1> QED
    BY <1>11 DEF has

LEMMA ToldNext ==
    ASSUME NoForeign, Conforms, [Next]_vars
    PROVE  ToldOnlyWhenDone'
<1> USE DEF Conforms
<1> SUFFICES ASSUME NEW e \in Ends, NEW i \in Ids, Told(e, i)', Listens(e, i)'
             PROVE  FALSE
    BY DEF ToldOnlyWhenDone
<1>1. Listens(e, i) /\ ~Told(e, i)
    BY ListensFalls DEF ToldOnlyWhenDone
<1>2. Peer(e) \in Ends /\ Peer(Peer(e)) = e
    BY PeerEnds
<1>3. ASSUME closing'[e][i] # "no" PROVE FALSE
    <2>1. st'[e][i].err # "live" /\ st'[e][i].err # "new"
        BY <1>1, <1>3, ClosingNext DEF Told
    <2> QED
        BY <2>1 DEF Listens
<1>4. ASSUME rd'[e].close = i PROVE FALSE
    <2>1. e = "server" /\ lastRemoteID' = i /\ st'[e][i].err = "new"
        BY <1>1, <1>4, RdNext DEF Told
    <2>2. ~(i > i)
        BY IdsNumbers
    <2> QED
        BY <2>1, <2>2 DEF Listens
<1>5. ASSUME \E k \in DOMAIN controls'[e] : controls'[e][k] = i PROVE FALSE
    BY <1>1, <1>5, ControlsNext DEF Told
<1>6. ASSUME NEW k \in DOMAIN wire'[e], wire'[e][k].type = "CLOSE", wire'[e][k].id = i PROVE FALSE
    <2>1. CASE wire' = wire
        BY <1>1, <1>6, <2>1 DEF Told
    <2>2. ASSUME NEW f \in Ends, TakesOff(f) PROVE FALSE
        BY <1>1, <1>6, <2>2, TakenElements DEF Told
    <2>3. ASSUME NEW f \in Ends, NEW F \in Frames, PutsOn(f, F) PROVE FALSE
        <3>1. OnWire(f, F)
            BY <2>3 DEF PutsOn
        <3>2. f = e /\ F.type = "CLOSE" /\ F.id = i
            BY <1>1, <1>6, <3>1, PutElements DEF Told
        <3>3. writes[f] # <<>> => Head(writes[f]).type # "CLOSE"
            <4>1. writes[f] \in Seq(Frames)
                BY DEF TypeOK
            <4>2. writes[f] # <<>> => 1 \in DOMAIN writes[f] /\ Head(writes[f]) = writes[f][1]
                BY <4>1
            <4> QED
                BY <4>2 DEF Proper, WriteProper
        <3>4. \E k2 \in DOMAIN controls[f] : controls[f][k2] = F.id
            BY <2>3, <3>2, <3>3 DEF PutsOn
        <3> QED
            BY <1>1, <3>2, <3>4 DEF Told
    <2> QED
        BY <2>1, <2>2, <2>3, CarriesNext DEF Carries
<1>7. ASSUME st'[Peer(e)][i].remoteEOF PROVE FALSE
    <2>1. Moves(Peer(e), i, st'[Peer(e)][i])
        BY <1>2, MovedNext DEF Moved
    <2> QED
        BY <1>1, <1>2, <1>7, <2>1 DEF Moves, CloseArrives, Told
<1> QED
    BY <1>3, <1>4, <1>5, <1>6, <1>7 DEF Told

-----------------------------------------------------------------------------
(* The OPEN frames of the client.                                          *)

HasOpen(q, i) == \E m \in DOMAIN q : q[m].type = "OPEN" /\ q[m].id = i

(* What a step does to the frames the client has under way.                *)
ClientWire ==
    \/ wire'["client"] = wire["client"] /\ lastRemoteID' = lastRemoteID
    \/ /\ wire["client"] # <<>> /\ wire'["client"] = Tail(wire["client"])
       /\ lastRemoteID' = IF Head(wire["client"]).type = "OPEN" THEN Head(wire["client"]).id ELSE lastRemoteID
       /\ UNCHANGED <<snd, writes, nextID>>
    \/ \E F \in Frames : /\ PutsOn("client", F) /\ wire'["client"] = Append(wire["client"], F)
                         /\ lastRemoteID' = lastRemoteID

LEMMA ClientWireNext ==
    ASSUME NoForeign, TypeOK, [Next]_vars
    PROVE  ClientWire
<1>1. "client" \in Ends /\ "server" \in Ends /\ Peer("server") = "client" /\ Peer("client") = "server"
    BY DEF Ends, Peer
<1>2. wire["client"] \in Seq(Frames)
    BY <1>1 DEF TypeOK
<1>3. CASE wire' = wire
    <2>1. ASSUME RecvOpen PROVE FALSE
        <3>1. TakesOff("server")
            BY <2>1, RecvOpenTakes
        <3>2. wire["client"] # <<>> /\ wire'["client"] = Tail(wire["client"])
            BY <1>1, <3>1 DEF TakesOff, TypeOK
        <3>3. Len(Tail(wire["client"])) # Len(wire["client"])
            BY <1>2, <3>2
        <3> QED
            BY <1>3, <3>2, <3>3
    <2> QED
        BY <1>3, <2>1, IdsNext DEF ClientWire
<1>4. ASSUME NEW e \in Ends, TakesOff(e) PROVE ClientWire
    <2>1. CASE e = "server"
        <3>1. wire["client"] # <<>> /\ wire'["client"] = Tail(wire["client"])
            BY <1>1, <1>4, <2>1 DEF TakesOff, TypeOK
        <3>2. lastRemoteID' = IF Head(wire["client"]).type = "OPEN" THEN Head(wire["client"]).id ELSE lastRemoteID
            BY <1>1, <1>4, <2>1 DEF TakesOff
        <3>3. UNCHANGED <<snd, writes, nextID>>
            BY <1>4 DEF TakesOff
        <3> QED
            BY <3>1, <3>2, <3>3 DEF ClientWire
    <2>2. CASE e = "client"
        <3>1. wire'["client"] = wire["client"]
            BY <1>1, <1>4, <2>2 DEF TakesOff, TypeOK
        <3>2. lastRemoteID' = lastRemoteID
            BY <1>4, <2>2 DEF TakesOff
        <3> QED
            BY <3>1, <3>2 DEF ClientWire
    <2> QED
        BY <2>1, <2>2 DEF Ends
<1>5. ASSUME NEW e \in Ends, NEW F \in Frames, PutsOn(e, F) PROVE ClientWire
    <2>1. wire' = [wire EXCEPT ![e] = Append(@, F)] /\ lastRemoteID' = lastRemoteID
        BY <1>5 DEF PutsOn, OnWire
    <2>2. wire'["client"] = IF e = "client" THEN Append(wire["client"], F) ELSE wire["client"]
        BY <1>1, <2>1 DEF TypeOK
    <2> QED
        BY <1>5, <2>1, <2>2 DEF ClientWire
<1> QED
    BY <1>3, <1>4, <1>5, CarriesNext DEF Carries

(* Only the writer puts OPEN on the wire, from the head of the queue.      *)
LEMMA OpenPut ==
    ASSUME TypeOK, Proper, NEW F \in Frames, PutsOn("client", F), F.type = "OPEN"
    PROVE  /\ WriteRequest("client") /\ 1 \in DOMAIN writes["client"] /\ writes["client"][1] = F
           /\ 1 \in OpenFrames(writes["client"])
<1>1. "client" \in Ends
    BY DEF Ends
<1>2. WriteRequest("client") /\ writes["client"] # <<>> /\ F = Head(writes["client"])
    BY DEF PutsOn
<1>3. writes["client"] \in Seq(Frames)
    BY <1>1 DEF TypeOK
<1>4. 1 \in DOMAIN writes["client"] /\ writes["client"][1] = F
    BY <1>2, <1>3
<1> QED
    BY <1>2, <1>4 DEF OpenFrames

(* Credit is put on the wire for a stream the client has announced.        *)
LEMMA CreditPut ==
    ASSUME TypeOK, Proper, NEW F \in Frames, PutsOn("client", F), F.type = "CREDIT"
    PROVE  OpenSent(F.id)
<1>1. "client" \in Ends
    BY DEF Ends
<1>2. writes["client"] \in Seq(Frames)
    BY <1>1 DEF TypeOK
<1>3. ASSUME writes["client"] # <<>> PROVE Head(writes["client"]).type # "CREDIT"
    <2>1. 1 \in DOMAIN writes["client"] /\ writes["client"][1] = Head(writes["client"])
        BY <1>2, <1>3
    <2> QED
        BY <1>1, <2>1 DEF Proper, WriteProper
<1>4. Grant("client", F.id)
    BY <1>3 DEF PutsOn
<1> QED
    BY <1>4 DEF Grant, Grantable, OpenSent

(* OPEN leaves the wire only by reaching the server.                       *)
LEMMA HasOpenNext ==
    ASSUME NoForeign, TypeOK, [Next]_vars, NEW i \in Ids, HasOpen(wire["client"], i), i > lastRemoteID'
    PROVE  HasOpen(wire'["client"], i)
<1>1. wire["client"] \in Seq(Frames)
    BY DEF TypeOK, Ends
<1>2. PICK m \in DOMAIN wire["client"] : wire["client"][m].type = "OPEN" /\ wire["client"][m].id = i
    BY DEF HasOpen
<1>3. CASE wire'["client"] = wire["client"]
    BY <1>3
<1>4. CASE /\ wire["client"] # <<>> /\ wire'["client"] = Tail(wire["client"])
           /\ lastRemoteID' = IF Head(wire["client"]).type = "OPEN" THEN Head(wire["client"]).id ELSE lastRemoteID
    <2>1. ASSUME m = 1 PROVE FALSE
        <3>1. Head(wire["client"]) = wire["client"][m]
            BY <1>1, <1>4, <2>1
        <3>2. lastRemoteID' = i
            BY <1>2, <1>4, <3>1
        <3>3. i \in Nat
            BY IdsNumbers
        <3> QED
            BY <3>2, <3>3
    <2>2. m - 1 \in DOMAIN Tail(wire["client"]) /\ Tail(wire["client"])[m - 1] = wire["client"][m]
        BY <1>1, <1>2, <1>4, <2>1
    <2> QED
        BY <1>2, <1>4, <2>2 DEF HasOpen
<1>5. ASSUME NEW F, wire'["client"] = Append(wire["client"], F) PROVE HasOpen(wire'["client"], i)
    <2>1. m \in DOMAIN Append(wire["client"], F) /\ Append(wire["client"], F)[m] = wire["client"][m]
        BY <1>1, <1>2
    <2> QED
        BY <1>2, <1>5, <2>1 DEF HasOpen
<1> QED
    BY <1>3, <1>4, <1>5, ClientWireNext DEF ClientWire

LEMMA OpenOnWireNext ==
    ASSUME NoForeign, Conforms, [Next]_vars, NEW i \in Ids, OpenSent(i)', i > lastRemoteID'
    PROVE  HasOpen(wire'["client"], i)
<1> USE DEF Conforms
<1>1. "client" \in Ends
    BY DEF Ends
<1>2. i > lastRemoteID
    <2>1. lastRemoteID' \in Nat /\ lastRemoteID' >= lastRemoteID /\ lastRemoteID \in Nat /\ i \in Nat
        BY UsedGrows, IdsNumbers
    <2> QED
        BY <2>1
<1>3. CASE OpenSent(i)
    <2>1. HasOpen(wire["client"], i)
        BY <1>2, <1>3 DEF OpenOnWire, OnWireBefore, HasOpen
    <2> QED
        BY <2>1, HasOpenNext
<1>4. CASE ~OpenSent(i)
    <2>1. PICK t : t = snd'["client"][i]
        OBVIOUS
    <2>2. Asks("client", i, t) /\ Moves("client", i, st'["client"][i])
        BY <1>1, <2>1, AskedNext, MovedNext DEF Asked, Moved
    <2>3. t.pc = "wait" /\ t.type = "OPEN" /\ t.result = "ok"
        BY <1>4, <2>1, <2>2 DEF Moves, OpenSent
    <2>4. snd["client"][i].pc # "wait" => snd["client"][i].result = "none"
        BY <1>1 DEF Proper, RequestProper
    <2>5. /\ WriteRequest("client") /\ i = Head(writes["client"]).id
          /\ SameFrame(snd["client"][i], t) /\ OnWire("client", Head(writes["client"])) /\ st["client"][i].err = "live"
        BY <1>4, <2>2, <2>3, <2>4, IdleFields DEF Asks, Starts, OpenSent, OpenRequest, Idle
    <2>6. writes["client"] \in Seq(Frames) /\ writes["client"] # <<>> /\ wire["client"] \in Seq(Frames)
        BY <1>1, <2>5 DEF TypeOK, WriteRequest
    <2>7. 1 \in DOMAIN writes["client"] /\ writes["client"][1] = Head(writes["client"])
        BY <2>6
    <2>8. PICK F : F = Head(writes["client"])
        BY SMTT(30)
    <2>9. F.type = "OPEN" /\ F.id = i
        BY <1>1, <2>3, <2>5, <2>7, <2>8 DEF SendsOne, Outstanding, SameFrame
    <2>10. wire'["client"] = Append(wire["client"], F)
        BY <1>1, <2>5, <2>8 DEF OnWire, TypeOK
    <2>11. Len(wire["client"]) + 1 \in DOMAIN Append(wire["client"], F)
           /\ Append(wire["client"], F)[Len(wire["client"]) + 1] = F
        BY <2>6
    <2> QED
        BY <2>9, <2>10, <2>11 DEF HasOpen
<1> QED
    BY <1>3, <1>4

LEMMA GrantOpenNext ==
    ASSUME NoForeign, Conforms, [Next]_vars
    PROVE  GrantAfterOpen' /\ OpenOnWire'
<1> USE DEF Conforms
<1>1. "client" \in Ends
    BY DEF Ends
<1>2. wire["client"] \in Seq(Frames) /\ wire'["client"] \in Seq(Frames)
    <2>1. TypeOK'
        BY NextType
    <2> QED
        BY <1>1, <2>1 DEF TypeOK
<1>3. lastRemoteID' >= lastRemoteID /\ lastRemoteID' \in Nat /\ lastRemoteID \in Nat /\ \A i \in Ids : i \in Nat
    BY UsedGrows, IdsNumbers
<1>4. OpenOnWire'
    <2> SUFFICES ASSUME NEW i \in Ids, OpenSent(i)', i > lastRemoteID'
                 PROVE  \E m \in DOMAIN wire'["client"] : /\ m < Len(wire'["client"]) + 1
                                                          /\ wire'["client"][m].type = "OPEN" /\ wire'["client"][m].id = i
        BY DEF OpenOnWire, OnWireBefore
    <2>1. PICK m \in DOMAIN wire'["client"] : wire'["client"][m].type = "OPEN" /\ wire'["client"][m].id = i
        BY OpenOnWireNext DEF HasOpen
    <2>2. m < Len(wire'["client"]) + 1
        BY <1>2
    <2> QED
        BY <2>1, <2>2
<1>5. ASSUME NEW k \in DOMAIN wire'["client"], wire'["client"][k].type = "CREDIT", wire'["client"][k].id > lastRemoteID'
      PROVE  \E m \in DOMAIN wire'["client"] : /\ m < k /\ wire'["client"][m].type = "OPEN"
                                               /\ wire'["client"][m].id = wire'["client"][k].id
    <2>1. PICK i : i = wire'["client"][k].id
        OBVIOUS
    <2>2. i \in Ids
        <3>1. \A F \in Frames : F.id \in Ids
            BY DEF Frames
        <3> QED
            BY <1>2, <2>1, <3>1
    <2>3. i > lastRemoteID
        BY <1>3, <1>5, <2>1, <2>2
    <2>4. ASSUME NEW n \in DOMAIN wire["client"], wire["client"][n] = wire'["client"][k]
          PROVE  \E m \in DOMAIN wire["client"] : m < n /\ wire["client"][m].type = "OPEN" /\ wire["client"][m].id = i
        BY <1>5, <2>1, <2>3, <2>4 DEF GrantAfterOpen, OnWireBefore
    <2>5. CASE wire'["client"] = wire["client"]
        BY <2>1, <2>4, <2>5
    <2>6. CASE /\ wire["client"] # <<>> /\ wire'["client"] = Tail(wire["client"])
               /\ lastRemoteID' = IF Head(wire["client"]).type = "OPEN" THEN Head(wire["client"]).id ELSE lastRemoteID
        <3>1. k \in Nat /\ k + 1 \in DOMAIN wire["client"] /\ wire["client"][k + 1] = wire'["client"][k]
            BY <1>2, <2>6, TailElements
        <3>2. PICK m \in DOMAIN wire["client"] : m < k + 1 /\ wire["client"][m].type = "OPEN" /\ wire["client"][m].id = i
            BY <2>4, <3>1
        <3>3. ASSUME m = 1 PROVE FALSE
            <4>1. Head(wire["client"]) = wire["client"][m]
                BY <1>2, <2>6, <3>3
            <4>2. lastRemoteID' = i
                BY <2>6, <3>2, <4>1
            <4> QED
                BY <1>3, <1>5, <2>1, <2>2, <4>2
        <3>4. m - 1 \in DOMAIN Tail(wire["client"]) /\ Tail(wire["client"])[m - 1] = wire["client"][m] /\ m - 1 < k
            BY <1>2, <2>6, <3>1, <3>2, <3>3
        <3> QED
            BY <2>1, <2>6, <3>2, <3>4
    <2>7. ASSUME NEW F \in Frames, PutsOn("client", F), wire'["client"] = Append(wire["client"], F)
          PROVE  \E m \in DOMAIN wire'["client"] : m < k /\ wire'["client"][m].type = "OPEN" /\ wire'["client"][m].id = i
        <3>1. \A m \in DOMAIN wire["client"] : m \in DOMAIN wire'["client"] /\ wire'["client"][m] = wire["client"][m]
            BY <1>2, <2>7
        <3>2. \/ k \in DOMAIN wire["client"] /\ wire'["client"][k] = wire["client"][k]
              \/ k = Len(wire["client"]) + 1 /\ wire'["client"][k] = F
            BY <1>2, <2>7, AppendElements
        <3>3. CASE k \in DOMAIN wire["client"] /\ wire'["client"][k] = wire["client"][k]
            BY <2>4, <3>1, <3>3
        <3>4. CASE k = Len(wire["client"]) + 1 /\ wire'["client"][k] = F
            <4>1. OpenSent(i)
                BY <1>5, <2>1, <2>7, <3>4, CreditPut
            <4>2. PICK m \in DOMAIN wire["client"] : wire["client"][m].type = "OPEN" /\ wire["client"][m].id = i
                BY <2>2, <2>3, <4>1 DEF OpenOnWire, OnWireBefore
            <4>3. m < k
                BY <1>2, <3>4
            <4> QED
                BY <3>1, <4>2, <4>3
        <3> QED
            BY <3>2, <3>3, <3>4
    <2> QED
        BY <2>1, <2>5, <2>6, <2>7, ClientWireNext DEF ClientWire
<1>6. GrantAfterOpen'
    BY <1>5 DEF GrantAfterOpen, OnWireBefore
<1> QED
    BY <1>4, <1>6

(* Where an OPEN of the client was before the step.                        *)
LEMMA OpenOnWireWas ==
    ASSUME NoForeign, Conforms, [Next]_vars, NEW k \in OpenFrames(wire'["client"])
    PROVE  /\ wire'["client"][k].id > lastRemoteID' /\ wire'["client"][k].id \in Ids
           /\ \/ \E m \in OpenFrames(wire["client"]) : wire'["client"][k] = wire["client"][m]
              \/ /\ WriteRequest("client") /\ 1 \in OpenFrames(writes["client"])
                 /\ wire'["client"][k] = writes["client"][1]
<1> USE DEF Conforms
<1>1. wire["client"] \in Seq(Frames)
    BY DEF TypeOK, Ends
<1>2. k \in DOMAIN wire'["client"] /\ wire'["client"][k].type = "OPEN"
    BY DEF OpenFrames
<1>3. /\ \A m \in OpenFrames(wire["client"]) : wire["client"][m].id > lastRemoteID /\ wire["client"][m].id \in Ids
      /\ \A m \in OpenFrames(writes["client"]) : writes["client"][m].id > lastRemoteID /\ writes["client"][m].id \in Ids
    BY FrameIds DEF IdOrder, Ahead, OpenFrames, Ends
<1>4. CASE wire'["client"] = wire["client"] /\ lastRemoteID' = lastRemoteID
    BY <1>3, <1>4
<1>5. CASE /\ wire["client"] # <<>> /\ wire'["client"] = Tail(wire["client"])
           /\ lastRemoteID' = IF Head(wire["client"]).type = "OPEN" THEN Head(wire["client"]).id ELSE lastRemoteID
    <2>1. k \in Nat \ {0} /\ k + 1 \in DOMAIN wire["client"] /\ wire["client"][k + 1] = wire'["client"][k]
        BY <1>1, <1>2, <1>5, TailElements
    <2>2. k + 1 \in OpenFrames(wire["client"])
        BY <1>2, <2>1 DEF OpenFrames
    <2>3. 1 \in DOMAIN wire["client"] /\ Head(wire["client"]) = wire["client"][1] /\ 1 < k + 1
        BY <1>1, <1>5, <2>1
    <2>4. wire["client"][k + 1].id > lastRemoteID'
        <3>1. CASE Head(wire["client"]).type = "OPEN"
            <4>1. 1 \in OpenFrames(wire["client"])
                BY <2>3, <3>1 DEF OpenFrames
            <4>2. wire["client"][1].id < wire["client"][k + 1].id
                BY <2>2, <2>3, <4>1 DEF IdOrder, Ascending
            <4>3. wire["client"][1].id \in Ids /\ wire["client"][k + 1].id \in Ids
                BY <1>3, <2>2, <4>1
            <4>4. lastRemoteID' = wire["client"][1].id
                BY <1>5, <2>3, <3>1
            <4> QED
                BY <4>2, <4>3, <4>4, IdsNumbers
        <3>2. CASE Head(wire["client"]).type # "OPEN"
            BY <1>3, <1>5, <2>2, <3>2
        <3> QED
            BY <3>1, <3>2
    <2> QED
        BY <1>3, <2>1, <2>2, <2>4
<1>6. ASSUME NEW F \in Frames, PutsOn("client", F), wire'["client"] = Append(wire["client"], F),
             lastRemoteID' = lastRemoteID
      PROVE  /\ wire'["client"][k].id > lastRemoteID' /\ wire'["client"][k].id \in Ids
             /\ \/ \E m \in OpenFrames(wire["client"]) : wire'["client"][k] = wire["client"][m]
                \/ /\ WriteRequest("client") /\ 1 \in OpenFrames(writes["client"])
                   /\ wire'["client"][k] = writes["client"][1]
    <2>1. \/ k \in DOMAIN wire["client"] /\ wire'["client"][k] = wire["client"][k]
          \/ k = Len(wire["client"]) + 1 /\ wire'["client"][k] = F
        BY <1>1, <1>2, <1>6, AppendElements
    <2>2. CASE k \in DOMAIN wire["client"] /\ wire'["client"][k] = wire["client"][k]
        <3>1. k \in OpenFrames(wire["client"])
            BY <1>2, <2>2 DEF OpenFrames
        <3> QED
            BY <1>3, <1>6, <2>2, <3>1
    <2>3. CASE wire'["client"][k] = F
        <3>1. WriteRequest("client") /\ writes["client"][1] = F /\ 1 \in OpenFrames(writes["client"])
            BY <1>2, <1>6, <2>3, OpenPut
        <3> QED
            BY <1>3, <1>6, <2>3, <3>1
    <2> QED
        BY <2>1, <2>2, <2>3
<1> QED
    BY <1>4, <1>5, <1>6, ClientWireNext DEF ClientWire

LEMMA OpenQueuedWas ==
    ASSUME NoForeign, TypeOK, [Next]_vars, NEW k \in OpenFrames(writes'["client"])
    PROVE  \/ \E m \in OpenFrames(writes["client"]) :
                 writes'["client"][k] = writes["client"][m] /\ (WriteRequest("client") => m = k + 1 /\ k \in Nat \ {0})
                 /\ (~WriteRequest("client") => m = k)
           \/ \E i \in Ids : /\ Enqueue("client", i) /\ snd["client"][i].type = "OPEN" /\ writes'["client"][k].id = i
                             /\ k = Len(writes["client"]) + 1 /\ ~WriteRequest("client")
<1>1. "client" \in Ends
    BY DEF Ends
<1>2. k \in DOMAIN writes'["client"] /\ writes'["client"][k].type = "OPEN"
    BY DEF OpenFrames
<1>3. CASE /\ WriteRequest("client") /\ k \in Nat \ {0} /\ k + 1 \in DOMAIN writes["client"]
           /\ writes'["client"][k] = writes["client"][k + 1]
    <2>1. k + 1 \in OpenFrames(writes["client"])
        BY <1>2, <1>3 DEF OpenFrames
    <2> QED
        BY <1>3, <2>1
<1>4. CASE ~WriteRequest("client") /\ k \in DOMAIN writes["client"] /\ writes'["client"][k] = writes["client"][k]
    <2>1. k \in OpenFrames(writes["client"])
        BY <1>2, <1>4 DEF OpenFrames
    <2> QED
        BY <1>4, <2>1
<1> QED
    BY <1>1, <1>2, <1>3, <1>4, OldFrame

LEMMA AscendingTail ==
    ASSUME NEW q \in Seq(Frames), q # <<>>, Ascending(q)
    PROVE  Ascending(Tail(q))
<1> SUFFICES ASSUME NEW j \in OpenFrames(Tail(q)), NEW k \in OpenFrames(Tail(q)), j < k
             PROVE  Tail(q)[j].id < Tail(q)[k].id
    BY DEF Ascending
<1>1. /\ j \in Nat /\ j + 1 \in DOMAIN q /\ Tail(q)[j] = q[j + 1]
      /\ k \in Nat /\ k + 1 \in DOMAIN q /\ Tail(q)[k] = q[k + 1]
    BY TailElements DEF OpenFrames
<1>2. j + 1 \in OpenFrames(q) /\ k + 1 \in OpenFrames(q)
    BY <1>1 DEF OpenFrames
<1>3. j + 1 < k + 1
    BY <1>1
<1>4. q[j + 1].id < q[k + 1].id
    BY <1>2, <1>3 DEF Ascending
<1> QED
    BY <1>1, <1>4

LEMMA AscendingAppend ==
    ASSUME NEW q \in Seq(Frames), NEW F \in Frames, Ascending(q), F.type = "OPEN" => Below(q, F.id)
    PROVE  Ascending(Append(q, F))
<1> SUFFICES ASSUME NEW j \in OpenFrames(Append(q, F)), NEW k \in OpenFrames(Append(q, F)), j < k
             PROVE  Append(q, F)[j].id < Append(q, F)[k].id
    BY DEF Ascending
<1>1. /\ \/ j \in DOMAIN q /\ Append(q, F)[j] = q[j]
         \/ j = Len(q) + 1 /\ Append(q, F)[j] = F
      /\ \/ k \in DOMAIN q /\ Append(q, F)[k] = q[k]
         \/ k = Len(q) + 1 /\ Append(q, F)[k] = F
    BY AppendElements DEF OpenFrames
<1>2. j \in DOMAIN q /\ Append(q, F)[j] = q[j]
    <2>1. j # Len(q) + 1
        <3>1. k \in 1..(Len(q) + 1) /\ Len(q) \in Nat
            BY DEF OpenFrames
        <3> QED
            BY <3>1
    <2> QED
        BY <1>1, <2>1
<1>3. j \in OpenFrames(q)
    BY <1>2 DEF OpenFrames
<1>4. CASE k \in DOMAIN q /\ Append(q, F)[k] = q[k]
    <2>1. k \in OpenFrames(q)
        BY <1>4 DEF OpenFrames
    <2>2. q[j].id < q[k].id
        BY <1>3, <2>1 DEF Ascending
    <2> QED
        BY <1>2, <1>4, <2>2
<1>5. CASE Append(q, F)[k] = F
    <2>1. F.type = "OPEN"
        BY <1>5 DEF OpenFrames
    <2>2. q[j].id < F.id
        BY <1>3, <2>1 DEF Below
    <2> QED
        BY <1>2, <1>5, <2>2
<1> QED
    BY <1>1, <1>4, <1>5

(* What the server has seen is what it had seen, or the next OPEN.         *)
LEMMA RemoteWas ==
    ASSUME NoForeign, TypeOK, [Next]_vars
    PROVE  \/ lastRemoteID' = lastRemoteID
           \/ /\ \E m \in OpenFrames(wire["client"]) : lastRemoteID' = wire["client"][m].id
              /\ UNCHANGED <<snd, writes, nextID>>
<1>1. wire["client"] \in Seq(Frames)
    BY DEF TypeOK, Ends
<1>2. ASSUME wire["client"] # <<>>, Head(wire["client"]).type = "OPEN"
      PROVE  1 \in OpenFrames(wire["client"]) /\ wire["client"][1] = Head(wire["client"])
    <2>1. 1 \in DOMAIN wire["client"] /\ wire["client"][1] = Head(wire["client"])
        BY <1>1, <1>2
    <2> QED
        BY <1>2, <2>1 DEF OpenFrames
<1> QED
    BY <1>2, ClientWireNext DEF ClientWire

LEMMA WireAscends ==
    ASSUME NoForeign, Conforms, [Next]_vars
    PROVE  Ascending(wire'["client"])
<1> USE DEF Conforms
<1>1. wire["client"] \in Seq(Frames) /\ Ascending(wire["client"])
    BY DEF TypeOK, Ends, IdOrder
<1>2. ASSUME NEW F \in Frames, PutsOn("client", F) PROVE F.type = "OPEN" => Below(wire["client"], F.id)
    BY <1>2, OpenPut DEF IdOrder
<1> QED
    BY <1>1, <1>2, ClientWireNext, AscendingTail, AscendingAppend DEF ClientWire

(* What a queued OPEN has before it.                                       *)
LEMMA QueuedOpen ==
    ASSUME Conforms, NEW i \in Ids, Enqueue("client", i), snd["client"][i].type = "OPEN"
    PROVE  Last(i) /\ i > lastRemoteID /\ Below(wire["client"], i) /\ Below(writes["client"], i)
BY DEF Conforms, IdOrder, OpensLast, Enqueue

LEMMA WritesAscend ==
    ASSUME NoForeign, Conforms, [Next]_vars
    PROVE  Ascending(writes'["client"])
<1> USE DEF Conforms
<1>1. writes["client"] \in Seq(Frames) /\ Ascending(writes["client"]) /\ "client" \in Ends
    BY DEF TypeOK, Ends, IdOrder
<1>2. CASE writes'["client"] = writes["client"]
    BY <1>1, <1>2
<1>3. CASE writes'["client"] = <<>>
    BY <1>3 DEF Ascending, OpenFrames
<1>4. CASE writes["client"] # <<>> /\ writes'["client"] = Tail(writes["client"])
    BY <1>1, <1>4, AscendingTail
<1>5. ASSUME NEW i \in Ids, Enqueue("client", i), writes'["client"] = Append(writes["client"], QueuedFrame("client", i)),
             QueuedFrame("client", i) \in Frames, QueuedFrame("client", i).id = i,
             QueuedFrame("client", i).type = snd["client"][i].type
      PROVE  Ascending(writes'["client"])
    BY <1>1, <1>5, QueuedOpen, AscendingAppend
<1> QED
    BY <1>1, <1>2, <1>3, <1>4, <1>5, QueuesNext DEF Queues

(* Every OPEN under way is below one that has yet to be written.           *)
LEMMA BelowKept ==
    ASSUME NoForeign, Conforms, [Next]_vars, NEW i \in Ids, Below(wire["client"], i),
           WriteRequest("client") /\ 1 \in OpenFrames(writes["client"]) => writes["client"][1].id < i
    PROVE  Below(wire'["client"], i)
BY OpenOnWireWas DEF Below

LEMMA RemoteBelow ==
    ASSUME NoForeign, Conforms, [Next]_vars, NEW i \in Ids, Below(wire["client"], i), i > lastRemoteID
    PROVE  i > lastRemoteID'
<1> USE DEF Conforms
<1>1. ASSUME NEW m \in OpenFrames(wire["client"]) PROVE wire["client"][m].id \in Ids /\ wire["client"][m].id < i
    BY <1>1, FrameIds DEF Below, OpenFrames, Ends
<1>2. \A m \in OpenFrames(wire["client"]) : i > wire["client"][m].id
    BY <1>1, IdsNumbers
<1> QED
    BY <1>2, RemoteWas

(* Used in the next state.                                                 *)
UsedAfter(i) == nextID' = 0 \/ i < nextID'

LEMMA UsedKept ==
    ASSUME TypeOK, [Next]_vars, NEW i \in Ids, Used(i)
    PROVE  UsedAfter(i)
BY UsedGrows DEF Used, UsedAfter

LEMMA QueueAfterWire ==
    ASSUME NoForeign, Conforms, [Next]_vars, NEW k \in OpenFrames(writes'["client"])
    PROVE  /\ Below(wire'["client"], writes'["client"][k].id)
           /\ writes'["client"][k].id > lastRemoteID'
           /\ UsedAfter(writes'["client"][k].id)
<1> USE DEF Conforms
<1>1. "client" \in Ends
    BY DEF Ends
<1>2. ASSUME NEW m \in OpenFrames(writes["client"]), writes'["client"][k] = writes["client"][m],
             WriteRequest("client") => m = k + 1 /\ k \in Nat \ {0}
      PROVE  /\ Below(wire'["client"], writes'["client"][k].id)
             /\ writes'["client"][k].id > lastRemoteID'
             /\ UsedAfter(writes'["client"][k].id)
    <2>1. PICK i \in Ids : i = writes["client"][m].id
        BY <1>1, FrameIds DEF OpenFrames
    <2>2. Below(wire["client"], i) /\ i > lastRemoteID /\ Used(i)
        BY <2>1 DEF IdOrder, Ahead
    <2>3. ASSUME WriteRequest("client"), 1 \in OpenFrames(writes["client"]) PROVE writes["client"][1].id < i
        <3>1. 1 < m
            BY <1>2, <2>3
        <3> QED
            BY <2>1, <2>3, <3>1 DEF IdOrder, Ascending
    <2>4. UsedAfter(i)
        BY <2>2, UsedKept
    <2> QED
        BY <1>2, <2>1, <2>2, <2>3, <2>4, BelowKept, RemoteBelow
<1>3. ASSUME NEW i \in Ids, Enqueue("client", i), snd["client"][i].type = "OPEN", writes'["client"][k].id = i,
             ~WriteRequest("client")
      PROVE  /\ Below(wire'["client"], writes'["client"][k].id)
             /\ writes'["client"][k].id > lastRemoteID'
             /\ UsedAfter(writes'["client"][k].id)
    <2>1. Last(i) /\ i > lastRemoteID /\ Below(wire["client"], i)
        BY <1>3, QueuedOpen
    <2>2. UsedAfter(i)
        BY <2>1, UsedKept DEF Last
    <2> QED
        BY <1>3, <2>1, <2>2, BelowKept, RemoteBelow
<1> QED
    BY <1>2, <1>3, OpenQueuedWas

LEMMA WireAhead ==
    ASSUME NoForeign, Conforms, [Next]_vars, NEW k \in OpenFrames(wire'["client"])
    PROVE  UsedAfter(wire'["client"][k].id)
<1> USE DEF Conforms
<1>1. wire'["client"][k].id \in Ids
    BY OpenOnWireWas
<1>2. Used(wire'["client"][k].id)
    BY OpenOnWireWas DEF IdOrder, Ahead
<1> QED
    BY <1>1, <1>2, UsedKept

(* openMu: while one OPEN is on its way no other stream is opened.         *)
LEMMA LastKept ==
    ASSUME NoForeign, Conforms, [Next]_vars, NEW i \in Ids,
           snd["client"][i].pc # "idle", snd["client"][i].type = "OPEN"
    PROVE  ~Open /\ Last(i)'
<1> USE DEF Conforms
<1>1. Last(i)
    BY DEF IdOrder, OpensLast
<1>2. ~Open
    BY DEF Open, Opening
<1>3. \A j \in Ids : Used(j)' <=> Used(j)
    BY <1>2, UsedGrows
<1> QED
    BY <1>1, <1>2, <1>3 DEF Last

LEMMA OpensLastNext ==
    ASSUME NoForeign, Conforms, [Next]_vars, NEW i \in Ids
    PROVE  OpensLast(i)'
<1> USE DEF Conforms
<1>1. "client" \in Ends
    BY DEF Ends
<1>2. PICK t : t = snd'["client"][i]
    OBVIOUS
<1> SUFFICES ASSUME t.pc # "idle", t.type = "OPEN"
             PROVE  /\ Last(i)'
                    /\ t.pc = "queue" => /\ i > lastRemoteID' /\ Below(wire'["client"], i) /\ Below(writes'["client"], i)
    BY <1>2 DEF OpensLast
<1>3. Asks("client", i, t) /\ RequestProper("client", i)
    BY <1>1, <1>2, AskedNext DEF Asked, Proper
<1>4. CASE t = snd["client"][i]
    <2>1. ~Open /\ Last(i)' /\ Last(i)
        BY <1>4, LastKept DEF IdOrder, OpensLast
    <2>2. ASSUME t.pc = "queue"
          PROVE  i > lastRemoteID' /\ Below(wire'["client"], i) /\ Below(writes'["client"], i)
        <3>1. i > lastRemoteID /\ Below(wire["client"], i) /\ Below(writes["client"], i)
            BY <1>4, <2>2 DEF IdOrder, OpensLast
        <3>2. i > lastRemoteID' /\ Below(wire'["client"], i)
            BY <3>1, BelowKept, RemoteBelow DEF Below
        <3>3. ASSUME NEW k \in OpenFrames(writes'["client"]) PROVE writes'["client"][k].id < i
            <4>1. ASSUME NEW l \in Ids, Enqueue("client", l), snd["client"][l].type = "OPEN" PROVE FALSE
                <5>1. Last(l)
                    BY <4>1, QueuedOpen
                <5>2. l \in Nat /\ i \in Nat /\ l <= i /\ i <= l
                    BY <2>1, <5>1, IdsNumbers DEF Last
                <5>3. l = i
                    BY <5>2
                <5>4. snd'["client"][i].pc = "wait"
                    BY <1>1, <4>1, <5>3 DEF Enqueue, TypeOK, Request
                <5> QED
                    BY <1>2, <2>2, <5>4
            <4> QED
                BY <3>1, <4>1, OpenQueuedWas DEF Below
        <3> QED
            BY <3>2, <3>3 DEF Below
    <2> QED
        BY <2>1, <2>2
<1>5. CASE Open /\ i = nextID
    <2>1. ~Used(i) /\ nextID # 0 /\ UNCHANGED <<wire, writes, lastRemoteID>>
        BY <1>5, OpensNew DEF Open, queues
    <2>2. i \in Nat /\ lastRemoteID \in Nat /\ \A j \in Ids : j \in Nat
        BY IdsNumbers
    <2>3. Last(i)'
        <3>1. Used(i)'
            BY <1>5, UsedGrows
        <3>2. ASSUME NEW j \in Ids, Used(j)' PROVE j <= i
            <4>1. Used(j) \/ j = i
                BY <1>5, <3>2, UsedGrows
            <4>2. j < i \/ j = i
                BY <1>5, <2>1, <4>1 DEF Used
            <4> QED
                BY <2>2, <4>2
        <3> QED
            BY <3>1, <3>2 DEF Last
    <2>4. i > lastRemoteID'
        BY <2>1, <2>2 DEF Untouched
    <2>5. Below(wire'["client"], i) /\ Below(writes'["client"], i)
        BY <1>5, <2>1 DEF IdOrder, Ahead, Below, Used
    <2> QED
        BY <2>3, <2>4, <2>5
<1>6. CASE t.pc = "wait" /\ snd["client"][i].pc # "idle" /\ snd["client"][i].type = "OPEN"
    BY <1>6, LastKept
<1>7. \/ t = snd["client"][i]
      \/ Open /\ i = nextID
      \/ t.pc = "wait" /\ snd["client"][i].pc # "idle" /\ snd["client"][i].type = "OPEN"
    BY <1>3, IdleFields DEF Asks, Starts, RequestProper, SameFrame
<1> QED
    BY <1>4, <1>5, <1>6, <1>7

LEMMA IdOrderNext ==
    ASSUME NoForeign, Conforms, [Next]_vars
    PROVE  IdOrder'
<1>1. Ascending(wire["client"])' /\ Ascending(writes["client"])'
    BY WireAscends, WritesAscend
<1>2. ASSUME NEW k \in OpenFrames(writes'["client"]) PROVE Below(wire'["client"], writes'["client"][k].id)
    BY QueueAfterWire
<1>3. Ahead(wire["client"])'
    BY OpenOnWireWas, WireAhead DEF Ahead, UsedAfter, Used
<1>4. Ahead(writes["client"])'
    BY QueueAfterWire DEF Ahead, UsedAfter, Used
<1>5. \A i \in Ids : OpensLast(i)'
    BY OpensLastNext
<1> QED
    BY <1>1, <1>2, <1>3, <1>4, <1>5 DEF IdOrder

LEMMA ConformsNext ==
    ASSUME NoForeign, Conforms, [Next]_vars, WindowAccounted', SlotsBounded'
    PROVE  Conforms'
<1>1. TypeOK'
    BY NextType DEF Conforms
<1> QED
    BY <1>1, ProperNext, UntouchedNext, UnreadNext, GrantOpenNext, ToldNext, LedgerNext, QueueNext, SendsOneNext, IdOrderNext
    DEF Conforms

LEMMA InitConforms == Init => Conforms
<1> SUFFICES ASSUME Init PROVE Conforms
    OBVIOUS
<1>1. TypeOK
    BY InitType
<1>2. \A e \in Ends, i \in Ids : st[e][i] = NoStream /\ snd[e][i] = Idle /\ closing[e][i] = "no"
    BY DEF Init
<1>3. \A e \in Ends : /\ writes[e] = <<>> /\ wire[e] = <<>> /\ controls[e] = <<>> /\ rd[e] = Rest
                      /\ accepted[e] = {}
    BY DEF Init
<1>4. acceptQ = <<>> /\ nextID = 1 /\ lastRemoteID = 0
    BY DEF Init
<1>5. \A e \in Ends : Peer(e) \in Ends
    BY PeerEnds
<1>6. WindowAccounted /\ UnreadLive
    BY <1>2 DEF WindowAccounted, UnreadLive, NoStream
<1>7. SlotsBounded
    <2> SUFFICES ASSUME NEW e \in Ends PROVE Cardinality(Live(e)) <= MaxStreams[e]
        BY DEF SlotsBounded
    <2>1. Live(e) = {}
        BY <1>2 DEF Live, NoStream
    <2> QED
        BY <2>1, FS_EmptySet, SessionAssumption
<1>8. Proper /\ SendsOne
    BY <1>2, <1>3 DEF Proper, RequestProper, SendsOne, Idle, Ends
<1>9. Untouched
    <2>1. \A i \in Ids : i \in Nat /\ ~(i < 1) /\ ~(i <= 0)
        BY DEF Ids
    <2> QED
        BY <1>2, <1>3, <1>4, <2>1 DEF Untouched, Used, Fresh, NoStream, Ends
<1>10. GrantAfterOpen /\ OpenOnWire
    BY <1>2, <1>3 DEF GrantAfterOpen, OpenOnWire, OpenSent, NoStream, Idle, Ends
<1>11. ToldOnlyWhenDone
    <2>1. \A i \in Ids : i # 0
        BY DEF Ids
    <2> QED
        BY <1>2, <1>3, <1>5, <2>1 DEF ToldOnlyWhenDone, Told, NoStream, Rest
<1>12. LedgerInv
    <2> SUFFICES ASSUME NEW e \in Ends, NEW i \in Ids PROVE Ledger(e, i)
        BY DEF LedgerInv
    <2>1. Peer(e) \in Ends /\ StreamBuffer[Peer(e)] \in Nat
        BY <1>5, SessionAssumption
    <2>2. Owing(e, i) = 0 /\ Granting(Peer(e), i) = 0
        <3>1. \A t : Outgoing(e, t, i) = 0 /\ Outgoing(Peer(e), t, i) = 0
            BY <1>3, <2>1, BytesEmpty DEF Outgoing
        <3>2. st[e][i].sendCredit = 0 /\ Reserved(e, i) = 0
            BY <1>2 DEF NoStream, Reserved, Idle
        <3> QED
            BY <3>1, <3>2 DEF Owing, Granting
    <2>3. Grants(Peer(e), i) = {}
        BY <1>3, <2>1 DEF Grants
    <2>4. st[e][i] = NoStream /\ st[Peer(e)][i] = NoStream
        BY <1>2, <2>1
    <2> QED
        BY <2>1, <2>2, <2>3, <2>4 DEF Ledger, Covered, Credit, WindowFixed, FirstGrant, Balanced, NoStream
<1>13. Queue
    BY <1>4 DEF Queue
<1>14. IdOrder
    BY <1>2, <1>3 DEF IdOrder, Ascending, OpenFrames, Ahead, OpensLast, Idle, Ends
<1> QED
    BY <1>1, <1>6, <1>7, <1>8, <1>9, <1>10, <1>11, <1>12, <1>13, <1>14 DEF Conforms

-----------------------------------------------------------------------------
LEMMA NothingInvalid ==
    ASSUME Conforms, NEW e \in Ends
    PROVE  ~RecvInvalid(e)
<1> USE DEF Conforms
<1> SUFFICES ASSUME RecvInvalid(e) PROVE FALSE
    OBVIOUS
<1>1. Peer(e) \in Ends /\ wire[Peer(e)] # <<>> /\ wire[Peer(e)] \in Seq(Frames)
    BY PeerEnds DEF RecvInvalid, Reading, TypeOK
<1>2. 1 \in DOMAIN wire[Peer(e)] /\ wire[Peer(e)][1] = Head(wire[Peer(e)])
    BY <1>1
<1>3. WireProper(Peer(e), Head(wire[Peer(e)]))
    BY <1>1, <1>2 DEF Proper
<1>4. Head(wire[Peer(e)]).type = "OPEN" /\ Peer(e) = "client" /\ Head(wire[Peer(e)]).id <= lastRemoteID
    BY <1>3 DEF RecvInvalid, Reading, WireProper, Peer
<1>5. 1 \in OpenFrames(wire["client"]) /\ wire["client"][1].id <= lastRemoteID /\ wire["client"][1].id \in Ids
    BY <1>1, <1>2, <1>4, FrameIds DEF OpenFrames
<1>6. wire["client"][1].id > lastRemoteID
    BY <1>5 DEF IdOrder, Ahead
<1> QED
    BY <1>5, <1>6, IdsNumbers

(* Why a session fails.                                                    *)
LEMMA FailsFor ==
    ASSUME Conforms, NEW e \in Ends, Failing(e)
    PROVE  \E why : Fail(e, why) /\ why # "protocol"
<1>1. ~RecvInvalid(e)
    BY NothingInvalid
<1>2. CASE ReaderDrained(e)
    BY <1>2 DEF ReaderDrained
<1>3. CASE ReadFails(e)
    BY <1>3 DEF ReadFails
<1>4. CASE WriteFails(e)
    BY <1>4 DEF WriteFails
<1>5. CASE Drained(e)
    BY <1>5 DEF Drained
<1>6. CASE CloseSession(e)
    BY <1>6 DEF CloseSession
<1>7. CASE IdleExpire(e)
    BY <1>7 DEF IdleExpire
<1> QED
    BY <1>1, <1>2, <1>3, <1>4, <1>5, <1>6, <1>7 DEF Failing

LEMMA PeersConformNext ==
    ASSUME NoForeign, Conforms, [Next]_vars, PeersConform
    PROVE  PeersConform'
<1> USE DEF Conforms
<1>1. ASSUME NEW f \in Ends, NEW j \in Ids PROVE st'[f][j].err \notin {"window", "invalid", "limit"}
    <2>1. Moves(f, j, st'[f][j])
        BY MovedNext DEF Moved
    <2> QED
        BY <2>1 DEF Moves, PeersConform, Endings
<1>2. \/ err' = err
      \/ \E e \in Ends : \E why : Fail(e, why) /\ why # "protocol"
    <2>1. ASSUME NEW e \in Ends, Failing(e) PROVE \E why : Fail(e, why) /\ why # "protocol"
        BY <2>1, FailsFor
    <2>2. ASSUME Open \/ OpenExhausted \/ Accept \/ RecvOpen \/ UNCHANGED vars PROVE err' = err
        BY <2>2 DEF Open, OpenExhausted, Accept, RecvOpen, vars
    <2>3. ASSUME NEW e \in Ends, NEW i \in Ids,
                 \/ Close(e, i) \/ Sender(e, i) \/ Consumer(e, i) \/ QueueClose(e, i)
                 \/ \E n \in 1..MaxBytes[e] : Write(e, i, n)
          PROVE  err' = err
        BY <2>3, Zenon DEF Close, Sender, Reserve, Enqueue, Sent, SendFails, Consumer, ReadEOF, Read, QueueClose, Write
    <2>4. ASSUME NEW e \in Ends,
                 RecvData(e) \/ RecvCredit(e) \/ RecvClose(e) \/ ReaderCloses(e) \/ Drain(e) \/ IdleCheck(e)
                     \/ WriteControl(e) \/ WriteRequest(e) \/ WriteCredit(e) \/ ForeignFrame(e)
          PROVE  err' = err
        BY <2>4, Zenon DEF RecvData, RecvCredit, RecvClose, ReaderCloses, Drain, IdleCheck, WriteControl, WriteRequest,
                    WriteCredit, ForeignFrame
    <2> QED
        BY <2>1, <2>2, <2>3, <2>4, Zenon DEF Next, Business, Reader, Writer, Failing, Ended
<1>3. ASSUME NEW f \in Ends PROVE err'[f] # "protocol"
    <2>1. ASSUME NEW e \in Ends, NEW why, Fail(e, why) PROVE err'[f] = IF f = e THEN why ELSE err[f]
        BY <2>1, FailEffect
    <2> QED
        BY <1>2, <2>1 DEF PeersConform
<1> QED
    BY <1>1, <1>3 DEF PeersConform

LEMMA ConformsAlways == ASSUME NoForeign PROVE Spec => []Conforms
<1>1. Init => Conforms
    BY InitConforms
<1>2. Conforms /\ [Next]_vars /\ WindowAccounted' /\ SlotsBounded' => Conforms'
    BY ConformsNext
<1> QED
    BY <1>1, <1>2, SessionWindows, SessionSlots, PTL DEF Spec

(* Two ends that both run this code never reset a stream for breaking the  *)
(* window, never overflow the accept queue and never take each other's     *)
(* frames for a protocol error (session.go, readLoop), for                 *)
(* every size of window, buffer and queue and every number of streams.     *)
THEOREM SessionPeersConform == ASSUME NoForeign PROVE Spec => []PeersConform
<1>1. Init => PeersConform
    BY DEF Init, PeersConform, NoStream
<1>2. Conforms /\ PeersConform /\ [Next]_vars => PeersConform'
    BY PeersConformNext
<1> QED
    BY <1>1, <1>2, ConformsAlways, PTL DEF Spec

(* Credit is neither lost nor made up between two such ends (session.go,   *)
(* reserveCredit, receiveData, receiveCredit, nextCredit).                 *)
THEOREM SessionCreditConserved == ASSUME NoForeign PROVE Spec => []CreditConserved
<1>1. Conforms => CreditConserved
    <2> SUFFICES ASSUME Conforms, NEW e \in Ends, NEW i \in Ids,
                        st[e][i].err = "live", ~st[e][i].remoteEOF, st[Peer(e)][i].err = "live"
                 PROVE  st[e][i].sendCredit + Reserved(e, i) + Outgoing(e, "DATA", i) + Outgoing(Peer(e), "CREDIT", i)
                            = st[Peer(e)][i].receiveCredit
        BY DEF CreditConserved
    <2>1. Ledger(e, i) /\ Listens(e, i)
        BY DEF Conforms, LedgerInv, Listens
    <2> QED
        BY <2>1 DEF Ledger, Balanced, Owing, Granting
<1> QED
    BY <1>1, ConformsAlways, PTL

-----------------------------------------------------------------------------
(* What a step does to the bytes a stream holds and to the end of it.      *)

ClosedBy(f, j) ==
    /\ wire[Peer(f)] # <<>> /\ Head(wire[Peer(f)]).type = "CLOSE" /\ Head(wire[Peer(f)]).id = j
    /\ wire' = [wire EXCEPT ![Peer(f)] = Tail(@)]

Stores(f, j, t) ==
    /\ t.err = "live" => \/ st[f][j].err = "live" /\ t.buffered = st[f][j].buffered
                         \/ st[f][j].err = "new" /\ t.buffered = 0 /\ ~t.remoteEOF
    /\ t.err = "EOF" => \/ st[f][j].err = "EOF"
                        \/ st[f][j].err = "live" /\ st[f][j].remoteEOF /\ st[f][j].buffered = 0 /\ t.remoteEOF
    /\ t.remoteEOF => st[f][j].remoteEOF \/ ClosedBy(f, j)

Stored == \A f \in Ends, j \in Ids : Stores(f, j, st'[f][j])

TakesIn(e, i, n) ==
    /\ wire[Peer(e)] # <<>> /\ Head(wire[Peer(e)]).type = "DATA"
    /\ i = Head(wire[Peer(e)]).id /\ n = Head(wire[Peer(e)]).n
    /\ ~Ignores(e, i) /\ SetStream(e, i, TakenIn(e, i, n)) /\ UNCHANGED <<snd, acked, consumed, lastRemoteID>>
    /\ TakesOff(e)

LEMMA SameStores == ASSUME NEW f, NEW j PROVE Stores(f, j, st[f][j])
BY DEF Stores

LEMMA NoneStores == st' = st => Stored
BY DEF Stored, Stores

LEMMA OneStores ==
    ASSUME TypeOK, NEW e \in Ends, NEW i \in Ids, NEW s, SetStream(e, i, s), Stores(e, i, s)
    PROVE  Stored
<1> SUFFICES ASSUME NEW f \in Ends, NEW j \in Ids PROVE Stores(f, j, st'[f][j])
    BY DEF Stored
<1>1. CASE f = e /\ j = i
    BY <1>1, SetStreamElsewhere
<1>2. CASE f # e \/ j # i
    BY <1>2, SetStreamElsewhere, SameStores
<1> QED
    BY <1>1, <1>2

(* Counters other than buffered.                                           *)
LEMMA CountsStore ==
    ASSUME NEW e, NEW i, NEW s, s.buffered = st[e][i].buffered, s.err = st[e][i].err,
           s.remoteEOF = st[e][i].remoteEOF
    PROVE  Stores(e, i, s)
BY DEF Stores

LEMMA FinishStores ==
    ASSUME TypeOK, NEW e \in Ends, NEW i \in Ids, NEW why \in {"closed", "session"}
    PROVE  Stores(e, i, Finish(st[e][i], why))
<1>1. st[e][i] \in Stream
    BY StreamFields
<1>2. PICK t : t = Finish(st[e][i], why)
    OBVIOUS
<1>3. t.err = why /\ t.remoteEOF = st[e][i].remoteEOF
    BY <1>1, <1>2 DEF Finish, Stream
<1> QED
    BY <1>2, <1>3 DEF Stores

LEMMA SendStores ==
    ASSUME TypeOK, NEW e \in Ends, NEW i \in Ids,
           Close(e, i) \/ SendFails(e, i) \/ Reserve(e, i) \/ Sent(e, i)
    PROVE  Stored /\ consumed' = consumed
<1>1. st[e][i] \in Stream
    BY StreamFields
<1>2. CASE Close(e, i) \/ SendFails(e, i)
    <2>1. CloseStream(e, i) /\ consumed' = consumed
        BY <1>2 DEF Close, SendFails, history
    <2>2. PICK s : SetStream(e, i, s) /\ s = IF st[e][i].err = "live" THEN Finish(st[e][i], "closed") ELSE st[e][i]
        BY <2>1 DEF CloseStream
    <2>3. Stores(e, i, s)
        BY <2>2, FinishStores, SameStores
    <2> QED
        BY <2>1, <2>2, <2>3, OneStores
<1>3. CASE Reserve(e, i)
    <2>1. PICK s : SetStream(e, i, s) /\ s = [st[e][i] EXCEPT !.sendCredit = @ - Chunk(e, i)]
        BY <1>3 DEF Reserve
    <2>2. Stores(e, i, s)
        BY <1>1, <2>1, CountsStore DEF Stream
    <2> QED
        BY <1>3, <2>1, <2>2, OneStores DEF Reserve, history
<1>4. CASE Sent(e, i)
    <2>1. consumed' = consumed
        BY <1>4 DEF Sent
    <2>2. CASE SetStream(e, i, [st[e][i] EXCEPT !.announced = TRUE])
        <3>1. PICK s : s = [st[e][i] EXCEPT !.announced = TRUE]
            OBVIOUS
        <3>2. Stores(e, i, s)
            BY <1>1, <3>1, CountsStore DEF Stream
        <3> QED
            BY <2>1, <2>2, <3>1, <3>2, OneStores
    <2>3. CASE st' = st
        BY <2>1, <2>3, NoneStores
    <2> QED
        BY <1>4, <2>2, <2>3 DEF Sent
<1> QED
    BY <1>2, <1>3, <1>4

LEMMA ReadEOFStores ==
    ASSUME TypeOK, NEW e \in Ends, NEW i \in Ids, ReadEOF(e, i)
    PROVE  Stored /\ consumed' = consumed
<1>1. PICK s : SetStream(e, i, s) /\ s = Finish(st[e][i], "EOF")
    BY DEF ReadEOF, AtEOF
<1>2. st[e][i].err = "live" /\ st[e][i].remoteEOF /\ st[e][i].buffered = 0 /\ st[e][i] \in Stream
    BY StreamFields DEF ReadEOF
<1>3. s.err = "EOF" /\ s.remoteEOF
    BY <1>1, <1>2 DEF Finish, Stream
<1>4. Stores(e, i, s)
    BY <1>2, <1>3 DEF Stores
<1> QED
    BY <1>1, <1>4, OneStores DEF ReadEOF, history

LEMMA RecvStores ==
    ASSUME Conforms, NEW e \in Ends, RecvData(e) \/ RecvCredit(e) \/ RecvClose(e)
    PROVE  (Stored /\ consumed' = consumed) \/ \E i \in Ids, n \in Nat : TakesIn(e, i, n)
<1> USE DEF Conforms
<1>1. ASSUME NEW i \in Ids, NEW s, NEW reset, Consumed(e, i, s, reset), Stores(e, i, s) PROVE Stored
    <2>1. SetStream(e, i, s)
        BY <1>1 DEF Consumed
    <2> QED
        BY <1>1, <2>1, OneStores
<1>2. consumed' = consumed
    BY DEF RecvData, RecvCredit, RecvClose, history
<1>3. CASE RecvData(e)
    <2>1. PICK i \in Ids, n \in Nat : DataRead(e, i, n)
        BY <1>3, DataReadStep
    <2>2. CASE Consumed(e, i, st[e][i], FALSE)
        BY <1>1, <1>2, <2>2, SameStores
    <2>3. CASE ~Ignores(e, i) /\ Consumed(e, i, TakenIn(e, i, n), FALSE)
        <3>1. TakesOff(e)
            BY <1>3, RecvTakes
        <3>2. SetStream(e, i, TakenIn(e, i, n))
            BY <2>3 DEF Consumed
        <3>3. /\ wire[Peer(e)] # <<>> /\ Head(wire[Peer(e)]).type = "DATA"
              /\ i = Head(wire[Peer(e)]).id /\ n = Head(wire[Peer(e)]).n
              /\ UNCHANGED <<snd, acked, consumed, lastRemoteID>>
            BY <2>1 DEF DataRead, FrameRead, history
        <3>4. TakesIn(e, i, n)
            BY <2>3, <3>1, <3>2, <3>3 DEF TakesIn
        <3> QED
            BY <3>4
    <2> QED
        BY <2>1, <2>2, <2>3 DEF DataRead
<1>4. CASE RecvCredit(e)
    <2>1. PICK i \in Ids, n \in Nat : CreditRead(e, i, n)
        BY <1>4, CreditReadStep
    <2>2. CASE Consumed(e, i, st[e][i], FALSE)
        BY <1>1, <1>2, <2>2, SameStores
    <2>3. CASE Consumed(e, i, GrantedTo(e, i, n), FALSE)
        <3>1. PICK s : s = GrantedTo(e, i, n)
            OBVIOUS
        <3>2. Stores(e, i, s)
            BY <3>1, StreamFields, CountsStore DEF Stream, GrantedTo
        <3> QED
            BY <1>1, <1>2, <2>3, <3>1, <3>2
    <2> QED
        BY <2>1, <2>2, <2>3 DEF CreditRead
<1>5. CASE RecvClose(e)
    <2>1. wire[Peer(e)] # <<>>
        BY <1>5 DEF RecvClose, Reading
    <2>2. PICK i \in Ids : i = Head(wire[Peer(e)]).id
        BY <2>1, FirstFrame
    <2>3. PICK s : s = IF st[e][i].err = "live" THEN HalfClosed(e, i) ELSE st[e][i]
        OBVIOUS
    <2>4. Consumed(e, i, s, FALSE)
        BY <1>5, <2>2, <2>3 DEF RecvClose
    <2>5. s.buffered = st[e][i].buffered /\ s.err = st[e][i].err
        BY <2>3, StreamFields, SMTT(30) DEF HalfClosed, Stream
    <2>6. ClosedBy(e, i)
        BY <1>5, <2>2, <2>4 DEF RecvClose, Reading, Consumed, ClosedBy
    <2>7. Stores(e, i, s)
        BY <2>5, <2>6 DEF Stores
    <2> QED
        BY <1>1, <1>2, <2>4, <2>7
<1> QED
    BY <1>3, <1>4, <1>5, SMTT(30)

LEMMA OpenStores ==
    ASSUME TypeOK, Untouched, Open
    PROVE  Stored /\ consumed' = consumed
<1>1. "client" \in Ends /\ nextID \in Ids
    BY NextIdType DEF Ends
<1>2. SetStream("client", nextID, Started("client")) /\ consumed' = consumed
    BY DEF Open, history
<1>3. /\ st["client"][nextID].err = "new" /\ Started("client").err = "live"
      /\ Started("client").buffered = 0 /\ ~Started("client").remoteEOF
    BY OpensNew DEF Started, NoStream
<1>4. Stores("client", nextID, Started("client"))
    BY <1>3 DEF Stores
<1> QED
    BY <1>1, <1>2, <1>4, OneStores

LEMMA OpenReadStores ==
    ASSUME TypeOK, NEW i \in Ids, NEW s \in Stream, OpenRead(i, s)
    PROVE  Stored /\ consumed' = consumed
<1>1. "server" \in Ends
    BY DEF Ends
<1>2. SetStream("server", i, s) /\ consumed' = consumed
    BY DEF OpenRead, Consumed, history
<1>3. Stores("server", i, s)
    <2>1. CASE s = st["server"][i]
        BY <2>1, SameStores
    <2>2. CASE s = [Started("server") EXCEPT !.announced = TRUE]
        <3>1. s.err = "live" /\ st["server"][i].err = "new" /\ s.buffered = 0 /\ ~s.remoteEOF
            BY <2>2 DEF Started, NoStream, OpenRead
        <3> QED
            BY <3>1 DEF Stores
    <2> QED
        BY <2>1, <2>2 DEF OpenRead
<1> QED
    BY <1>1, <1>2, <1>3, OneStores

LEMMA GrantStores ==
    ASSUME TypeOK, NEW e \in Ends, WriteCredit(e)
    PROVE  Stored /\ consumed' = consumed
<1>1. consumed' = consumed
    BY Zenon DEF WriteCredit, history
<1>2. CASE st' = st
    BY <1>1, <1>2, NoneStores
<1>3. ASSUME NEW i \in Ids, Grant(e, i) PROVE Stored
    <2>1. PICK s : SetStream(e, i, s) /\ s = [st[e][i] EXCEPT !.receiveCredit = @ + st[e][i].creditDue, !.creditDue = 0]
        BY <1>3 DEF Grant
    <2>2. Stores(e, i, s)
        BY <2>1, StreamFields, CountsStore DEF Stream
    <2> QED
        BY <2>1, <2>2, OneStores
<1> QED
    BY <1>1, <1>2, <1>3, GrantStep

LEMMA FailStores ==
    ASSUME TypeOK, NEW e \in Ends, NEW why, Fail(e, why)
    PROVE  Stored /\ consumed' = consumed
<1>1. consumed' = consumed
    BY DEF Fail, history
<1>2. ASSUME NEW f \in Ends, NEW j \in Ids PROVE Stores(f, j, st'[f][j])
    <2>1. st'[f][j] = Finish(st[f][j], "session") \/ st'[f][j] = st[f][j]
        BY FailEffect
    <2> QED
        BY <2>1, FinishStores, SameStores
<1> QED
    BY <1>1, <1>2 DEF Stored

(* A byte arrives and a byte is read; no other step moves one.             *)
LEMMA StoredNext ==
    ASSUME NoForeign, Conforms, [Next]_vars
    PROVE  \/ Stored /\ consumed' = consumed
           \/ \E e \in Ends, i \in Ids, n \in Nat : TakesIn(e, i, n)
           \/ \E e \in Ends, i \in Ids : \E n \in 1..StreamBuffer[e] : Read(e, i, n)
<1> USE DEF Conforms
<1>1. CASE st' = st /\ consumed' = consumed
    BY <1>1, NoneStores
<1>2. ASSUME OpenExhausted \/ Accept \/ UNCHANGED vars PROVE st' = st /\ consumed' = consumed
    BY <1>2 DEF OpenExhausted, Accept, vars, history
<1>3. Open => Stored /\ consumed' = consumed
    BY OpenStores
<1>4. RecvOpen => Stored /\ consumed' = consumed
    BY OpenReadStep, OpenReadStores
<1>5. ASSUME NEW e \in Ends, NEW i \in Ids, Close(e, i) \/ SendFails(e, i) \/ Reserve(e, i) \/ Sent(e, i)
      PROVE  Stored /\ consumed' = consumed
    BY <1>5, SendStores
<1>6. ASSUME NEW e \in Ends, NEW i \in Ids, Enqueue(e, i) \/ QueueClose(e, i) \/ \E n \in 1..MaxBytes[e] : Write(e, i, n)
      PROVE  st' = st /\ consumed' = consumed
    BY <1>6, Zenon DEF Enqueue, QueueClose, Write, history
<1>7. ASSUME NEW e \in Ends, NEW i \in Ids, ReadEOF(e, i) PROVE Stored /\ consumed' = consumed
    BY <1>7, ReadEOFStores
<1>8. ASSUME NEW e \in Ends, Failing(e) PROVE Stored /\ consumed' = consumed
    BY <1>8, FailingFails, FailStores
<1>9. ASSUME NEW e \in Ends, RecvData(e) \/ RecvCredit(e) \/ RecvClose(e)
      PROVE  (Stored /\ consumed' = consumed) \/ \E i \in Ids, n \in Nat : TakesIn(e, i, n)
    BY <1>9, RecvStores
<1>10. ASSUME NEW e \in Ends, ReaderCloses(e) \/ Drain(e) \/ IdleCheck(e) \/ WriteControl(e) \/ WriteRequest(e)
                                  \/ ForeignFrame(e)
       PROVE  st' = st /\ consumed' = consumed
    BY <1>10 DEF ReaderCloses, Drain, IdleCheck, WriteControl, WriteRequest, ForeignFrame, history
<1>11. ASSUME NEW e \in Ends, WriteCredit(e) PROVE Stored /\ consumed' = consumed
    BY <1>11, GrantStores
<1> QED
    BY <1>1, <1>2, <1>3, <1>4, <1>5, <1>6, <1>7, <1>8, <1>9, <1>10, <1>11, Zenon
    DEF Next, Business, Sender, Consumer, Reader, Writer, Failing, Ended

-----------------------------------------------------------------------------
(* EOF comes after the data.                                               *)

(* Bytes the writer has put on the wire and reported to a Write that has   *)
(* not returned yet, and all the bytes an end has been told were sent.     *)
Pending(e, i) ==
    IF snd[e][i].pc = "wait" /\ snd[e][i].result = "ok" /\ snd[e][i].type = "DATA" THEN snd[e][i].n ELSE 0

Promised(e, i) == acked[e][i] + Pending(e, i)

Arrived(e, i) == consumed[e][i] + st[e][i].buffered

CloseLast ==
    \A e \in Ends : \A j, k \in DOMAIN wire[e] :
        wire[e][j].type = "CLOSE" /\ wire[e][k].type = "DATA" /\ wire[e][j].id = wire[e][k].id => k < j

DeliveredTo(e, i) ==
    /\ Listens(e, i) => Promised(Peer(e), i) <= Arrived(e, i) + Bytes(wire[Peer(e)], "DATA", i)
    /\ st[e][i].err = "live" /\ st[e][i].remoteEOF => Promised(Peer(e), i) <= Arrived(e, i)
    /\ st[e][i].err = "EOF" => st[e][i].remoteEOF /\ Promised(Peer(e), i) <= consumed[e][i]

Delivered == \A e \in Ends, i \in Ids : DeliveredTo(e, i)

LEMMA PromisedType ==
    ASSUME TypeOK, NEW e \in Ends, NEW i \in Ids
    PROVE  Pending(e, i) \in Nat /\ acked[e][i] \in Nat /\ Promised(e, i) \in Nat
           /\ consumed[e][i] \in Nat /\ st[e][i].buffered \in Nat /\ Arrived(e, i) \in Nat
           /\ Bytes(wire[Peer(e)], "DATA", i) \in Nat
<1>1. acked[e][i] \in Nat /\ consumed[e][i] \in Nat
    BY DEF TypeOK
<1>2. snd[e][i].n \in Nat
    BY RequestFields
<1>3. Pending(e, i) \in Nat
    BY <1>2 DEF Pending
<1>4. wire[Peer(e)] \in Seq(Frames)
    BY PeerEnds DEF TypeOK
<1> QED
    BY <1>1, <1>3, <1>4, StreamFields, BytesType DEF Promised, Arrived

LEMMA PromisedTypeNext ==
    ASSUME TypeOK', NEW e \in Ends, NEW i \in Ids
    PROVE  /\ Promised(Peer(e), i)' \in Nat /\ Arrived(e, i)' \in Nat /\ Bytes(wire'[Peer(e)], "DATA", i) \in Nat
           /\ consumed'[e][i] \in Nat /\ st'[e][i].buffered \in Nat
<1>1. Peer(e) \in Ends
    BY PeerEnds
<1>2. acked'[Peer(e)][i] \in Nat /\ consumed'[e][i] \in Nat /\ wire'[Peer(e)] \in Seq(Frames)
    BY <1>1 DEF TypeOK
<1>3. st'[e][i].buffered \in Nat /\ snd'[Peer(e)][i].n \in Nat
    <2>1. st'[e][i] \in Stream /\ snd'[Peer(e)][i] \in Request
        BY <1>1 DEF TypeOK
    <2> QED
        BY <2>1 DEF Stream, Request
<1>4. Pending(Peer(e), i)' \in Nat
    BY <1>3 DEF Pending
<1>5. Promised(Peer(e), i)' \in Nat /\ Arrived(e, i)' \in Nat
    BY <1>2, <1>3, <1>4 DEF Promised, Arrived
<1> QED
    BY <1>2, <1>3, <1>5, BytesType

LEMMA BytesNone ==
    ASSUME NEW q \in Seq(Frames), NEW t, NEW i, \A k \in DOMAIN q : ~(q[k].type = t /\ q[k].id = i)
    PROVE  Bytes(q, t, i) = 0
<1> DEFINE S == {k \in Nat : Total(Weights(q, t, i), k) = 0}
<1>1. 0 \in S
    BY TotalStep
<1>2. Len(q) \in Nat /\ DOMAIN q = 1..Len(q)
    OBVIOUS
<1>3. ASSUME NEW k \in Nat, k < Len(q), k \in S PROVE k + 1 \in S
    <2>1. k + 1 \in DOMAIN q
        BY <1>2, <1>3
    <2>2. Weights(q, t, i)[k + 1] = 0
        BY <2>1 DEF Weights, Weight
    <2>3. Total(Weights(q, t, i), k + 1) = Total(Weights(q, t, i), k) + Weights(q, t, i)[k + 1]
        BY TotalStep
    <2> QED
        BY <1>3, <2>2, <2>3
<1>4. Len(q) \in S
    <2> HIDE DEF S
    <2> QED
        BY <1>1, <1>2, <1>3, UpTo
<1> QED
    BY <1>4, BytesWeights

(* What a step does to what was promised.                                  *)
Wrote(f, j, F) ==
    /\ WriteRequest(f) /\ OnWire(f, F) /\ F \in Frames /\ F.type = "DATA" /\ F.id = j /\ ~WriteError(f, j)
    /\ Promised(f, j)' = acked[f][j] + F.n

LEMMA AckedNext ==
    ASSUME TypeOK, [Next]_vars, NEW f \in Ends, NEW j \in Ids
    PROVE  \/ acked'[f][j] = acked[f][j]
           \/ /\ snd[f][j].pc = "wait" /\ snd[f][j].result = "ok" /\ snd[f][j].type = "DATA"
              /\ acked'[f][j] = acked[f][j] + snd[f][j].n /\ snd'[f][j].pc # "wait"
<1>1. CASE acked' = acked
    BY <1>1
<1>2. ASSUME NEW e \in Ends, NEW i \in Ids, Sent(e, i), snd[e][i].type # "OPEN"
      PROVE  \/ acked'[f][j] = acked[f][j]
             \/ /\ snd[f][j].pc = "wait" /\ snd[f][j].result = "ok" /\ snd[f][j].type = "DATA"
                /\ acked'[f][j] = acked[f][j] + snd[f][j].n /\ snd'[f][j].pc # "wait"
    <2>1. snd[e][i].pc = "wait" /\ snd[e][i].result = "ok" /\ snd[e][i].type = "DATA"
        BY <1>2, RequestFields DEF Sent
    <2>2. acked' = [acked EXCEPT ![e][i] = @ + snd[e][i].n]
        BY <1>2 DEF Sent
    <2>3. PICK r : SetRequest(e, i, r) /\ r.pc # "wait"
        <3> DEFINE r == IF snd[e][i].left > 0 THEN [Idle EXCEPT !.pc = "credit", !.left = snd[e][i].left] ELSE Idle
        <3>1. r.pc # "wait"
            BY DEF Idle
        <3>2. SetRequest(e, i, r)
            BY <1>2 DEF Sent, SetRequest, TypeOK
        <3> QED
            BY <3>1, <3>2
    <2>4. CASE f = e /\ j = i
        <3>1. acked'[f][j] = acked[f][j] + snd[f][j].n
            BY <2>2, <2>4 DEF TypeOK
        <3>2. snd'[f][j] = r
            BY <2>3, <2>4, SndElsewhere
        <3> QED
            BY <2>1, <2>3, <2>4, <3>1, <3>2
    <2>5. CASE f # e \/ j # i
        BY <2>2, <2>5 DEF TypeOK
    <2> QED
        BY <2>4, <2>5
<1>3. ASSUME NEW e \in Ends, NEW i \in Ids, Sent(e, i), snd[e][i].type = "OPEN" PROVE acked' = acked
    BY <1>3 DEF Sent
<1>4. ASSUME NEW e \in Ends, Failing(e) PROVE acked' = acked
    BY <1>4, FailingFails DEF Fail, history
<1>5. ASSUME Open \/ OpenExhausted \/ Accept \/ RecvOpen \/ UNCHANGED vars PROVE acked' = acked
    BY <1>5 DEF Open, OpenExhausted, Accept, RecvOpen, vars, history
<1>6. ASSUME NEW e \in Ends, NEW i \in Ids,
             \/ Close(e, i) \/ Reserve(e, i) \/ Enqueue(e, i) \/ SendFails(e, i) \/ Consumer(e, i) \/ QueueClose(e, i)
             \/ \E n \in 1..MaxBytes[e] : Write(e, i, n)
      PROVE  acked' = acked
    BY <1>6, Zenon DEF Close, Reserve, Enqueue, SendFails, Consumer, ReadEOF, Read, QueueClose, Write, history
<1>7. ASSUME NEW e \in Ends,
             RecvData(e) \/ RecvCredit(e) \/ RecvClose(e) \/ ReaderCloses(e) \/ Drain(e) \/ IdleCheck(e)
                 \/ WriteControl(e) \/ WriteRequest(e) \/ WriteCredit(e) \/ ForeignFrame(e)
      PROVE  acked' = acked
    BY <1>7, Zenon DEF RecvData, RecvCredit, RecvClose, ReaderCloses, Drain, IdleCheck, WriteControl, WriteRequest,
                WriteCredit, ForeignFrame, history
<1> QED
    BY <1>1, <1>2, <1>3, <1>4, <1>5, <1>6, <1>7, Zenon DEF Next, Business, Sender, Reader, Writer, Failing, Ended

LEMMA PromisedNext ==
    ASSUME NoForeign, Conforms, [Next]_vars, NEW f \in Ends, NEW j \in Ids
    PROVE  Promised(f, j)' <= Promised(f, j) \/ \E F \in Frames : Wrote(f, j, F)
<1> USE DEF Conforms
<1>1. Pending(f, j) \in Nat /\ acked[f][j] \in Nat /\ snd[f][j].n \in Nat
    BY PromisedType, RequestFields
<1>2. CASE /\ snd[f][j].pc = "wait" /\ snd[f][j].result = "ok" /\ snd[f][j].type = "DATA"
           /\ acked'[f][j] = acked[f][j] + snd[f][j].n /\ snd'[f][j].pc # "wait"
    <2>1. Pending(f, j)' = 0 /\ Pending(f, j) = snd[f][j].n
        BY <1>2 DEF Pending
    <2> QED
        BY <1>1, <1>2, <2>1 DEF Promised
<1>3. CASE acked'[f][j] = acked[f][j]
    <2>1. Asks(f, j, snd'[f][j])
        BY AskedNext DEF Asked
    <2>2. CASE Pending(f, j)' = 0 \/ snd'[f][j] = snd[f][j]
        <3>1. Pending(f, j)' = 0 \/ Pending(f, j)' = Pending(f, j)
            BY <2>2, SMTT(30) DEF Pending
        <3> QED
            BY <1>1, <1>3, <3>1 DEF Promised
    <2>3. CASE /\ WriteRequest(f) /\ j = Head(writes[f]).id /\ snd[f][j].pc = "wait" /\ snd'[f][j].pc = "wait"
               /\ SameFrame(snd[f][j], snd'[f][j]) /\ snd'[f][j].type = "DATA" /\ snd'[f][j].result = "ok"
               /\ OnWire(f, Head(writes[f])) /\ st[f][j].err = "live" /\ ~WriteError(f, j)
        <3>1. writes[f] # <<>> /\ writes[f] \in Seq(Frames)
            BY <2>3 DEF WriteRequest, TypeOK
        <3>2. PICK F \in Frames : F = Head(writes[f]) /\ F = writes[f][1] /\ 1 \in DOMAIN writes[f]
            BY <3>1, HeadTail
        <3>3. Outstanding(f, F)
            BY <3>2 DEF SendsOne
        <3>4. F.id = j /\ F.type = "DATA" /\ F.n = snd[f][j].n
            BY <2>3, <3>2, <3>3 DEF Outstanding, SameFrame
        <3>5. Pending(f, j)' = F.n
            BY <2>3, <3>4 DEF Pending, SameFrame
        <3>6. Promised(f, j)' = acked[f][j] + F.n
            BY <1>3, <3>5 DEF Promised
        <3> QED
            BY <2>3, <3>2, <3>4, <3>6 DEF Wrote
    <2>4. \/ Pending(f, j)' = 0 \/ snd'[f][j] = snd[f][j]
          \/ /\ WriteRequest(f) /\ j = Head(writes[f]).id /\ snd[f][j].pc = "wait" /\ snd'[f][j].pc = "wait"
             /\ SameFrame(snd[f][j], snd'[f][j]) /\ snd'[f][j].type = "DATA" /\ snd'[f][j].result = "ok"
             /\ OnWire(f, Head(writes[f])) /\ st[f][j].err = "live" /\ ~WriteError(f, j)
        <3>1. Idle.pc # "wait" /\ OpenRequest.pc # "wait"
            BY DEF Idle, OpenRequest
        <3>2. snd[f][j].pc # "wait" => snd[f][j].result = "none"
            BY DEF Proper, RequestProper
        <3>3. snd'[f][j].pc # "wait" \/ snd'[f][j].result # "ok" \/ snd'[f][j].type # "DATA" => Pending(f, j)' = 0
            BY DEF Pending
        <3> QED
            BY <2>1, <3>1, <3>2, <3>3 DEF Asks, Starts
    <2> QED
        BY <2>2, <2>3, <2>4
<1> QED
    BY <1>2, <1>3, AckedNext

(* An end that may still send has not told its peer that it closed.        *)
LEMMA SendsUntold ==
    ASSUME Conforms, NEW e \in Ends, NEW i \in Ids, ~WriteError(e, i)
    PROVE  ~Told(e, i)
<1>1. Listens(e, i)
    BY DEF WriteError, Listens
<1> QED
    BY <1>1 DEF Conforms, ToldOnlyWhenDone

LEMMA CloseLastNext ==
    ASSUME NoForeign, Conforms, [Next]_vars, CloseLast
    PROVE  CloseLast'
<1> USE DEF Conforms
<1> SUFFICES ASSUME NEW f \in Ends, NEW j \in DOMAIN wire'[f], NEW k \in DOMAIN wire'[f],
                    wire'[f][j].type = "CLOSE", wire'[f][k].type = "DATA", wire'[f][j].id = wire'[f][k].id
             PROVE  k < j
    BY DEF CloseLast
<1>1. CASE wire' = wire
    BY <1>1 DEF CloseLast
<1>2. ASSUME NEW e \in Ends, TakesOff(e) PROVE k < j
    <2>1. CASE f # Peer(e) /\ wire'[f] = wire[f]
        BY <2>1 DEF CloseLast
    <2>2. CASE /\ j \in Nat /\ j + 1 \in DOMAIN wire[f] /\ wire'[f][j] = wire[f][j + 1]
               /\ k \in Nat /\ k + 1 \in DOMAIN wire[f] /\ wire'[f][k] = wire[f][k + 1]
        <3>1. k + 1 < j + 1
            BY <2>2 DEF CloseLast
        <3> QED
            BY <2>2, <3>1
    <2> QED
        BY <1>2, <2>1, <2>2, TakenElements
<1>3. ASSUME NEW e \in Ends, NEW F \in Frames, PutsOn(e, F) PROVE k < j
    <2>1. OnWire(e, F)
        BY <1>3 DEF PutsOn
    <2>2. \/ j \in DOMAIN wire[f] /\ wire'[f][j] = wire[f][j]
          \/ f = e /\ j = Len(wire[f]) + 1 /\ wire'[f][j] = F
        BY <2>1, PutElements
    <2>3. \/ k \in DOMAIN wire[f] /\ wire'[f][k] = wire[f][k]
          \/ f = e /\ k = Len(wire[f]) + 1 /\ wire'[f][k] = F
        BY <2>1, PutElements
    <2>4. wire[f] \in Seq(Frames)
        BY DEF TypeOK
    <2>5. CASE j \in DOMAIN wire[f] /\ wire'[f][j] = wire[f][j] /\ k \in DOMAIN wire[f] /\ wire'[f][k] = wire[f][k]
        BY <2>5 DEF CloseLast
    <2>6. CASE j = Len(wire[f]) + 1 /\ k \in DOMAIN wire[f]
        <3>1. k \in 1..Len(wire[f]) /\ Len(wire[f]) \in Nat
            BY <2>4, <2>6
        <3> QED
            BY <2>6, <3>1
    <2>7. CASE j \in DOMAIN wire[f] /\ wire'[f][j] = wire[f][j] /\ f = e /\ wire'[f][k] = F
        <3>0. F.type = "DATA" /\ F.id \in Ids
            BY <2>7 DEF Frames
        <3>1. ~WriteError(e, F.id) /\ F.id \in Ids
            BY <1>3, <3>0, Zenon DEF PutsOn
        <3>2. Told(e, F.id)
            BY <2>7 DEF Told
        <3> QED
            BY <3>1, <3>2, SendsUntold
    <2>8. CASE wire'[f][j] = F /\ wire'[f][k] = F
        BY <2>8
    <2> QED
        BY <2>2, <2>3, <2>5, <2>6, <2>7, <2>8
<1> QED
    BY <1>1, <1>2, <1>3, CarriesNext DEF Carries

(* What a step does to one stream.                                         *)
LEMMA StreamNext ==
    ASSUME NoForeign, Conforms, [Next]_vars, NEW e \in Ends, NEW i \in Ids
    PROVE  \/ Stores(e, i, st'[e][i]) /\ consumed'[e][i] = consumed[e][i]
           \/ \E n \in Nat : TakesIn(e, i, n)
           \/ \E n \in 1..StreamBuffer[e] : Read(e, i, n)
<1> USE DEF Conforms
<1>1. CASE Stored /\ consumed' = consumed
    BY <1>1 DEF Stored
<1>2. ASSUME NEW f \in Ends, NEW j \in Ids, f # e \/ j # i, NEW s, SetStream(f, j, s)
      PROVE  Stores(e, i, st'[e][i])
    <2>1. st'[e][i] = st[e][i]
        BY <1>2, SetStreamElsewhere
    <2> QED
        BY <2>1, SameStores
<1>3. ASSUME NEW f \in Ends, NEW j \in Ids, f # e \/ j # i, NEW n \in Nat, TakesIn(f, j, n)
      PROVE  Stores(e, i, st'[e][i]) /\ consumed'[e][i] = consumed[e][i]
    BY <1>2, <1>3 DEF TakesIn
<1>4. ASSUME NEW f \in Ends, NEW j \in Ids, f # e \/ j # i, NEW n \in 1..StreamBuffer[f], Read(f, j, n)
      PROVE  Stores(e, i, st'[e][i]) /\ consumed'[e][i] = consumed[e][i]
    <2>1. SetStream(f, j, Taken(f, j, n)) /\ consumed' = [consumed EXCEPT ![f][j] = @ + n]
        BY <1>4 DEF Read
    <2>2. consumed'[e][i] = consumed[e][i]
        BY <1>4, <2>1 DEF TypeOK
    <2> QED
        BY <1>2, <1>4, <2>1, <2>2
<1> QED
    BY <1>1, <1>3, <1>4, StoredNext

LEMMA TakesInEffect ==
    ASSUME TypeOK, NEW e \in Ends, NEW i \in Ids, NEW n \in Nat, TakesIn(e, i, n)
    PROVE  /\ st[e][i].err = "live" /\ ~st[e][i].remoteEOF
           /\ st'[e][i].err = "live" /\ ~st'[e][i].remoteEOF
           /\ consumed'[e][i] = consumed[e][i]
           /\ Arrived(e, i)' = Arrived(e, i) + n
           /\ Bytes(wire[Peer(e)], "DATA", i) = Bytes(wire'[Peer(e)], "DATA", i) + n
<1>1. st[e][i] \in Stream /\ st[e][i].buffered \in Nat /\ consumed[e][i] \in Nat
    BY StreamFields, PromisedType
<1>2. st[e][i].err = "live" /\ ~st[e][i].remoteEOF /\ consumed'[e][i] = consumed[e][i]
    BY DEF TakesIn, Ignores
<1>3. st'[e][i] = TakenIn(e, i, n)
    BY SetStreamElsewhere DEF TakesIn
<1>4. /\ st'[e][i].err = st[e][i].err /\ st'[e][i].remoteEOF = st[e][i].remoteEOF
      /\ st'[e][i].buffered = st[e][i].buffered + n
    BY <1>1, <1>3 DEF TakenIn, Stream
<1>5. Peer(e) \in Ends /\ wire[Peer(e)] # <<>> /\ wire' = [wire EXCEPT ![Peer(e)] = Tail(@)]
    BY PeerEnds DEF TakesIn, TakesOff
<1>6. Bytes(wire[Peer(e)], "DATA", i)
        = Bytes(wire'[Peer(e)], "DATA", i) + WeightAt(Peer(e), Peer(e), Head(wire[Peer(e)]), "DATA", i)
    BY <1>5, WireShortened
<1>7. WeightAt(Peer(e), Peer(e), Head(wire[Peer(e)]), "DATA", i) = n
    BY DEF TakesIn, WeightAt, Weight
<1>8. Arrived(e, i)' = Arrived(e, i) + n
    BY <1>1, <1>2, <1>4 DEF Arrived
<1> QED
    BY <1>2, <1>4, <1>6, <1>7, <1>8

LEMMA ReadKeeps ==
    ASSUME TypeOK, NEW e \in Ends, NEW i \in Ids, NEW n \in 1..StreamBuffer[e], Read(e, i, n)
    PROVE  /\ st[e][i].err = "live" /\ st'[e][i].err = "live" /\ st'[e][i].remoteEOF = st[e][i].remoteEOF
           /\ consumed'[e][i] >= consumed[e][i]
           /\ Arrived(e, i)' = Arrived(e, i) /\ wire' = wire
<1>1. st[e][i] \in Stream /\ st[e][i].buffered \in Nat /\ consumed[e][i] \in Nat /\ n \in Nat
    BY StreamFields, PromisedType, SessionAssumption
<1>2. st'[e][i] = Taken(e, i, n)
    BY SetStreamElsewhere DEF Read
<1>3. consumed'[e][i] = consumed[e][i] + n
    BY DEF Read, TypeOK
<1>4. /\ st'[e][i].err = st[e][i].err /\ st'[e][i].remoteEOF = st[e][i].remoteEOF
      /\ st'[e][i].buffered = st[e][i].buffered - n
    BY <1>1, <1>2 DEF Taken, Stream
<1>5. Arrived(e, i)' = Arrived(e, i)
    BY <1>1, <1>3, <1>4 DEF Arrived
<1>6. wire' = wire /\ st[e][i].err = "live"
    BY DEF Read, queues
<1> QED
    BY <1>1, <1>3, <1>4, <1>5, <1>6

(* Data for a stream that may still be listened to is taken in.            *)
LEMMA DataTaken ==
    ASSUME Conforms, NEW e \in Ends, NEW i \in Ids, TakesOff(e), Listens(e, i),
           Head(wire[Peer(e)]).type = "DATA", Head(wire[Peer(e)]).id = i
    PROVE  \E n \in Nat : TakesIn(e, i, n)
<1> USE DEF Conforms
<1>1. RecvData(e)
    BY DEF TakesOff
<1>2. PICK j \in Ids, n \in Nat : DataRead(e, j, n)
    BY <1>1, DataReadStep
<1>3. j = i /\ n > 0 /\ n = Head(wire[Peer(e)]).n /\ wire[Peer(e)] # <<>>
    BY <1>2 DEF DataRead, FrameRead
<1>4. ~Ignores(e, i)
    <2> SUFFICES ASSUME Ignores(e, i) PROVE FALSE
        OBVIOUS
    <2>1. st[e][i].err = "new"
        BY DEF Ignores, Listens
    <2>2. Peer(e) \in Ends /\ Peer(Peer(e)) = e
        BY PeerEnds
    <2>3. n <= Owing(Peer(e), i)
        BY <1>3, <2>2, HeadOwed
    <2>4. Owing(Peer(e), i) + Granting(e, i) <= st[e][i].receiveCredit
        BY <2>2 DEF LedgerInv, Ledger, Covered
    <2>5. st[e][i].receiveCredit = 0
        BY <2>1 DEF Untouched, Fresh
    <2>6. Owing(Peer(e), i) \in Nat /\ Granting(e, i) \in Nat
        BY <2>2, OwingType
    <2> QED
        BY <1>3, <2>3, <2>4, <2>5, <2>6
<1>5. SetStream(e, i, TakenIn(e, i, n)) /\ UNCHANGED <<snd, acked, consumed, lastRemoteID>>
    <2>1. Consumed(e, i, TakenIn(e, i, n), FALSE)
        BY <1>2, <1>3, <1>4 DEF DataRead
    <2>2. UNCHANGED <<snd, acked, consumed, lastRemoteID>>
        BY <1>2 DEF DataRead, FrameRead, history
    <2> QED
        BY <2>1, <2>2 DEF Consumed
<1> QED
    BY <1>3, <1>4, <1>5 DEF TakesIn

LEMMA WireTaken ==
    ASSUME TypeOK, NEW e \in Ends, TakesOff(e), NEW f \in Ends, NEW j \in Ids
    PROVE  Bytes(wire[f], "DATA", j)
             = Bytes(wire'[f], "DATA", j) + WeightAt(f, Peer(e), Head(wire[Peer(e)]), "DATA", j)
<1>1. PICK g \in Ends : g = Peer(e)
    BY PeerEnds
<1>2. wire[g] # <<>> /\ wire' = [wire EXCEPT ![g] = Tail(@)]
    BY <1>1 DEF TakesOff
<1>3. /\ \A t : Bytes(wire[f], t, j) = Bytes(wire'[f], t, j) + WeightAt(f, g, Head(wire[g]), t, j)
      /\ Grants(f, j)' \subseteq Grants(f, j)
    BY <1>2, WireShortened
<1> QED
    BY <1>1, <1>3

(* Nothing that is on the wire or was taken in gets lost while the stream  *)
(* listens.                                                                *)
LEMMA ArrivesNext ==
    ASSUME NoForeign, Conforms, [Next]_vars, NEW e \in Ends, NEW i \in Ids, Listens(e, i)'
    PROVE  Arrived(e, i) + Bytes(wire[Peer(e)], "DATA", i) <= Arrived(e, i)' + Bytes(wire'[Peer(e)], "DATA", i)
<1> USE DEF Conforms
<1>1. /\ Arrived(e, i) \in Nat /\ Bytes(wire[Peer(e)], "DATA", i) \in Nat /\ Peer(e) \in Ends
      /\ consumed[e][i] \in Nat /\ st[e][i].buffered \in Nat
    BY PromisedType, PeerEnds
<1>2. Bytes(wire'[Peer(e)], "DATA", i) \in Nat
    <2>1. TypeOK'
        BY NextType
    <2>2. wire'[Peer(e)] \in Seq(Frames)
        BY <1>1, <2>1 DEF TypeOK
    <2> QED
        BY <2>2, BytesType
<1>3. CASE \E n \in Nat : TakesIn(e, i, n)
    BY <1>1, <1>2, <1>3, TakesInEffect
<1>4. CASE \E n \in 1..StreamBuffer[e] : Read(e, i, n)
    BY <1>1, <1>4, ReadKeeps
<1>5. CASE Stores(e, i, st'[e][i]) /\ consumed'[e][i] = consumed[e][i] /\ ~(\E n \in Nat : TakesIn(e, i, n))
    <2>1. Listens(e, i)
        BY ListensFalls
    <2>2. st'[e][i].buffered = st[e][i].buffered
        <3>1. CASE st'[e][i].err = "live"
            BY <1>5, <3>1 DEF Stores, Untouched, Fresh
        <3>2. CASE st'[e][i].err = "new"
            <4>1. Moves(e, i, st'[e][i])
                BY MovedNext DEF Moved
            <4> QED
                BY <3>2, <4>1 DEF Moves, Endings
        <3> QED
            BY <3>1, <3>2 DEF Listens
    <2>3. Arrived(e, i)' = Arrived(e, i)
        BY <1>5, <2>2 DEF Arrived
    <2>4. Bytes(wire[Peer(e)], "DATA", i) <= Bytes(wire'[Peer(e)], "DATA", i)
        <3>1. CASE wire' = wire
            BY <1>1, <3>1
        <3>2. ASSUME NEW f \in Ends, NEW F \in Frames, PutsOn(f, F)
              PROVE  Bytes(wire[Peer(e)], "DATA", i) <= Bytes(wire'[Peer(e)], "DATA", i)
            <4>1. Bytes(wire'[Peer(e)], "DATA", i) = Bytes(wire[Peer(e)], "DATA", i) + WeightAt(Peer(e), f, F, "DATA", i)
                BY <1>1, <3>2, WireAppended DEF PutsOn
            <4>2. WeightAt(Peer(e), f, F, "DATA", i) \in Nat
                BY WeightType DEF WeightAt
            <4> QED
                BY <1>1, <4>1, <4>2
        <3>3. ASSUME NEW f \in Ends, TakesOff(f)
              PROVE  Bytes(wire[Peer(e)], "DATA", i) <= Bytes(wire'[Peer(e)], "DATA", i)
            <4>1. Peer(f) \in Ends /\ wire[Peer(f)] # <<>> /\ wire' = [wire EXCEPT ![Peer(f)] = Tail(@)]
                BY <3>3, PeerEnds DEF TakesOff
            <4>2. Bytes(wire[Peer(e)], "DATA", i)
                    = Bytes(wire'[Peer(e)], "DATA", i) + WeightAt(Peer(e), Peer(f), Head(wire[Peer(f)]), "DATA", i)
                BY <1>1, <3>3, WireTaken
            <4>3. ~(Peer(e) = Peer(f) /\ Head(wire[Peer(f)]).type = "DATA" /\ Head(wire[Peer(f)]).id = i)
                <5>1. Peer(e) = Peer(f) => e = f
                    BY PeerEnds
                <5> QED
                    BY <1>5, <2>1, <3>3, <5>1, DataTaken
            <4>4. WeightAt(Peer(e), Peer(f), Head(wire[Peer(f)]), "DATA", i) = 0
                BY <4>3 DEF WeightAt, Weight
            <4> QED
                BY <1>1, <1>2, <4>2, <4>4
        <3> QED
            BY <3>1, <3>2, <3>3, CarriesNext DEF Carries
    <2> QED
        BY <1>1, <1>2, <2>3, <2>4
<1> QED
    BY <1>3, <1>4, <1>5, StreamNext

LEMMA WroteArrives ==
    ASSUME Conforms, NEW e \in Ends, NEW i \in Ids, NEW F \in Frames, Wrote(Peer(e), i, F)
    PROVE  /\ Arrived(e, i)' = Arrived(e, i)
           /\ Bytes(wire'[Peer(e)], "DATA", i) = Bytes(wire[Peer(e)], "DATA", i) + F.n
<1> USE DEF Conforms
<1>1. WriteRequest(Peer(e)) /\ OnWire(Peer(e), F) /\ F.type = "DATA" /\ F.id = i /\ Peer(e) \in Ends
    BY PeerEnds DEF Wrote
<1>2. st' = st /\ consumed' = consumed
    BY <1>1 DEF WriteRequest, history
<1>3. WeightAt(Peer(e), Peer(e), F, "DATA", i) = F.n
    BY <1>1 DEF WeightAt, Weight
<1> QED
    BY <1>1, <1>2, <1>3, WireAppended DEF Arrived

LEMMA DeliveredNext ==
    ASSUME NoForeign, Conforms, [Next]_vars, CloseLast, Delivered, NEW e \in Ends, NEW i \in Ids
    PROVE  DeliveredTo(e, i)'
<1> USE DEF Conforms
<1> DEFINE p == Peer(e)
<1>1. p \in Ends
    BY PeerEnds
<1>2. /\ Promised(p, i) \in Nat /\ acked[p][i] \in Nat /\ Pending(p, i) \in Nat
      /\ Arrived(e, i) \in Nat /\ Bytes(wire[p], "DATA", i) \in Nat
      /\ consumed[e][i] \in Nat /\ st[e][i].buffered \in Nat
    BY <1>1, PromisedType
<1>3. /\ Promised(p, i)' \in Nat /\ Arrived(e, i)' \in Nat /\ Bytes(wire'[p], "DATA", i) \in Nat
      /\ consumed'[e][i] \in Nat /\ st'[e][i].buffered \in Nat
    <2>1. TypeOK'
        BY NextType
    <2> QED
        BY <1>1, <2>1, PromisedTypeNext
<1>4. DeliveredTo(e, i)
    BY DEF Delivered
<1>5. Promised(p, i)' <= Promised(p, i) \/ \E F \in Frames : Wrote(p, i, F)
    BY <1>1, PromisedNext
<1>6. Told(p, i) => Promised(p, i)' <= Promised(p, i)
    BY <1>1, <1>5, SendsUntold DEF Wrote
<1>7. st[e][i].remoteEOF => Told(p, i)
    BY PeerEnds DEF Told
<1> HIDE DEF p
<1>8. Listens(e, i)' => Promised(p, i)' <= Arrived(e, i)' + Bytes(wire'[p], "DATA", i)
    <2> SUFFICES ASSUME Listens(e, i)' PROVE Promised(p, i)' <= Arrived(e, i)' + Bytes(wire'[p], "DATA", i)
        OBVIOUS
    <2>1. Promised(p, i) <= Arrived(e, i) + Bytes(wire[p], "DATA", i)
        BY <1>4, ListensFalls DEF DeliveredTo, p
    <2>2. CASE Promised(p, i)' <= Promised(p, i)
        <3>1. Arrived(e, i) + Bytes(wire[p], "DATA", i) <= Arrived(e, i)' + Bytes(wire'[p], "DATA", i)
            BY ArrivesNext DEF p
        <3> QED
            BY <1>2, <1>3, <2>1, <2>2, <3>1
    <2>3. ASSUME NEW F \in Frames, Wrote(p, i, F)
          PROVE  Promised(p, i)' <= Arrived(e, i)' + Bytes(wire'[p], "DATA", i)
        <3>1. Arrived(e, i)' = Arrived(e, i) /\ Bytes(wire'[p], "DATA", i) = Bytes(wire[p], "DATA", i) + F.n
            BY <2>3, WroteArrives DEF p
        <3>2. Promised(p, i)' = acked[p][i] + F.n /\ F.n \in Nat /\ acked[p][i] <= Promised(p, i)
            BY <1>2, <2>3 DEF Wrote, Promised, Frames
        <3> QED
            BY <1>2, <1>3, <2>1, <3>1, <3>2
    <2> QED
        BY <1>5, <2>2, <2>3
<1>9. st'[e][i].err = "live" /\ st'[e][i].remoteEOF => Promised(p, i)' <= Arrived(e, i)'
    <2> SUFFICES ASSUME st'[e][i].err = "live", st'[e][i].remoteEOF PROVE Promised(p, i)' <= Arrived(e, i)'
        OBVIOUS
    <2>1. CASE \E n \in 1..StreamBuffer[e] : Read(e, i, n)
        <3>1. st[e][i].err = "live" /\ st[e][i].remoteEOF /\ Arrived(e, i)' = Arrived(e, i)
            BY <2>1, ReadKeeps
        <3> QED
            BY <1>2, <1>3, <1>4, <1>6, <1>7, <3>1 DEF DeliveredTo, p
    <2>2. CASE Stores(e, i, st'[e][i]) /\ consumed'[e][i] = consumed[e][i]
        <3>1. st[e][i].err = "live" /\ st'[e][i].buffered = st[e][i].buffered
            BY <2>2 DEF Stores
        <3>2. Arrived(e, i)' = Arrived(e, i)
            BY <2>2, <3>1 DEF Arrived
        <3>3. CASE st[e][i].remoteEOF
            BY <1>2, <1>3, <1>4, <1>6, <1>7, <3>1, <3>2, <3>3 DEF DeliveredTo, p
        <3>4. CASE ~st[e][i].remoteEOF /\ ClosedBy(e, i)
            <4>1. wire[p] \in Seq(Frames) /\ wire[p] # <<>>
                BY <1>1, <3>4 DEF ClosedBy, TypeOK, p
            <4>2. 1 \in DOMAIN wire[p] /\ wire[p][1].type = "CLOSE" /\ wire[p][1].id = i
                BY <3>4, <4>1 DEF ClosedBy, p
            <4>3. Told(p, i)
                BY <4>2 DEF Told
            <4>4. ASSUME NEW k \in DOMAIN wire[p], wire[p][k].type = "DATA", wire[p][k].id = i PROVE FALSE
                <5>1. k < 1
                    BY <1>1, <4>2, <4>4 DEF CloseLast
                <5> QED
                    BY <4>1, <5>1
            <4>5. Bytes(wire[p], "DATA", i) = 0
                BY <4>1, <4>4, BytesNone
            <4>6. Promised(p, i) <= Arrived(e, i) + Bytes(wire[p], "DATA", i)
                BY <1>4, <3>1, <3>4 DEF DeliveredTo, Listens, p
            <4> QED
                BY <1>2, <1>3, <1>6, <3>2, <4>3, <4>5, <4>6
        <3> QED
            BY <2>2, <3>3, <3>4 DEF Stores
    <2> QED
        BY <2>1, <2>2, StreamNext, TakesInEffect
<1>10. st'[e][i].err = "EOF" => st'[e][i].remoteEOF /\ Promised(p, i)' <= consumed'[e][i]
    <2> SUFFICES ASSUME st'[e][i].err = "EOF" PROVE st'[e][i].remoteEOF /\ Promised(p, i)' <= consumed'[e][i]
        OBVIOUS
    <2>1. Stores(e, i, st'[e][i]) /\ consumed'[e][i] = consumed[e][i]
        BY StreamNext, TakesInEffect, ReadKeeps
    <2>2. CASE st[e][i].err = "EOF"
        <3>1. st[e][i].remoteEOF /\ Promised(p, i) <= consumed[e][i]
            BY <1>4, <2>2 DEF DeliveredTo, p
        <3>2. Moves(e, i, st'[e][i])
            BY MovedNext DEF Moved
        <3>3. st'[e][i].remoteEOF
            BY <2>2, <3>1, <3>2 DEF Moves
        <3> QED
            BY <1>2, <1>3, <1>6, <1>7, <2>1, <3>1, <3>3
    <2>3. CASE st[e][i].err = "live" /\ st[e][i].remoteEOF /\ st[e][i].buffered = 0 /\ st'[e][i].remoteEOF
        <3>1. Promised(p, i) <= consumed[e][i] + 0
            BY <1>4, <2>3 DEF DeliveredTo, Arrived, p
        <3> QED
            BY <1>2, <1>3, <1>6, <1>7, <2>1, <2>3, <3>1
    <2> QED
        BY <2>1, <2>2, <2>3 DEF Stores
<1> QED
    BY <1>8, <1>9, <1>10 DEF DeliveredTo, p

(* Read reports EOF only after every byte whose Write the other end saw    *)
(* succeed (session.go, Read and readLoop: a CLOSE never overtakes data).  *)
THEOREM SessionEofAfterData == ASSUME NoForeign PROVE Spec => []EofAfterData
<1>1. Init => CloseLast /\ Delivered
    <2> SUFFICES ASSUME Init PROVE CloseLast /\ Delivered
        OBVIOUS
    <2>1. CloseLast
        BY DEF Init, CloseLast
    <2>2. ASSUME NEW e \in Ends, NEW i \in Ids PROVE DeliveredTo(e, i)
        <3>1. Peer(e) \in Ends /\ wire[Peer(e)] = <<>> /\ st[e][i] = NoStream
            BY PeerEnds DEF Init
        <3>2. Promised(Peer(e), i) = 0 /\ Arrived(e, i) = 0
            BY <3>1 DEF Init, Promised, Pending, Arrived, NoStream, Idle
        <3>3. Bytes(wire[Peer(e)], "DATA", i) = 0
            BY <3>1, BytesEmpty
        <3> QED
            BY <3>1, <3>2, <3>3 DEF DeliveredTo, NoStream
    <2> QED
        BY <2>1, <2>2 DEF Delivered
<1>2. Conforms /\ CloseLast /\ Delivered /\ [Next]_vars => CloseLast' /\ Delivered'
    BY CloseLastNext, DeliveredNext DEF Delivered
<1>3. Conforms /\ Delivered => EofAfterData
    <2> SUFFICES ASSUME Conforms, Delivered, NEW e \in Ends, NEW i \in Ids, st[e][i].err = "EOF"
                 PROVE  consumed[e][i] >= acked[Peer(e)][i]
        BY DEF EofAfterData
    <2>1. Promised(Peer(e), i) <= consumed[e][i]
        BY DEF Delivered, DeliveredTo
    <2>2. Pending(Peer(e), i) \in Nat /\ acked[Peer(e)][i] \in Nat /\ consumed[e][i] \in Nat
        BY PromisedType, PeerEnds DEF Conforms
    <2> QED
        BY <2>1, <2>2 DEF Promised
<1> QED
    BY <1>1, <1>2, <1>3, ConformsAlways, PTL DEF Spec

-----------------------------------------------------------------------------
(* The client's reader resets no stream, so it never waits for room; only  *)
(* the server refuses an OPEN.                                             *)
ClientReads == rd["client"].close = 0

LEMMA ClientReadsNext ==
    ASSUME NoForeign, Conforms, [Next]_vars, ClientReads
    PROVE  ClientReads'
<1>1. "client" \in Ends
    BY DEF Ends
<1>2. TypeOK'
    BY NextType DEF Conforms
<1>3. rd'["client"].close \in 0..MaxId
    BY <1>1, <1>2 DEF TypeOK
<1>4. CASE rd'["client"].close = 0
    BY <1>4 DEF ClientReads
<1>5. CASE rd'["client"].close # 0
    <2>1. PICK j \in Ids : j = rd'["client"].close
        BY <1>3, <1>5, SessionAssumption DEF Ids
    <2>2. rd["client"].close = j
        BY <1>1, <2>1, RdNext
    <2> QED
        BY <1>5, <2>1, <2>2 DEF ClientReads
<1> QED
    BY <1>4, <1>5

(* The readers of two such ends never wait for each other's queue of       *)
(* CLOSE frames (session.go, control): one of them never has to wait.      *)
THEOREM SessionReadersGoOn == ASSUME NoForeign PROVE Spec => []ReadersNotBothBlocked
<1>1. Init => ClientReads
    BY DEF Init, ClientReads, Rest, Ends
<1>2. Conforms /\ ClientReads /\ [Next]_vars => ClientReads'
    BY ClientReadsNext
<1>3. ClientReads => ReadersNotBothBlocked
    BY DEF ClientReads, ReadersNotBothBlocked, Ends
<1> QED
    BY <1>1, <1>2, <1>3, ConformsAlways, PTL DEF Spec
=============================================================================
