------------------------------ MODULE BaseEvent ------------------------------
(* One connection's event at the level of bytes: the read buffer, the text    *)
(* collected for the parser and the partly written response of                *)
(* src/General/BaseEvent.cpp.  EpollServer.tla takes a request and a response *)
(* for one step; here they pass through read() and write() in pieces.         *)
(*                                                                            *)
(* A byte of the client's stream is its position, from 1; request n is the    *)
(* positions (n-1)*ReqLen+1 .. n*ReqLen.  Byte k of response n is <<n, k>>.   *)
EXTENDS Integers, Sequences, FiniteSets, SequencesExt

CONSTANTS
    BufferLen,  \* bufferLen
    ReqLen,     \* length of a request
    RespLen,    \* length of a response
    SizeT,      \* the size_t values: 0..SizeT-1
    Early,      \* lengths at which checkData takes a request's beginning for an
                \* error: after "*2\r\n", say, it finds no type byte
    MaxReq,     \* bound: requests
    Window,     \* requests the client has unanswered at once
    Bursts,     \* the rest of a request arrives before read() finds nothing
    Backpressure, \* write() may find the socket's buffer full
    Freed       \* readDataRaw = nullptr

ASSUME EventAssumption ==
    /\ {BufferLen, ReqLen, RespLen, SizeT, MaxReq, Window} \subseteq Nat \ {0}
    /\ RespLen < SizeT
    /\ Early \subseteq 0..(ReqLen - 1) /\ 0 \in Early
    /\ Bursts \in BOOLEAN /\ Backpressure \in BOOLEAN
    /\ Freed \notin Seq(Nat)

VARIABLES
    sent,           \* bytes the client has sent
    net,            \* bytes in the kernel, not yet read
    fin,            \* the client has closed its end
    edge,           \* epoll has an edge to report
    running,        \* the loop over triggerEvent is running
    stageNow,
    readDataLen,
    readDataRaw,    \* its first readDataLen bytes, or Freed
    readDataString, \* the text so far
    readData,       \* the request being served, or 0
    bytesWritten,
    closed,         \* the server has closed the descriptor, or the process has ended
    consumed,       \* history: bytes cut from the text
    executed,       \* history: requests processed
    wire            \* bytes the client has been sent

inVars == <<sent, net, fin, edge>>
vars == <<inVars, running, stageNow, readDataLen, readDataRaw, readDataString, readData, bytesWritten,
          closed, consumed, executed, wire>>

Init ==
    /\ sent = 0 /\ net = <<>> /\ fin = FALSE /\ edge = FALSE
    /\ running = FALSE
    /\ stageNow = 1
    /\ readDataLen = 0 /\ readDataRaw = Freed
    /\ readDataString = <<>>
    /\ readData = 0
    /\ bytesWritten = 0
    /\ closed = FALSE
    /\ consumed = <<>> /\ executed = <<>> /\ wire = <<>>

Positions(first, last) == [i \in 1..(last - first + 1) |-> first + i - 1]
RequestBytes(n) == Positions((n - 1) * ReqLen + 1, n * ReqLen)

-----------------------------------------------------------------------------
(* The client and the loop (the loop is EpollServer's).                       *)

\* The next n bytes arrive.  The client starts a request when it has fewer than
\* Window unanswered ones.
Arrive(n) ==
    /\ ~fin /\ ~closed
    /\ sent + n <= MaxReq * ReqLen
    /\ sent + n <= ((Len(wire) \div RespLen) + Window) * ReqLen
    /\ net' = net \o Positions(sent + 1, sent + n)
    /\ sent' = sent + n
    /\ edge' = TRUE
    /\ UNCHANGED <<fin, running, stageNow, readDataLen, readDataRaw, readDataString, readData,
                   bytesWritten, closed, consumed, executed, wire>>

\* The client closes, in a burst not within a request.
Finish ==
    /\ ~fin /\ ~closed
    /\ Bursts => (sent % ReqLen = 0)
    /\ fin' = TRUE
    /\ edge' = TRUE
    /\ UNCHANGED <<sent, net, running, stageNow, readDataLen, readDataRaw, readDataString,
                   readData, bytesWritten, closed, consumed, executed, wire>>

\* The loop reports the edge if there is something to read, starts a finished
\* event over and calls triggerEvent.  eRead allocates a freed buffer, whose
\* first readDataLen bytes are then nobody's.
Report ==
    /\ edge /\ ~running /\ ~closed
    /\ net # <<>> \/ fin
    /\ edge' = FALSE
    /\ running' = TRUE
    /\ IF stageNow = 6
       THEN stageNow' = 1 /\ bytesWritten' = 0
       ELSE UNCHANGED <<stageNow, bytesWritten>>
    /\ readDataRaw' = IF readDataRaw = Freed THEN [i \in 1..readDataLen |-> 0] ELSE readDataRaw
    /\ UNCHANGED <<sent, net, fin, readDataLen, readDataString, readData, closed, consumed, executed, wire>>

-----------------------------------------------------------------------------
(* eRead.                                                                     *)

\* checkData's verdicts on a text: <<0, next part>>, <<1>> or <<-1>>.  It does not
\* wait for a request's last byte (PrefixVerdict of RESPData).  A text that no
\* client sent may get any of them, and its next part be one byte behind the end.
Verdicts(text) ==
    LET start(n) == IsPrefix(RequestBytes(n), text)
        part(n) == IsStrictPrefix(text, RequestBytes(n))
    IN  IF \E n \in 1..MaxReq : start(n) THEN {<<0, ReqLen>>}
        ELSE IF \E n \in 1..MaxReq : part(n)
             THEN {IF Len(text) \in Early THEN <<-1>>
                   ELSE IF Len(text) = ReqLen - 1 THEN <<0, ReqLen>> ELSE <<1>>}
        ELSE {<<1>>, <<-1>>} \union {<<0, k>> : k \in 1..(Len(text) + 1)}

RequestOf(text) == ((Head(text) - 1) \div ReqLen) + 1

Room == BufferLen - readDataLen

\* Mistake: only a full buffer is emptied.
HalfFullNever(raw) == Len(raw) > BufferLen

\* The buffer is half full: its bytes go to the text.
HalfFull(raw) == Len(raw) > BufferLen \div 2

Reading == running /\ stageNow = 1 /\ readDataRaw # Freed

\* read() returns n bytes: as many as fit and are there, or fewer.
ReadSome(n) ==
    /\ Reading
    /\ n <= Room /\ n <= Len(net)
    /\ LET raw == readDataRaw \o SubSeq(net, 1, n) IN
       IF HalfFull(raw)
       THEN /\ readDataString' = readDataString \o raw
            /\ readDataRaw' = <<>> /\ readDataLen' = 0
       ELSE /\ readDataRaw' = raw /\ readDataLen' = Len(raw)
            /\ UNCHANGED readDataString
    /\ net' = SubSeq(net, n + 1, Len(net))
    /\ UNCHANGED <<sent, fin, edge, running, stageNow, readData, bytesWritten, closed, consumed,
                   executed, wire>>

\* Mistake: the buffer's length is not reset.
CompleteKeepsLength(text, next) ==
    /\ stageNow' = 2
    /\ readData' = RequestOf(text)
    /\ readDataString' = SubSeq(text, next + 1, Len(text))
    /\ consumed' = consumed \o SubSeq(text, 1, next)
    /\ UNCHANGED <<running, readDataLen, readDataRaw, closed>>

\* Mistake: the text is kept whole.
CompleteKeepsText(text, next) ==
    /\ stageNow' = 2
    /\ readData' = RequestOf(text)
    /\ readDataString' = text
    /\ readDataRaw' = <<>> /\ readDataLen' = 0
    /\ UNCHANGED <<running, consumed, closed>>

\* The request is there: the text behind it stays.
Complete(text, next) ==
    /\ stageNow' = 2
    /\ readData' = RequestOf(text)
    /\ readDataString' = SubSeq(text, next + 1, Len(text))
    /\ consumed' = consumed \o SubSeq(text, 1, next)
    /\ readDataRaw' = <<>> /\ readDataLen' = 0
    /\ UNCHANGED <<running, closed>>

\* EAGAIN: the buffer's bytes go to the text, and checkData judges it.  When
\* more is to come, readDataLen stays as it is.  When the next part is behind the
\* end of the text substr throws and the process ends, with all its descriptors.
ReadAgain ==
    /\ Reading
    /\ net = <<>> /\ ~fin
    /\ LET text == readDataString \o readDataRaw IN
       /\ Bursts => \E n \in 1..MaxReq : IsPrefix(RequestBytes(n), text)
       /\ \E v \in Verdicts(text) :
            \/ v[1] = 0 /\ v[2] <= Len(text) /\ Complete(text, v[2])
            \/ /\ v[1] = 0 /\ v[2] > Len(text)
               /\ readDataString' = text /\ readData' = RequestOf(text)
               /\ running' = FALSE /\ closed' = TRUE
               /\ UNCHANGED <<stageNow, readDataLen, readDataRaw, consumed>>
            \/ /\ v[1] = 1
               /\ readDataString' = text
               /\ running' = FALSE
               /\ UNCHANGED <<stageNow, readDataLen, readDataRaw, readData, closed, consumed>>
            \/ /\ v[1] = -1
               /\ readDataString' = text
               /\ closed' = TRUE /\ stageNow' = 6
               /\ UNCHANGED <<running, readDataLen, readDataRaw, readData, consumed>>
    /\ UNCHANGED <<inVars, bytesWritten, executed, wire>>

\* End of file: the buffer is freed, its length and the text stay as they are.  When more
\* should have come, the loop reads on with the freed buffer; the process ends on
\* its '\0', which goes to the null pointer, and nothing here follows.
ReadEOF ==
    /\ Reading
    /\ net = <<>> /\ fin
    /\ LET text == readDataString \o readDataRaw IN
       /\ readDataString' = text
       /\ \E v \in Verdicts(text) :
            \/ v[1] = 0 /\ stageNow' = 2 /\ readData' = RequestOf(text) /\ UNCHANGED closed
            \/ v[1] = 1 /\ UNCHANGED <<stageNow, readData, closed>>
            \/ v[1] = -1 /\ stageNow' = 6 /\ closed' = TRUE /\ UNCHANGED readData
    /\ readDataRaw' = Freed
    /\ UNCHANGED <<inVars, running, readDataLen, bytesWritten, consumed, executed, wire>>

-----------------------------------------------------------------------------
(* The later stages.                                                          *)

\* eReadDataParse, eDataProcess, eWriteDataParse.
Advance ==
    /\ running /\ stageNow \in 2..4
    /\ stageNow' = stageNow + 1
    /\ executed' = IF stageNow = 3 THEN Append(executed, readData) ELSE executed
    /\ UNCHANGED <<inVars, running, readDataLen, readDataRaw, readDataString, readData, bytesWritten, closed,
                   consumed, wire>>

\* Mistakes: the last write's count replaces the sum; a byte is counted twice;
\* one byte is left.
AddWrittenLast(n) == n
AddWrittenMore(n) == (bytesWritten + n + 1) % SizeT
AddWrittenStays(n) == bytesWritten

\* bytesWritten += nwrite, an int added to a size_t.
AddWritten(n) == (bytesWritten + n) % SizeT

\* Mistake: the stage moves on in eWrite and once more in triggerEvent.
WrittenTwice(n) ==
    /\ bytesWritten' = AddWritten(n)
    /\ stageNow' = IF AddWritten(n) < RespLen THEN 5 ELSE 7

\* eWrite after write() returned n: finished when nothing is left.
Written(n) ==
    /\ bytesWritten' = AddWritten(n)
    /\ stageNow' = IF AddWritten(n) < RespLen THEN 5 ELSE 6

\* write() takes n bytes, or returns -1: EAGAIN.
WriteOnce(n) ==
    /\ running /\ stageNow = 5
    /\ n # 0 /\ n <= RespLen - bytesWritten
    /\ n = -1 => Backpressure
    /\ wire' = IF fin THEN wire ELSE wire \o [i \in 1..n |-> <<readData, bytesWritten + i>>]
    /\ Written(n)
    /\ UNCHANGED <<inVars, running, readDataLen, readDataRaw, readDataString, readData, closed,
                   consumed, executed>>

\* triggerEvent returns false at stage 6.
Finished ==
    /\ running /\ stageNow = 6
    /\ running' = FALSE
    /\ UNCHANGED <<inVars, stageNow, readDataLen, readDataRaw, readDataString, readData, bytesWritten, closed,
                   consumed, executed, wire>>

-----------------------------------------------------------------------------
Server ==
    \/ Report
    \/ \E n \in 1..BufferLen : ReadSome(n)
    \/ ReadAgain \/ ReadEOF
    \/ Advance
    \/ \E n \in -1..RespLen : WriteOnce(n)
    \/ Finished

Next ==
    \/ \E n \in 1..(MaxReq * ReqLen) : Arrive(n)
    \/ Finish
    \/ Server

Spec == Init /\ [][Next]_vars

\* The loop thread is scheduled; a request once begun is sent to its end.
FairSpec ==
    /\ Spec
    /\ WF_vars(Server)
    /\ WF_vars(sent % ReqLen # 0 /\ \E n \in 1..ReqLen : Arrive(n))

-----------------------------------------------------------------------------
(* Properties.                                                                *)

TypeOK ==
    /\ sent \in 0..(MaxReq * ReqLen) /\ net \in Seq(Nat)
    /\ fin \in BOOLEAN /\ edge \in BOOLEAN /\ running \in BOOLEAN /\ closed \in BOOLEAN
    /\ stageNow \in 1..6
    /\ readDataLen \in 0..BufferLen
    /\ \/ readDataRaw = Freed
       \/ readDataRaw \in Seq(Nat) /\ Len(readDataRaw) = readDataLen
    /\ readDataString \in Seq(Nat)
    /\ readData \in 0..MaxReq
    /\ bytesWritten \in 0..(SizeT - 1)
    /\ executed \in Seq(1..MaxReq)
    /\ wire \in Seq((1..MaxReq) \X (1..RespLen))

\* However the client's bytes arrive and whatever checkData says of them, read()
\* is given room, as a length of zero would be taken for the end of the stream;
\* and a buffer, up to the client's end.
RoomToRead == running /\ stageNow = 1 => Room > 0 /\ (readDataRaw # Freed \/ fin)

\* The buffer is freed when everything has been read ("all datas has been read,
\* free raw memory", BaseEvent.cpp:82), never while eRead reads on.
BufferThere == running /\ stageNow = 1 => readDataRaw # Freed

\* The raw input data (BaseEvent.h:30) is the client's: what has been cut from
\* the text, the text, the buffer and the kernel's queue are together exactly
\* what was sent, with nothing lost, repeated or out of place.
InputKept ==
    ~fin => consumed \o readDataString \o (IF readDataRaw = Freed THEN <<>> ELSE readDataRaw) \o net
              = Positions(1, sent)

\* The text is what the client sent: no piece of the raw input data is added to
\* it twice.
TextKept == ~fin => IsPrefix(consumed \o readDataString, Positions(1, sent))

\* The requests processed are the client's, in order, and each once unless the
\* client closed with the request unanswered.
ExecutedInOrder ==
    \A i \in DOMAIN executed :
        executed[i] = i \/ (fin /\ i > 1 /\ executed[i] = executed[i - 1])

\* The client receives the responses byte for byte, one after the other.
WireExact ==
    \A i \in DOMAIN wire : wire[i] = <<((i - 1) \div RespLen) + 1, ((i - 1) % RespLen) + 1>>

\* bytesWritten is the number of bytes written ("bytes written",
\* BaseEvent.h:38), so an event finishes only with its response written whole.
WrittenCounted ==
    ~fin /\ ~closed /\ stageNow \in 5..6 =>
        Len(wire) = (Len(executed) - 1) * RespLen + bytesWritten

\* The loop over triggerEvent ends: one connection never keeps the thread.
TurnEnds == running ~> ~running
=============================================================================
