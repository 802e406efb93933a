---------------------------- MODULE ReceiveBuffer ----------------------------
(***************************************************************************)
(* The receive path of a session: ReceiveBuffer (Core/Network/Buffer.h,    *)
(* Buffer.cpp), Session::ProcessReceive and PacketQueue::Push, which cuts  *)
(* the bytes into packets (Protocol/Packet/Queue.cpp).                     *)
(*                                                                         *)
(* A session has one receive at a time (Session), so ProcessReceive with   *)
(* all its calls is one action.  A byte is its position in the stream the  *)
(* peer sends, a sequence of packets; the network cuts the stream anywhere.*)
(* The peer is one that frames its packets as MakeSendBuffer does: no size *)
(* is shorter than a header.  A packet may be longer than mSize, but not   *)
(* than the buffer, as no size of 16 bits is (32767 against 65536 bytes).  *)
(* Names that SendChunk has too carry Recv or Packet, so that one module   *)
(* can extend both.                                                        *)
(***************************************************************************)
EXTENDS Integers, Sequences

CONSTANTS Size,              \* mSize
          Factor,            \* kCapcityFactor
          PacketHeaderSize,  \* sizeof(PacketHeader)
          PacketSizes,       \* values of PacketHeader::size
          MaxPackets         \* bound: packets the peer sends

Capacity == Size * Factor

ASSUME SizeAssumption == Size \in Nat \ {0} /\ Factor \in Nat \ {0}
ASSUME PacketAssumption == PacketHeaderSize \in 1..Size /\ MaxPackets \in Nat
ASSUME PacketSizeAssumption == PacketSizes \subseteq PacketHeaderSize..Capacity

VARIABLES
    stream,       \* sizes of the packets the peer sends
    got,          \* bytes of the stream received so far
    mRecvBuffer,  \* ReceiveBuffer::mBuffer: the position in the stream of the
                  \* byte in each cell (0: nothing yet, or contents not known)
    mReadPos,
    mWritePos,
    recvLen,      \* WSABUF::len of the receive that is posted
    mQueue,       \* packets queued: each the bytes RawPacket has copied
    recvStatus    \* "open"; "closed", "refused": DisconnectAsync was called;
                  \* "undefined": memcpy on overlapping ranges has lost bytes

recvVars == <<stream, got, mRecvBuffer, mReadPos, mWritePos, recvLen, mQueue, recvStatus>>

RecvCells == 0..(Capacity - 1)

\* Where packet k begins in the stream; StartOf[Len(stream) + 1] is past its end.
StartOf[k \in 1..(MaxPackets + 1)] ==
    IF k = 1 THEN 1 ELSE StartOf[k - 1] + stream[k - 1]
Total == StartOf[MaxPackets + 1] - 1

\* header->size at a byte of the stream: meaningful where a packet begins.
HeaderField(b) ==
    LET starts == {k \in 1..MaxPackets : StartOf[k] = b}
    IN IF starts = {} THEN PacketHeaderSize ELSE stream[CHOOSE k \in starts : TRUE]

GetDataSize(r, w) == w - r

\* GetFreeSize
GetRecvFreeSize(r, w) == Capacity - w

\* What the two calls return, and the position they leave.
OnWritten(r, w, numBytes) == [ok |-> numBytes <= GetRecvFreeSize(r, w), pos |-> w + numBytes]
OnRead(r, w, numBytes) == [ok |-> numBytes <= GetDataSize(r, w), pos |-> r + numBytes]

RecvInit ==
    /\ stream \in [1..MaxPackets -> PacketSizes]
    /\ got = 0
    /\ mRecvBuffer = [i \in RecvCells |-> 0]
    /\ mReadPos = 0
    /\ mWritePos = 0
    /\ recvLen = Capacity
    /\ mQueue = <<>>
    /\ recvStatus = "open"

-------------------------------------------------------------------------------
\* The header and all of the packet are among the bytes left; mutant: the
\* packet's size is not compared.
Complete_HeaderOnly(size, left) == left >= PacketHeaderSize
Complete(size, left) == left >= PacketHeaderSize /\ size <= left

\* PacketQueue::Push on numBytes bytes of buf from cell base on: the offsets
\* at which it finds a packet to queue.
PacketOffsets(buf, base, numBytes) ==
    LET SizeAt(o) == HeaderField(buf[base + o])
        From[o \in 0..(numBytes + Capacity)] ==
            IF o < numBytes /\ Complete(SizeAt(o), numBytes - o)
            THEN <<o>> \o From[o + SizeAt(o)]
            ELSE <<>>
    IN From[0]

\* RawPacket copies size bytes; those past the buffer are not data (0).
PacketAt(buf, cell) ==
    [i \in 1..HeaderField(buf[cell]) |->
        IF cell + i - 1 \in RecvCells THEN buf[cell + i - 1] ELSE 0]

\* The sum of the sizes of the packets queued: what Push returns.
Processed(buf, base, offsets) ==
    IF offsets = <<>> THEN 0
    ELSE LET last == offsets[Len(offsets)] IN last + HeaderField(buf[base + last])

\* The buffer memcpy leaves; mutant: it copies from the buffer's start.
Moved_FromStart(buf, r, n) == buf
Moved(buf, r, n) == [i \in RecvCells |-> IF i < n THEN buf[i + r] ELSE buf[i]]

\* memcpy on n bytes from cell r to the front is defined for ranges that do not
\* overlap (a copy onto itself moves nothing); on others it may do what memmove
\* does, or leave contents nobody can rely on.
Overlaps(r, n) == r > 0 /\ n > r
Scrambled(buf, n) == [i \in RecvCells |-> IF i < n THEN 0 ELSE buf[i]]

\* mutant: the backlog is moved before the buffer is nearly full.
TooLittleLeft_ForAll(free) == free < Capacity
TooLittleLeft(free) == free < Size

\* ReceiveBuffer::Clear and RegisterReceive, with read position r.
ClearAndReceive(buf, r, w) ==
    LET dataSize == GetDataSize(r, w) IN
    IF dataSize = 0 THEN
        /\ mRecvBuffer' = buf /\ mReadPos' = 0 /\ mWritePos' = 0
        /\ recvLen' = GetRecvFreeSize(0, 0)
        /\ UNCHANGED recvStatus
    ELSE IF TooLittleLeft(GetRecvFreeSize(r, w)) THEN
        /\ mReadPos' = 0 /\ mWritePos' = dataSize
        /\ recvLen' = GetRecvFreeSize(0, dataSize)
        /\ \/ mRecvBuffer' = Moved(buf, r, dataSize) /\ UNCHANGED recvStatus
           \/ /\ Overlaps(r, dataSize)
              /\ mRecvBuffer' = Scrambled(buf, dataSize)
              /\ recvStatus' = "undefined"
    ELSE
        /\ mRecvBuffer' = buf /\ mReadPos' = r /\ mWritePos' = w
        /\ recvLen' = GetRecvFreeSize(r, w)
        /\ UNCHANGED recvStatus

\* What ProcessReceive passes to OnReceived: the bytes that have just come,
\* from the read position on, whatever is still unread before them.
Window(numBytes, dataSize) == numBytes

\* ProcessReceive: OnWritten, OnReceived, OnRead, Clear, RegisterReceive.
Receive(numBytes) ==
    LET written == [i \in RecvCells |-> IF i \in mWritePos..(mWritePos + numBytes - 1)
                                        THEN got + 1 + i - mWritePos ELSE mRecvBuffer[i]]
        w == OnWritten(mReadPos, mWritePos, numBytes).pos
        offsets == PacketOffsets(written, mReadPos,
                                 Window(numBytes, GetDataSize(mReadPos, w)))
        processed == Processed(written, mReadPos, offsets)
        read == OnRead(mReadPos, w, processed)
    IN
    /\ recvStatus = "open"
    /\ numBytes <= recvLen
    /\ got + numBytes <= Total
    /\ got' = got + numBytes
    /\ IF ~OnWritten(mReadPos, mWritePos, numBytes).ok THEN
          /\ recvStatus' = "refused"
          /\ UNCHANGED <<mRecvBuffer, mReadPos, mWritePos, recvLen, mQueue>>
       ELSE
          /\ mQueue' = mQueue \o [i \in DOMAIN offsets |->
                                     PacketAt(written, mReadPos + offsets[i])]
          /\ IF ~read.ok THEN
                /\ recvStatus' = "refused"
                /\ mRecvBuffer' = written /\ mWritePos' = w
                /\ UNCHANGED <<mReadPos, recvLen>>
             ELSE ClearAndReceive(written, read.pos, w)
    /\ UNCHANGED stream

\* ProcessReceive with numBytes = 0: the peer has closed, or the receive was
\* posted with no space at all and data has come.
ReceiveNothing ==
    /\ recvStatus = "open"
    /\ got = Total \/ recvLen = 0
    /\ recvStatus' = "closed"
    /\ UNCHANGED <<stream, got, mRecvBuffer, mReadPos, mWritePos, recvLen, mQueue>>

RecvNext == (\E n \in 1..Capacity : Receive(n)) \/ ReceiveNothing

RecvSpec == RecvInit /\ [][RecvNext]_recvVars

-------------------------------------------------------------------------------
RecvTypeOK ==
    /\ stream \in [1..MaxPackets -> PacketSizes]
    /\ got \in 0..Total
    /\ mRecvBuffer \in [RecvCells -> 0..Total]
    /\ 0 <= mReadPos /\ mReadPos <= mWritePos /\ mWritePos <= Capacity
    /\ recvLen \in 0..Capacity
    /\ mQueue \in Seq(Seq(0..Total))
    /\ recvStatus \in {"open", "closed", "refused", "undefined"}

\* The packet after the last one queued, when it could have been queued, or is
\* longer than half of what fills the buffer before Clear moves the backlog
\* (in the code, longer than 30720 bytes).
NextPacket == stream[Len(mQueue) + 1]
NextIsComplete == Complete(NextPacket, mWritePos - mReadPos)
NextIsHuge == 2 * NextPacket > Capacity - Size

\* What is in the buffer between the two positions is what the peer sent after
\* the packets already queued, over any cutting of the stream and any number of
\* moves to the front, until Clear calls memcpy on overlapping ranges
\* (Buffer.cpp:51).  That happens only where a packet that came completely was
\* not queued (the window of Session.cpp:392 is too short for it) or a packet is
\* huge; smaller packets that are queued as they come never meet it.
BacklogIntact ==
    /\ Len(mQueue) <= MaxPackets
    /\ StartOf[Len(mQueue) + 1] - 1 = got - (mWritePos - mReadPos)
    /\ \/ \A i \in mReadPos..(mWritePos - 1) : mRecvBuffer[i] = got - (mWritePos - 1 - i)
       \/ /\ recvStatus = "undefined"
          /\ NextIsComplete \/ NextIsHuge

\* The queue gets the peer's packets, each one whole, in order and once.
WholePackets ==
    \A k \in DOMAIN mQueue :
        mQueue[k] = [i \in 1..stream[k] |-> StartOf[k] + i - 1]

\* Loop.h:47 says that PushPackets is given the size of the data in the buffer:
\* then no packet that has come completely would be left there.
CompletePacketsQueued ==
    recvStatus = "open" =>
        ~(mWritePos > mReadPos /\ Complete(HeaderField(mRecvBuffer[mReadPos]), mWritePos - mReadPos))

===============================================================================
