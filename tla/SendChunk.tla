------------------------------ MODULE SendChunk ------------------------------
(***************************************************************************)
(* The memory of the packets that are sent: SendChunkPool, SendChunk and   *)
(* SendBuffer (Core/Network/Buffer.h, Buffer.cpp) under                    *)
(* PacketUtils::MakeSendBuffer (Protocol/Packet/Utils.h).                  *)
(*                                                                         *)
(* A chunk is shared by the thread that fills it and by its buffers; who   *)
(* drops the last reference returns it to the pool, in a step of its own.  *)
(* A buffer is shared by the sessions it is given to (Room::Broadcast      *)
(* gives one to every player), and any thread that handles a completion    *)
(* may drop the last reference.                                            *)
(***************************************************************************)
EXTENDS Integers, Sequences

CONSTANTS Threads,
          Chunks, NoChunk,    \* chunks that new may return
          Buffers, NoBuffer,  \* bound: SendBuffers alive at a time
          Int16Max,           \* largest Int16
          HeaderSize,         \* sizeof(PacketHeader)
          PayloadSizes,       \* values of payload.ByteSizeLong()
          MaxHolders          \* bound: sessions one buffer is given to

\* 64 KiB, twice the number of nonnegative Int16
kBufferSize == 2 * (Int16Max + 1)
Cells == 0..(kBufferSize - 1)

ASSUME SizesAssumption ==
    /\ Int16Max \in Nat /\ HeaderSize \in 1..Int16Max
    /\ PayloadSizes \subseteq Nat /\ MaxHolders \in Nat
ASSUME NoneAssumption == NoChunk \notin Chunks /\ NoBuffer \notin Buffers

VARIABLES
    tSendChunk,    \* the thread's chunk
    mSendChunks,   \* the pool
    known,         \* chunks allocated so far
    mIsWriting,    \* per chunk
    mWrittenSize,  \* per chunk
    mBuffer,       \* per chunk: the buffer whose bytes each cell has
    owner,         \* mOwner of each buffer; NoChunk: it does not exist
    pos, size,     \* mBuffer and mWrittenSize of each buffer
    holders,       \* references to each buffer from sessions
    pc,            \* where each thread stands
    mine,          \* the buffer a thread is making
    payload,       \* and the size of its payload
    dropped,       \* the chunk whose last reference the thread has dropped
    status         \* "running"; "crash": an assertion has failed; "undefined"

poolVars == <<tSendChunk, mSendChunks, known, dropped>>
chunkVars == <<mIsWriting, mWrittenSize, mBuffer>>
bufferVars == <<owner, pos, size, holders>>
threadVars == <<pc, mine, payload>>
vars == <<poolVars, chunkVars, bufferVars, threadVars, status>>

Init ==
    /\ tSendChunk = [t \in Threads |-> NoChunk]
    /\ mSendChunks = <<>>
    /\ known = {}
    /\ mIsWriting = [c \in Chunks |-> FALSE]
    /\ mWrittenSize = [c \in Chunks |-> 0]
    /\ mBuffer = [c \in Chunks |-> [i \in Cells |-> NoBuffer]]
    /\ owner = [b \in Buffers |-> NoChunk]
    /\ pos = [b \in Buffers |-> 0]
    /\ size = [b \in Buffers |-> 0]
    /\ holders = [b \in Buffers |-> 0]
    /\ pc = [t \in Threads |-> "idle"]
    /\ mine = [t \in Threads |-> NoBuffer]
    /\ payload = [t \in Threads |-> 0]
    /\ dropped = [t \in Threads |-> NoChunk]
    /\ status = "running"

\* A thread that has dropped the last reference of a chunk first returns it.
At(t, label) == status = "running" /\ dropped[t] = NoChunk /\ pc[t] = label
Goto(t, label) == pc' = [pc EXCEPT ![t] = label]

\* static_cast_16
Int16(n) == ((n + Int16Max + 1) % (2 * (Int16Max + 1))) - Int16Max - 1
PacketSize(p) == Int16(HeaderSize + Int16(p))

GetFreeSize(c) == kBufferSize - mWrittenSize[c]

\* What ~SharedPtr<SendChunk> of c leaves to its thread, when the references
\* that are left are those of the threads ts and the buffers os; mutant: a
\* SendBuffer does not keep its chunk.
Unreferenced_ByBuffers(c, ts, os) == c # NoChunk /\ \A t \in Threads : ts[t] # c
Unreferenced(c, ts, os) ==
    /\ c # NoChunk
    /\ \A t \in Threads : ts[t] # c
    /\ \A b \in Buffers : os[b] # c
Return(t, c, ts, os) ==
    dropped' = [dropped EXCEPT ![t] = IF Unreferenced(c, ts, os) THEN c ELSE NoChunk]

-------------------------------------------------------------------------------
\* Another chunk is needed for n bytes; mutant: the header is not counted.
TooSmall_PayloadOnly(c, n) == GetFreeSize(c) < n - HeaderSize
TooSmall(c, n) == GetFreeSize(c) < n

\* MakeSendBuffer, up to the choice SendChunkPool::Alloc makes.
MakeSendBuffer(t, b, p) ==
    LET c == tSendChunk[t] IN
    /\ At(t, "idle")
    /\ owner[b] = NoChunk
    /\ \A u \in Threads : mine[u] # b
    /\ mine' = [mine EXCEPT ![t] = b]
    /\ payload' = [payload EXCEPT ![t] = p]
    /\ status' = IF c # NoChunk /\ mIsWriting[c] THEN "crash" ELSE status
    /\ Goto(t, IF c = NoChunk \/ TooSmall(c, PacketSize(p)) THEN "pop" ELSE "alloc")
    /\ UNCHANGED <<poolVars, chunkVars, bufferVars>>

\* Pop's write guard: the chunk it takes, and what it leaves.
Popped == SubSeq(mSendChunks, 1, Len(mSendChunks) - 1)

\* Pop, the assignment to tSendChunk, which drops the old chunk, and Clear.
Pop(t, c) ==
    LET old == tSendChunk[t] IN
    /\ At(t, "pop")
    /\ \/ /\ mSendChunks # <<>>
          /\ c = mSendChunks[Len(mSendChunks)]
          /\ mSendChunks' = Popped
          /\ UNCHANGED known
       \/ /\ mSendChunks = <<>>
          /\ c \notin known
          /\ known' = known \cup {c}
          /\ UNCHANGED mSendChunks
    /\ tSendChunk' = [tSendChunk EXCEPT ![t] = c]
    /\ Return(t, old, tSendChunk', owner)
    /\ mIsWriting' = [mIsWriting EXCEPT ![c] = FALSE]
    /\ mWrittenSize' = [mWrittenSize EXCEPT ![c] = 0]
    /\ Goto(t, "alloc")
    /\ UNCHANGED <<mBuffer, bufferVars, mine, payload, status>>

\* SendChunkPool::Delete: Push, under the write guard.
Push(t) ==
    /\ status = "running"
    /\ dropped[t] # NoChunk
    /\ mSendChunks' = Append(mSendChunks, dropped[t])
    /\ dropped' = [dropped EXCEPT ![t] = NoChunk]
    /\ UNCHANGED <<tSendChunk, known, chunkVars, bufferVars, threadVars, status>>

\* SendChunk::Alloc
Alloc(t) ==
    LET c == tSendChunk[t] IN
    /\ At(t, "alloc")
    /\ IF PacketSize(payload[t]) <= GetFreeSize(c) /\ ~mIsWriting[c]
       THEN /\ mIsWriting' = [mIsWriting EXCEPT ![c] = TRUE]
            /\ owner' = [owner EXCEPT ![mine[t]] = c]
            /\ pos' = [pos EXCEPT ![mine[t]] = mWrittenSize[c]]
            /\ Goto(t, "write")
            /\ UNCHANGED status
       ELSE /\ status' = "crash"
            /\ UNCHANGED <<mIsWriting, owner, pos, pc>>
    /\ UNCHANGED <<poolVars, mWrittenSize, mBuffer, size, holders, mine, payload>>

\* mWrittenSize += writtenSize; mutant: the header is not counted.
Advanced_NoHeader(w, n) == w + n - HeaderSize
Advanced(w, n) == w + n

\* The last reference to buffer b goes, in thread t, and with it the one the
\* buffer has to its chunk.  (Bytes of a buffer that is gone are of no interest.)
Destroy(t, b, memory) ==
    /\ owner' = [owner EXCEPT ![b] = NoChunk]
    /\ pos' = [pos EXCEPT ![b] = 0]
    /\ size' = [size EXCEPT ![b] = 0]
    /\ mBuffer' = [c \in Chunks |-> [i \in Cells |->
                      IF memory[c][i] = b THEN NoBuffer ELSE memory[c][i]]]
    /\ Return(t, owner[b], tSendChunk, owner')

\* The header and SerializeToArray, then SendBuffer::OnWritten and
\* SendChunk::OnWritten; the buffer is given to k sessions, and its maker drops
\* it.  Serializing fails when the payload does not fit the size it is given; a
\* packet size that has become negative moves the write position back and makes
\* the length of the WSABUF huge.
Write(t, k) ==
    LET b == mine[t]
        c == owner[b]
        p == payload[t]
        n == PacketSize(p)
        cells == pos[b]..(pos[b] + HeaderSize + p - 1)
        written == [mBuffer EXCEPT ![c] = [i \in Cells |-> IF i \in cells THEN b ELSE @[i]]]
    IN
    /\ At(t, "write")
    /\ status' = IF Int16(p) < p THEN "crash"
                 ELSE IF n < 0 \/ ~(cells \subseteq Cells) THEN "undefined"
                 ELSE IF ~mIsWriting[c] THEN "crash" ELSE status
    /\ IF status' # "running"
       THEN UNCHANGED <<poolVars, chunkVars, bufferVars, threadVars>>
       ELSE /\ mIsWriting' = [mIsWriting EXCEPT ![c] = FALSE]
            /\ mWrittenSize' = [mWrittenSize EXCEPT ![c] = Advanced(@, n)]
            /\ holders' = [holders EXCEPT ![b] = k]
            /\ IF k = 0
               THEN Destroy(t, b, written)
               ELSE /\ mBuffer' = written
                    /\ size' = [size EXCEPT ![b] = n]
                    /\ UNCHANGED <<owner, pos, dropped>>
            /\ mine' = [mine EXCEPT ![t] = NoBuffer]
            /\ payload' = [payload EXCEPT ![t] = 0]
            /\ Goto(t, "idle")
            /\ UNCHANGED <<tSendChunk, mSendChunks, known>>

-------------------------------------------------------------------------------
\* SendBufferManager::Clear in a session that has b, when it is sent or has failed.
Drop(t, b) ==
    /\ At(t, "idle")
    /\ holders[b] > 0
    /\ holders' = [holders EXCEPT ![b] = @ - 1]
    /\ IF holders[b] = 1 THEN Destroy(t, b, mBuffer)
                         ELSE UNCHANGED <<owner, pos, size, mBuffer, dropped>>
    /\ UNCHANGED <<tSendChunk, mSendChunks, known, mIsWriting, mWrittenSize, threadVars, status>>

\* The thread ends: its thread_local chunk goes.
ThreadExit(t) ==
    /\ At(t, "idle")
    /\ tSendChunk[t] # NoChunk
    /\ tSendChunk' = [tSendChunk EXCEPT ![t] = NoChunk]
    /\ Return(t, tSendChunk[t], tSendChunk', owner)
    /\ UNCHANGED <<mSendChunks, known, chunkVars, bufferVars, threadVars, status>>

Next == \E t \in Threads :
    \/ \E b \in Buffers, p \in PayloadSizes : MakeSendBuffer(t, b, p)
    \/ \E c \in Chunks : Pop(t, c)
    \/ Push(t) \/ Alloc(t)
    \/ \E k \in 0..MaxHolders : Write(t, k)
    \/ \E b \in Buffers : Drop(t, b)
    \/ ThreadExit(t)

Spec == Init /\ [][Next]_vars

-------------------------------------------------------------------------------
TypeOK ==
    /\ tSendChunk \in [Threads -> Chunks \cup {NoChunk}]
    /\ mSendChunks \in Seq(Chunks)
    /\ known \subseteq Chunks
    /\ mIsWriting \in [Chunks -> BOOLEAN]
    /\ mWrittenSize \in [Chunks -> 0..kBufferSize]
    /\ mBuffer \in [Chunks -> [Cells -> Buffers \cup {NoBuffer}]]
    /\ owner \in [Buffers -> Chunks \cup {NoChunk}]
    /\ pos \in [Buffers -> Nat] /\ size \in [Buffers -> Nat] /\ holders \in [Buffers -> Nat]
    /\ pc \in [Threads -> {"idle", "pop", "alloc", "write"}]
    /\ mine \in [Threads -> Buffers \cup {NoBuffer}]
    /\ payload \in [Threads -> Nat]
    /\ dropped \in [Threads -> Chunks \cup {NoChunk}]
    /\ status \in {"running", "crash", "undefined"}

\* The bytes of a packet are what MakeSendBuffer wrote for as long as a session
\* has it to send, although chunks are filled by several packets, cleared and
\* filled again by other threads, and the kernel reads them at any time.
BytesIntact ==
    status = "running" =>
        \A b \in Buffers : holders[b] > 0 =>
            /\ owner[b] \in Chunks /\ size[b] >= HeaderSize
            /\ \A i \in pos[b]..(pos[b] + size[b] - 1) : mBuffer[owner[b]][i] = b

\* A chunk that was allocated is in one place: in the pool once, or on its way
\* there with one thread, or referred to; and no two threads fill the same one.
\* None is lost, none is given out while packets are in it.
OnePlace ==
    /\ \A c \in known :
          LET pooled == {i \in DOMAIN mSendChunks : mSendChunks[i] = c}
              returning == {t \in Threads : dropped[t] = c}
              used == ~Unreferenced(c, tSendChunk, owner)
          IN /\ \A i, j \in pooled : i = j
             /\ \A t, u \in returning : t = u
             /\ (pooled # {}) => (returning = {} /\ ~used)
             /\ (returning # {}) => ~used
             /\ pooled # {} \/ returning # {} \/ used
    /\ \A t, u \in Threads : tSendChunk[t] = tSendChunk[u] /\ t # u => tSendChunk[t] = NoChunk

\* BUFFER_OVERFLOW, WRITING_STATE and NOT_WRITING_STATE never fail and no byte is
\* written past a chunk: the process ends here only over a payload whose packet
\* has no size in 16 bits.
EndsOnlyOversized ==
    status # "running" =>
        \E t \in Threads : pc[t] = "write" /\ HeaderSize + payload[t] > Int16Max
===============================================================================
