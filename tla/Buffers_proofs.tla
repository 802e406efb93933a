---------------------------- MODULE Buffers_proofs ----------------------------
(***************************************************************************)
(* Proofs about the buffers of a session, for any sizes and any number of  *)
(* threads, chunks and packets.                                            *)
(*                                                                         *)
(* Sending (SendChunk): the write positions of a chunk keep its buffers    *)
(* apart, as long as one thread fills it and nothing clears it before its  *)
(* last buffer is gone.  Both follow from where chunks are: a chunk in the *)
(* pool is referred to by nobody, and no two threads have the same one.    *)
(*                                                                         *)
(* Receiving (ReceiveBuffer): as long as receives are posted, the bytes    *)
(* left in the buffer are the ones after the packets queued, so each pass  *)
(* of PacketQueue::Push begins at the first byte of a packet.              *)
(***************************************************************************)
EXTENDS SendChunk, ReceiveBuffer, SequenceTheorems, WellFoundedInduction, TLAPS

\* The buffer a thread is making is its own, and no session has it yet.
MakerInv ==
    /\ \A t \in Threads :
          /\ pc[t] = "idle" <=> mine[t] = NoBuffer
          /\ pc[t] \in {"pop", "alloc"} => owner[mine[t]] = NoChunk
          /\ pc[t] \in {"alloc", "write"} => tSendChunk[t] # NoChunk
          /\ pc[t] = "write" => owner[mine[t]] = tSendChunk[t]
          /\ mine[t] # NoBuffer => holders[mine[t]] = 0
    /\ \A t, u \in Threads : mine[t] = mine[u] /\ t # u => mine[t] = NoBuffer
    /\ \A b \in Buffers : holders[b] > 0 => owner[b] # NoChunk

Pooled(c) == \E i \in 1..Len(mSendChunks) : mSendChunks[i] = c
Returning(c) == \E t \in Threads : dropped[t] = c
Used(c) == (\E t \in Threads : tSendChunk[t] = c) \/ (\E b \in Buffers : owner[b] = c)

\* Where a chunk is: nowhere before it is allocated, then in one place.
Placed(c) ==
    /\ ~(Pooled(c) /\ Returning(c)) /\ ~(Pooled(c) /\ Used(c)) /\ ~(Returning(c) /\ Used(c))
    /\ c \in known <=> Pooled(c) \/ Returning(c) \/ Used(c)

PlaceInv ==
    /\ \A i, j \in 1..Len(mSendChunks) : mSendChunks[i] = mSendChunks[j] => i = j
    /\ \A t, u \in Threads : dropped[t] = dropped[u] /\ t # u => dropped[t] = NoChunk
    /\ \A t, u \in Threads : tSendChunk[t] = tSendChunk[u] /\ t # u => tSendChunk[t] = NoChunk
    /\ \A c \in Chunks : Placed(c)

\* A chunk is written by the thread that has it, above what its buffers have.
WriteInv ==
    /\ \A c \in Chunks : mIsWriting[c] <=> \E t \in Threads : pc[t] = "write" /\ tSendChunk[t] = c
    /\ \A t \in Threads : pc[t] \in {"alloc", "write"} =>
           PacketSize(payload[t]) <= GetFreeSize(tSendChunk[t])
    /\ \A t \in Threads : pc[t] = "write" => pos[mine[t]] = mWrittenSize[tSendChunk[t]]

Laid(b) == /\ size[b] >= HeaderSize /\ pos[b] + size[b] <= mWrittenSize[owner[b]]
           /\ \A i \in pos[b]..(pos[b] + size[b] - 1) : mBuffer[owner[b]][i] = b

LayoutInv == status = "running" => WriteInv /\ \A b \in Buffers : holders[b] > 0 => Laid(b)

Inv == TypeOK /\ MakerInv /\ PlaceInv /\ LayoutInv /\ EndsOnlyOversized

USE SizesAssumption, NoneAssumption

-------------------------------------------------------------------------------
(* Sizes                                                                   *)

\* What static_cast_16 gives: a value of 16 bits, the same one if it fits.
LEMMA Int16Facts ==
    ASSUME NEW x \in Int
    PROVE  /\ Int16(x) \in Int /\ Int16(x) <= Int16Max
           /\ x \in 0..Int16Max => Int16(x) = x
           /\ x \in (Int16Max + 1)..(2 * Int16Max) => Int16(x) < 0
<1> DEFINE m == 2 * (Int16Max + 1)
           y == x + Int16Max + 1
<1>1. m \in Nat /\ m > 0 /\ m = 2 * Int16Max + 2 /\ y \in Int
    OBVIOUS
<1>2. \A z \in Int : \A d \in Nat : d > 0 => z % d \in Int /\ z % d < d
    OBVIOUS
<1>3. \A z, d \in Nat : z < d => z % d = z /\ (z + d) % d = z
    OBVIOUS
<1>4. Int16(x) = (y % m) - Int16Max - 1
    BY DEF Int16
<1>5. y % m \in Int /\ y % m < m
    BY <1>1, <1>2
<1>6. ASSUME x \in 0..Int16Max PROVE y % m = y
  <2>1. y \in Nat /\ y < m
      BY <1>1, <1>6
  <2> QED BY <1>1, <1>3, <2>1
<1>7. ASSUME x \in (Int16Max + 1)..(2 * Int16Max) PROVE y % m = x - Int16Max - 1
  <2> DEFINE z == x - Int16Max - 1
  <2>1. z \in Nat /\ z < m /\ y = z + m
      BY <1>1, <1>7
  <2> HIDE DEF z, m, y
  <2>2. y % m = z
      BY <1>1, <1>3, <2>1
  <2> QED BY <2>2 DEF z
<1> HIDE DEF m, y
<1> QED BY <1>1, <1>4, <1>5, <1>6, <1>7 DEF y

\* The packet of a payload has its size exactly if that fits 16 bits.
LEMMA Sizes ==
    ASSUME NEW p \in Nat
    PROVE  /\ PacketSize(p) \in Int /\ PacketSize(p) <= Int16Max
           /\ Int16(p) \in Int /\ kBufferSize \in Nat /\ Int16Max <= kBufferSize
           /\ HeaderSize + p <= Int16Max => Int16(p) = p /\ PacketSize(p) = HeaderSize + p
           /\ p <= Int16(p) /\ PacketSize(p) >= 0 =>
                  PacketSize(p) = HeaderSize + p /\ HeaderSize + p <= Int16Max
<1>1. Int16(p) \in Int /\ Int16(p) <= Int16Max /\ HeaderSize + Int16(p) \in Int
    BY Int16Facts
<1>2. PacketSize(p) \in Int /\ PacketSize(p) <= Int16Max
    BY <1>1, Int16Facts DEF PacketSize
<1>3. ASSUME HeaderSize + p <= Int16Max PROVE Int16(p) = p /\ PacketSize(p) = HeaderSize + p
  <2>1. p \in 0..Int16Max /\ HeaderSize + p \in 0..Int16Max
      BY <1>3
  <2> QED BY <2>1, Int16Facts DEF PacketSize
<1>4. ASSUME p <= Int16(p), PacketSize(p) >= 0
      PROVE  PacketSize(p) = HeaderSize + p /\ HeaderSize + p <= Int16Max
  <2>1. Int16(p) = p
      BY <1>1, <1>4, Int16Facts
  <2>2. CASE HeaderSize + p <= Int16Max
      BY <1>3, <2>2
  <2>3. CASE HeaderSize + p > Int16Max
    <3>1. HeaderSize + p \in (Int16Max + 1)..(2 * Int16Max) /\ HeaderSize + p \in Int
        BY <1>1, <2>1, <2>3
    <3> QED BY <1>4, <2>1, <3>1, Int16Facts DEF PacketSize
  <2> QED BY <2>2, <2>3
<1> QED BY <1>1, <1>2, <1>3, <1>4 DEF kBufferSize

-------------------------------------------------------------------------------
(* The two larger steps                                                    *)

\* What the end of a buffer leaves of the memory and of the other buffers.
LEMMA Destroyed ==
    ASSUME TypeOK, NEW t \in Threads, NEW b \in Buffers,
           NEW memory \in [Chunks -> [Cells -> Buffers \cup {NoBuffer}]],
           Destroy(t, b, memory)
    PROVE  /\ owner' = [owner EXCEPT ![b] = NoChunk]
           /\ owner' \in [Buffers -> Chunks \cup {NoChunk}]
           /\ pos' \in [Buffers -> Nat] /\ size' \in [Buffers -> Nat]
           /\ \A o \in Buffers \ {b} : pos'[o] = pos[o] /\ size'[o] = size[o]
           /\ mBuffer' \in [Chunks -> [Cells -> Buffers \cup {NoBuffer}]]
           /\ \A c \in Chunks, i \in Cells, o \in Buffers \ {b} : memory[c][i] = o => mBuffer'[c][i] = o
BY DEF Destroy, TypeOK

\* A write that goes well, of the buffer b, in the chunk c.
LEMMA Written ==
    ASSUME TypeOK, MakerInv, LayoutInv, NEW t \in Threads, NEW k \in 0..MaxHolders,
           Write(t, k), status' = "running",
           NEW b, b = mine[t], NEW c, c = tSendChunk[t], NEW n, n = HeaderSize + payload[t]
    PROVE  /\ b \in Buffers /\ c \in Chunks /\ n \in Nat /\ owner[b] = c
           /\ PacketSize(payload[t]) = n
           /\ mWrittenSize[c] + n <= kBufferSize /\ pos[b] = mWrittenSize[c]
           /\ pos[b]..(pos[b] + n - 1) \subseteq Cells
           /\ mWrittenSize' = [mWrittenSize EXCEPT ![c] = @ + n]
           /\ \A o \in Buffers \ {b} : owner'[o] = owner[o] /\ pos'[o] = pos[o] /\ size'[o] = size[o]
           /\ owner' \in [Buffers -> Chunks \cup {NoChunk}]
           /\ owner'[b] = IF k = 0 THEN NoChunk ELSE c
           /\ pos' \in [Buffers -> Nat] /\ size' \in [Buffers -> Nat]
           /\ k # 0 => pos'[b] = pos[b] /\ size'[b] = n /\ dropped' = dropped
           /\ k = 0 => Return(t, c, tSendChunk, owner')
           /\ mBuffer' \in [Chunks -> [Cells -> Buffers \cup {NoBuffer}]]
           /\ k # 0 => \A i \in pos[b]..(pos[b] + n - 1) : mBuffer'[c][i] = b
           /\ \A d \in Chunks, i \in Cells, o \in Buffers \ {b} :
                 mBuffer[d][i] = o /\ ~(d = c /\ i \in pos[b]..(pos[b] + n - 1)) => mBuffer'[d][i] = o
<1>1. /\ b \in Buffers /\ c \in Chunks /\ owner[b] = c /\ payload[t] \in Nat /\ status = "running"
      /\ pc[t] = "write" /\ pos[b] = mWrittenSize[c] /\ pos[b] \in Nat
      /\ PacketSize(payload[t]) <= GetFreeSize(c)
    BY DEF Write, At, TypeOK, MakerInv, LayoutInv, WriteInv
<1>2. Int16(payload[t]) \in Int /\ PacketSize(payload[t]) \in Int /\ kBufferSize \in Nat
    BY <1>1, Sizes
<1>3. payload[t] <= Int16(payload[t]) /\ PacketSize(payload[t]) >= 0
    BY <1>1, <1>2 DEF Write
<1>4. PacketSize(payload[t]) = n /\ n \in Nat /\ n > 0
    BY <1>1, <1>3, Sizes
<1>5. mWrittenSize[c] \in Nat /\ mWrittenSize[c] + n <= kBufferSize
    BY <1>1, <1>2, <1>4 DEF GetFreeSize, TypeOK
<1> DEFINE cells == pos[b]..(pos[b] + n - 1)
           written == [mBuffer EXCEPT ![c] = [i \in Cells |-> IF i \in cells THEN b ELSE mBuffer[c][i]]]
<1>6. cells \subseteq Cells
    BY <1>1, <1>2, <1>4, <1>5 DEF Cells
<1>7. /\ written \in [Chunks -> [Cells -> Buffers \cup {NoBuffer}]]
      /\ \A i \in cells : written[c][i] = b
      /\ \A d \in Chunks, i \in Cells : ~(d = c /\ i \in cells) => written[d][i] = mBuffer[d][i]
    BY <1>1, <1>6 DEF TypeOK
<1>8. /\ mWrittenSize' = [mWrittenSize EXCEPT ![c] = @ + n]
      /\ IF k = 0 THEN Destroy(t, b, written)
         ELSE mBuffer' = written /\ size' = [size EXCEPT ![b] = n] /\ UNCHANGED <<owner, pos, dropped>>
  <2>1. pos[b] + HeaderSize + payload[t] - 1 = pos[b] + n - 1
      BY <1>1
  <2> QED BY <1>1, <1>4, <2>1 DEF Write, Advanced
<1> HIDE DEF written
<1>9. CASE k = 0
  <2>1. Destroy(t, b, written)
      BY <1>8, <1>9
  <2>2. Destroy(t, b, written) /\ Return(t, c, tSendChunk, owner')
      BY <1>1, <2>1 DEF Destroy
  <2>3. b \in Buffers
      BY <1>1
  <2>4. written \in [Chunks -> [Cells -> Buffers \cup {NoBuffer}]]
      BY <1>7
  <2> HIDE DEF cells
  <2>5. /\ owner' = [owner EXCEPT ![b] = NoChunk] /\ owner' \in [Buffers -> Chunks \cup {NoChunk}]
        /\ pos' \in [Buffers -> Nat] /\ size' \in [Buffers -> Nat]
        /\ \A o \in Buffers \ {b} : pos'[o] = pos[o] /\ size'[o] = size[o]
        /\ mBuffer' \in [Chunks -> [Cells -> Buffers \cup {NoBuffer}]]
        /\ \A d \in Chunks, i \in Cells, o \in Buffers \ {b} : written[d][i] = o => mBuffer'[d][i] = o
      BY <2>1, <2>3, <2>4, Destroyed
  <2>6. owner \in [Buffers -> Chunks \cup {NoChunk}]
      BY DEF TypeOK
  <2>7. \A o \in Buffers \ {b} : owner'[o] = owner[o]
      BY <2>5, <2>6
  <2>8. owner'[b] = NoChunk
      BY <1>1, <2>5, <2>6
  <2> QED BY <1>1, <1>4, <1>5, <1>6, <1>7, <1>8, <1>9, <2>2, <2>5, <2>7, <2>8 DEF cells
<1>10. CASE k # 0
  <2> HIDE DEF cells
  <2>1. /\ mBuffer' = written /\ size' = [size EXCEPT ![b] = n] /\ UNCHANGED <<owner, pos, dropped>>
      BY <1>8, <1>10
  <2>2. /\ owner' \in [Buffers -> Chunks \cup {NoChunk}] /\ pos' \in [Buffers -> Nat]
        /\ size' \in [Buffers -> Nat] /\ size'[b] = n
        /\ \A o \in Buffers \ {b} : size'[o] = size[o]
      BY <1>1, <1>4, <2>1 DEF TypeOK
  <2> QED BY <1>1, <1>4, <1>5, <1>6, <1>7, <1>8, <1>10, <2>1, <2>2 DEF cells
<1> QED BY <1>9, <1>10

-------------------------------------------------------------------------------
(* Types and makers                                                        *)

\* After a step that ends the process only the chosen sizes have changed.
LEMMA CrashedWrite ==
    ASSUME TypeOK, NEW t \in Threads, NEW k \in 0..MaxHolders, Write(t, k), status' # "running"
    PROVE  UNCHANGED <<poolVars, chunkVars, bufferVars, threadVars>> /\ status' \in {"crash", "undefined"}
BY DEF Write, At

\* What Alloc does when it does not fail.
LEMMA Allocated ==
    ASSUME NEW t \in Threads, Alloc(t), status' = "running"
    PROVE  /\ PacketSize(payload[t]) <= GetFreeSize(tSendChunk[t])
           /\ mIsWriting' = [mIsWriting EXCEPT ![tSendChunk[t]] = TRUE]
           /\ owner' = [owner EXCEPT ![mine[t]] = tSendChunk[t]]
           /\ pos' = [pos EXCEPT ![mine[t]] = mWrittenSize[tSendChunk[t]]]
           /\ pc[t] = "alloc" /\ pc' = [pc EXCEPT ![t] = "write"] /\ status = "running"
           /\ UNCHANGED <<poolVars, mWrittenSize, mBuffer, size, holders, mine, payload>>
BY DEF Alloc, At, Goto

LEMMA TypeInit == Init => TypeOK
<1>1. kBufferSize \in Nat
    BY DEF kBufferSize
<1> QED BY <1>1 DEF Init, TypeOK

LEMMA TypeNext == TypeOK /\ MakerInv /\ LayoutInv /\ [Next]_vars => TypeOK'
<1> SUFFICES ASSUME TypeOK, MakerInv, LayoutInv, [Next]_vars PROVE TypeOK'
    OBVIOUS
<1> USE DEF poolVars, chunkVars, bufferVars, threadVars, Goto
<1>0. kBufferSize \in Nat
    BY DEF kBufferSize
<1>1. ASSUME NEW t \in Threads, NEW b \in Buffers, NEW p \in PayloadSizes, MakeSendBuffer(t, b, p)
      PROVE  TypeOK'
    BY <1>1 DEF MakeSendBuffer, TypeOK
<1>2. ASSUME NEW t \in Threads, NEW c \in Chunks, Pop(t, c) PROVE TypeOK'
  <2>1. mSendChunks' \in Seq(Chunks)
    <3>1. mSendChunks \in Seq(Chunks) /\ Len(mSendChunks) \in Nat
        BY DEF TypeOK
    <3>2. mSendChunks # <<>> => Popped \in Seq(Chunks)
      <4> SUFFICES ASSUME mSendChunks # <<>> PROVE Popped \in Seq(Chunks)
          OBVIOUS
      <4>1. Len(mSendChunks) \in Nat \ {0}
          BY <3>1, EmptySeq
      <4> QED BY <3>1, <4>1, SubSeqProperties DEF Popped
    <3> QED BY <1>2, <3>1, <3>2 DEF Pop
  <2>2. dropped' \in [Threads -> Chunks \cup {NoChunk}]
      BY <1>2 DEF Pop, Return, Unreferenced, TypeOK
  <2>3. /\ tSendChunk' = [tSendChunk EXCEPT ![t] = c] /\ pc' = [pc EXCEPT ![t] = "alloc"]
        /\ mIsWriting' = [mIsWriting EXCEPT ![c] = FALSE] /\ mWrittenSize' = [mWrittenSize EXCEPT ![c] = 0]
        /\ known' = known \/ known' = known \cup {c}
        /\ UNCHANGED <<mBuffer, owner, pos, size, holders, mine, payload, status>>
      BY <1>2 DEF Pop
  <2> QED BY <1>0, <2>1, <2>2, <2>3 DEF TypeOK
<1>3. ASSUME NEW t \in Threads, Push(t) PROVE TypeOK'
  <2>1. Append(mSendChunks, dropped[t]) \in Seq(Chunks)
      BY <1>3 DEF Push, TypeOK
  <2> QED BY <1>3, <2>1 DEF Push, TypeOK
<1>4. ASSUME NEW t \in Threads, Alloc(t) PROVE TypeOK'
  <2>1. mine[t] \in Buffers /\ tSendChunk[t] \in Chunks /\ mWrittenSize[tSendChunk[t]] \in Nat
      BY <1>0, <1>4 DEF Alloc, At, TypeOK, MakerInv
  <2>2. CASE status' = "running"
    <3>1. /\ mIsWriting' = [mIsWriting EXCEPT ![tSendChunk[t]] = TRUE]
          /\ owner' = [owner EXCEPT ![mine[t]] = tSendChunk[t]]
          /\ pos' = [pos EXCEPT ![mine[t]] = mWrittenSize[tSendChunk[t]]]
          /\ pc' = [pc EXCEPT ![t] = "write"]
          /\ UNCHANGED <<poolVars, mWrittenSize, mBuffer, size, holders, mine, payload>>
        BY <1>4, <2>2, Allocated
    <3> QED BY <2>1, <2>2, <3>1 DEF TypeOK
  <2>3. CASE status' # "running"
    <3>1. /\ status' = "crash"
          /\ UNCHANGED <<mIsWriting, owner, pos, pc, poolVars, mWrittenSize, mBuffer, size, holders, mine, payload>>
        BY <1>4, <2>3 DEF Alloc, At
    <3> QED BY <3>1 DEF TypeOK
  <2> QED BY <2>2, <2>3
<1>5. ASSUME NEW t \in Threads, NEW k \in 0..MaxHolders, Write(t, k) PROVE TypeOK'
  <2>1. CASE status' = "running"
    <3> DEFINE b == mine[t]
               c == tSendChunk[t]
               n == HeaderSize + payload[t]
    <3>1. /\ b \in Buffers /\ c \in Chunks /\ n \in Nat /\ owner[b] = c
          /\ mWrittenSize[c] + n <= kBufferSize
          /\ mWrittenSize' = [mWrittenSize EXCEPT ![c] = @ + n]
          /\ owner' \in [Buffers -> Chunks \cup {NoChunk}]
          /\ pos' \in [Buffers -> Nat] /\ size' \in [Buffers -> Nat]
          /\ k # 0 => dropped' = dropped
          /\ k = 0 => Return(t, c, tSendChunk, owner')
          /\ mBuffer' \in [Chunks -> [Cells -> Buffers \cup {NoBuffer}]]
        BY <1>5, <2>1, Written
    <3> HIDE DEF n
    <3>2. mWrittenSize' \in [Chunks -> 0..kBufferSize]
        BY <1>0, <3>1 DEF TypeOK
    <3>3. dropped' \in [Threads -> Chunks \cup {NoChunk}]
        BY <3>1 DEF Return, TypeOK
    <3>4. /\ mIsWriting' = [mIsWriting EXCEPT ![owner[b]] = FALSE]
          /\ holders' = [holders EXCEPT ![b] = k]
          /\ mine' = [mine EXCEPT ![t] = NoBuffer] /\ payload' = [payload EXCEPT ![t] = 0]
          /\ pc' = [pc EXCEPT ![t] = "idle"]
          /\ UNCHANGED <<tSendChunk, mSendChunks, known>>
        BY <1>5, <2>1 DEF Write
    <3>5. /\ mIsWriting' \in [Chunks -> BOOLEAN] /\ holders' \in [Buffers -> Nat]
        BY <3>1, <3>4 DEF TypeOK
    <3>6. /\ mine' \in [Threads -> Buffers \cup {NoBuffer}] /\ payload' \in [Threads -> Nat]
          /\ pc' \in [Threads -> {"idle", "pop", "alloc", "write"}]
        BY <3>4 DEF TypeOK
    <3> HIDE DEF b, c
    <3> QED BY <2>1, <3>1, <3>2, <3>3, <3>4, <3>5, <3>6 DEF TypeOK
  <2>2. CASE status' # "running"
      BY <1>5, <2>2, CrashedWrite DEF TypeOK
  <2> QED BY <2>1, <2>2
<1>6. ASSUME NEW t \in Threads, NEW b \in Buffers, Drop(t, b) PROVE TypeOK'
  <2>1. holders' \in [Buffers -> Nat]
      BY <1>6 DEF Drop, TypeOK
  <2>2. CASE holders[b] = 1
    <3>1. Destroy(t, b, mBuffer)
        BY <1>6, <2>2 DEF Drop
    <3>2. dropped' \in [Threads -> Chunks \cup {NoChunk}]
        BY <3>1 DEF Destroy, Return, Unreferenced, TypeOK
    <3> QED BY <1>6, <2>1, <3>1, <3>2, Destroyed DEF Drop, TypeOK
  <2>3. CASE holders[b] # 1
      BY <1>6, <2>1, <2>3 DEF Drop, TypeOK
  <2> QED BY <2>2, <2>3
<1>7. ASSUME NEW t \in Threads, ThreadExit(t) PROVE TypeOK'
    BY <1>7 DEF ThreadExit, Return, Unreferenced, TypeOK
<1>8. CASE UNCHANGED vars
    BY <1>8 DEF vars, TypeOK
<1> QED BY <1>1, <1>2, <1>3, <1>4, <1>5, <1>6, <1>7, <1>8 DEF Next

LEMMA MakerInit == Init => MakerInv
BY DEF Init, MakerInv

LEMMA MakerNext == TypeOK /\ MakerInv /\ LayoutInv /\ [Next]_vars => MakerInv'
<1> SUFFICES ASSUME TypeOK, MakerInv, LayoutInv, [Next]_vars PROVE MakerInv'
    OBVIOUS
<1> USE DEF poolVars, chunkVars, bufferVars, threadVars, Goto, At
<1>1. ASSUME NEW t \in Threads, NEW b \in Buffers, NEW p \in PayloadSizes, MakeSendBuffer(t, b, p)
      PROVE  MakerInv'
    BY <1>1 DEF MakeSendBuffer, TypeOK, MakerInv
<1>2. ASSUME NEW t \in Threads, NEW c \in Chunks, Pop(t, c) PROVE MakerInv'
    BY <1>2 DEF Pop, TypeOK, MakerInv
<1>3. ASSUME NEW t \in Threads, Push(t) PROVE MakerInv'
    BY <1>3 DEF Push, MakerInv
<1>4. ASSUME NEW t \in Threads, Alloc(t) PROVE MakerInv'
  <2>1. CASE status' = "running"
    <3>1. mine[t] \in Buffers /\ tSendChunk[t] \in Chunks
        BY <2>1, <1>4 DEF Alloc, TypeOK, MakerInv
    <3>2. /\ owner' = [owner EXCEPT ![mine[t]] = tSendChunk[t]]
          /\ pc[t] = "alloc" /\ pc' = [pc EXCEPT ![t] = "write"]
          /\ UNCHANGED <<tSendChunk, holders, mine>>
        BY <1>4, <2>1, Allocated
    <3> QED BY <3>1, <3>2 DEF TypeOK, MakerInv
  <2>2. CASE status' # "running"
      BY <1>4, <2>2 DEF Alloc, MakerInv
  <2> QED BY <2>1, <2>2
<1>5. ASSUME NEW t \in Threads, NEW k \in 0..MaxHolders, Write(t, k) PROVE MakerInv'
  <2>1. CASE status' = "running"
    <3>1. /\ mine[t] \in Buffers /\ tSendChunk[t] \in Chunks /\ owner[mine[t]] = tSendChunk[t]
          /\ \A o \in Buffers \ {mine[t]} : owner'[o] = owner[o]
          /\ owner'[mine[t]] = IF k = 0 THEN NoChunk ELSE tSendChunk[t]
        BY <1>5, <2>1, Written
    <3>2. /\ holders' = [holders EXCEPT ![mine[t]] = k] /\ pc[t] = "write"
          /\ mine' = [mine EXCEPT ![t] = NoBuffer] /\ pc' = [pc EXCEPT ![t] = "idle"]
          /\ UNCHANGED tSendChunk
        BY <1>5, <2>1 DEF Write
    <3>3. /\ \A u \in Threads \ {t} : /\ mine'[u] = mine[u] /\ pc'[u] = pc[u]
                                      /\ mine[u] # NoBuffer => mine[u] \in Buffers \ {mine[t]}
          /\ mine'[t] = NoBuffer /\ pc'[t] = "idle"
        BY <3>1, <3>2 DEF TypeOK, MakerInv
    <3>4. /\ \A o \in Buffers \ {mine[t]} : holders'[o] = holders[o]
          /\ holders'[mine[t]] = k
        BY <3>1, <3>2 DEF TypeOK
    <3>5. \A b \in Buffers : holders'[b] > 0 => owner'[b] # NoChunk
        BY <3>1, <3>4 DEF MakerInv
    <3>6. \A u \in Threads \ {t} : mine[u] # NoBuffer =>
              owner'[mine[u]] = owner[mine[u]] /\ holders'[mine[u]] = holders[mine[u]]
        BY <3>1, <3>3, <3>4
    <3>7. \A u, v \in Threads : mine'[u] = mine'[v] /\ u # v => mine'[u] = NoBuffer
        BY <3>3 DEF MakerInv
    <3>8. \A u \in Threads :
              /\ pc'[u] = "idle" <=> mine'[u] = NoBuffer
              /\ pc'[u] \in {"pop", "alloc"} => owner'[mine'[u]] = NoChunk
              /\ pc'[u] \in {"alloc", "write"} => tSendChunk'[u] # NoChunk
              /\ pc'[u] = "write" => owner'[mine'[u]] = tSendChunk'[u]
              /\ mine'[u] # NoBuffer => holders'[mine'[u]] = 0
      <4> SUFFICES ASSUME NEW u \in Threads, u # t
                   PROVE  /\ pc[u] = "idle" <=> mine[u] = NoBuffer
                          /\ pc[u] \in {"pop", "alloc"} => owner'[mine[u]] = NoChunk
                          /\ pc[u] \in {"alloc", "write"} => tSendChunk[u] # NoChunk
                          /\ pc[u] = "write" => owner'[mine[u]] = tSendChunk[u]
                          /\ mine[u] # NoBuffer => holders'[mine[u]] = 0
          BY <3>2, <3>3
      <4>1. pc[u] # "idle" => mine[u] # NoBuffer
          BY DEF MakerInv
      <4> QED BY <3>6, <4>1 DEF MakerInv
    <3> QED BY <3>5, <3>7, <3>8 DEF MakerInv
  <2>2. CASE status' # "running"
      BY <1>5, <2>2, CrashedWrite DEF MakerInv
  <2> QED BY <2>1, <2>2
<1>6. ASSUME NEW t \in Threads, NEW b \in Buffers, Drop(t, b) PROVE MakerInv'
  <2>1. /\ holders' = [holders EXCEPT ![b] = @ - 1] /\ holders[b] > 0
        /\ UNCHANGED <<mine, pc, tSendChunk>>
        /\ owner' = IF holders[b] = 1 THEN [owner EXCEPT ![b] = NoChunk] ELSE owner
      BY <1>6 DEF Drop, Destroy
  <2> QED BY <2>1 DEF TypeOK, MakerInv
<1>7. ASSUME NEW t \in Threads, ThreadExit(t) PROVE MakerInv'
    BY <1>7 DEF ThreadExit, TypeOK, MakerInv
<1>8. CASE UNCHANGED vars
    BY <1>8 DEF vars, MakerInv
<1> QED BY <1>1, <1>2, <1>3, <1>4, <1>5, <1>6, <1>7, <1>8 DEF Next

-------------------------------------------------------------------------------
(* Places                                                                  *)

LEMMA PlaceInit == Init => PlaceInv
BY DEF Init, PlaceInv, Placed, Pooled, Returning, Used

\* Nothing that PlaceInv is about changes.
LEMMA PlaceKept ==
    ASSUME PlaceInv, UNCHANGED <<mSendChunks, known, dropped, tSendChunk>>,
           \A c \in Chunks : Used(c)' <=> Used(c)
    PROVE  PlaceInv'
<1>1. \A c \in Chunks : (Pooled(c)' <=> Pooled(c)) /\ (Returning(c)' <=> Returning(c))
    BY DEF Pooled, Returning
<1>2. \A c \in Chunks : Placed(c)'
    BY <1>1 DEF PlaceInv, Placed
<1> QED BY <1>2 DEF PlaceInv

\* A thread gives up a reference to c, the last one perhaps.
LEMMA Release ==
    ASSUME TypeOK, PlaceInv, NEW t \in Threads, dropped[t] = NoChunk, NEW c \in Chunks, Used(c),
           UNCHANGED <<mSendChunks, known>>, Return(t, c, tSendChunk', owner'),
           \A d \in Chunks \ {c} : Used(d)' <=> Used(d),
           \A u, v \in Threads : tSendChunk'[u] = tSendChunk'[v] /\ u # v => tSendChunk'[u] = NoChunk
    PROVE  PlaceInv'
<1>1. Unreferenced(c, tSendChunk', owner') <=> ~Used(c)'
    BY DEF Unreferenced, Used
<1>2. /\ \A u \in Threads \ {t} : dropped'[u] = dropped[u]
      /\ dropped'[t] = IF Used(c)' THEN NoChunk ELSE c
    BY <1>1 DEF Return, TypeOK
<1>3. \A u \in Threads : dropped[u] # c
    BY DEF PlaceInv, Placed, Returning
<1>4. \A d \in Chunks \ {c} : Returning(d)' <=> Returning(d)
    BY <1>2 DEF Returning
<1>5. Returning(c)' <=> ~Used(c)'
    BY <1>2, <1>3 DEF Returning
<1>6. \A d \in Chunks : Pooled(d)' <=> Pooled(d)
    BY DEF Pooled
<1>7. \A d \in Chunks \ {c} : Placed(d)'
    BY <1>4, <1>6 DEF PlaceInv, Placed
<1>8. Placed(c)'
    BY <1>5, <1>6 DEF PlaceInv, Placed
<1>9. \A u, v \in Threads : dropped'[u] = dropped'[v] /\ u # v => dropped'[u] = NoChunk
    BY <1>2, <1>3 DEF PlaceInv
<1> QED BY <1>7, <1>8, <1>9 DEF PlaceInv

LEMMA PlacePop ==
    ASSUME TypeOK, PlaceInv, NEW t \in Threads, NEW c \in Chunks, Pop(t, c) PROVE PlaceInv'
<1>0. PICK old \in Chunks \cup {NoChunk} : old = tSendChunk[t]
    BY DEF TypeOK
<1>1. mSendChunks \in Seq(Chunks) /\ Len(mSendChunks) \in Nat
    BY DEF TypeOK
\* The pool afterwards, and c: either the last chunk of the pool or a new one.
<1>2. /\ \A i, j \in 1..Len(mSendChunks') : mSendChunks'[i] = mSendChunks'[j] => i = j
      /\ \A d \in Chunks : Pooled(d)' <=> Pooled(d) /\ d # c
      /\ known' = known \cup {c} /\ ~Used(c) /\ ~Returning(c)
  <2>1. CASE mSendChunks # <<>>
    <3> DEFINE last == Len(mSendChunks)
    <3>1. last \in Nat \ {0} /\ c = mSendChunks[last] /\ mSendChunks' = Popped /\ known' = known
        BY <1>1, <2>1, EmptySeq DEF Pop
    <3>2. last - 1 \in Int /\ 1 \in Int /\ \A i \in 1..(last - 1) : mSendChunks[i] \in Chunks
        BY <1>1, <3>1
    <3>3. /\ Len(mSendChunks') = last - 1
          /\ \A i \in 1..(last - 1) : mSendChunks'[i] = mSendChunks[i]
      <4>1. /\ Len(Popped) = IF 1 <= last - 1 THEN last - 1 - 1 + 1 ELSE 0
            /\ \A i \in 1..(last - 1 - 1 + 1) : Popped[i] = mSendChunks[1 + i - 1]
          BY <3>2, SubSeqProperties DEF Popped
      <4>2. /\ last - 1 = IF 1 <= last - 1 THEN last - 1 - 1 + 1 ELSE 0
            /\ 1..(last - 1 - 1 + 1) = 1..(last - 1)
            /\ \A i \in 1..(last - 1) : 1 + i - 1 = i
          BY <3>1
      <4> QED BY <3>1, <4>1, <4>2
    <3>4. Pooled(c)
        BY <3>1 DEF Pooled
    <3>5. c \in known /\ ~Used(c) /\ ~Returning(c)
        BY <3>4 DEF PlaceInv, Placed
    <3>6. \A i \in 1..(last - 1) : i \in 1..last /\ i # last
        BY <3>1
    <3>7. \A i \in 1..last : i = last \/ i \in 1..(last - 1)
        BY <3>1
    <3>8. ASSUME NEW d \in Chunks PROVE Pooled(d)' <=> Pooled(d) /\ d # c
      <4>1. ASSUME Pooled(d)' PROVE Pooled(d) /\ d # c
        <5>1. PICK i \in 1..(last - 1) : mSendChunks[i] = d
            BY <3>3, <4>1 DEF Pooled
        <5>2. i \in 1..last /\ i # last /\ last \in 1..last
            BY <3>1, <3>6
        <5> QED BY <3>1, <5>1, <5>2 DEF PlaceInv, Pooled
      <4>2. ASSUME Pooled(d), d # c PROVE Pooled(d)'
        <5>1. PICK i \in 1..last : mSendChunks[i] = d
            BY <4>2 DEF Pooled
        <5>2. i \in 1..(last - 1)
            BY <3>1, <3>7, <4>2, <5>1
        <5> QED BY <3>3, <5>1, <5>2 DEF Pooled
      <4> QED BY <4>1, <4>2
    <3>9. \A i, j \in 1..Len(mSendChunks') : mSendChunks'[i] = mSendChunks'[j] => i = j
        BY <3>3, <3>6 DEF PlaceInv
    <3> QED BY <3>1, <3>5, <3>8, <3>9
  <2>2. CASE mSendChunks = <<>>
    <3>1. c \notin known /\ known' = known \cup {c} /\ mSendChunks' = mSendChunks
        BY <2>2 DEF Pop
    <3>2. ~Pooled(c) /\ ~Used(c) /\ ~Returning(c)
        BY <3>1 DEF PlaceInv, Placed
    <3>3. \A d \in Chunks : Pooled(d)' <=> Pooled(d)
        BY <3>1 DEF Pooled
    <3> QED BY <3>1, <3>2, <3>3 DEF PlaceInv
  <2> QED BY <2>1, <2>2
\* The references: c is held by t now, and old no longer.
<1>3. /\ tSendChunk' = [tSendChunk EXCEPT ![t] = c] /\ owner' = owner
      /\ Return(t, old, tSendChunk', owner) /\ dropped[t] = NoChunk
    BY <1>0 DEF Pop, At, bufferVars
<1>4. c # NoChunk /\ c # old /\ \A u \in Threads : tSendChunk[u] # c
    BY <1>0, <1>2 DEF Used
<1>5. /\ \A u \in Threads \ {t} : tSendChunk'[u] = tSendChunk[u]
      /\ tSendChunk'[t] = c
    BY <1>3 DEF TypeOK
<1>6. Used(c)' /\ \A d \in Chunks \ {c, old} : Used(d)' <=> Used(d)
    BY <1>0, <1>3, <1>5 DEF Used
<1>7. \A u, v \in Threads : tSendChunk'[u] = tSendChunk'[v] /\ u # v => tSendChunk'[u] = NoChunk
    BY <1>4, <1>5 DEF PlaceInv
<1>8. CASE old = NoChunk
  <2>1. dropped' = dropped
      BY <1>3, <1>8 DEF Return, Unreferenced, TypeOK
  <2>2. \A d \in Chunks : Returning(d)' <=> Returning(d)
      BY <2>1 DEF Returning
  <2>3. \A d \in Chunks : Placed(d)'
      BY <1>2, <1>6, <1>8, <2>2 DEF PlaceInv, Placed
  <2> QED BY <1>2, <1>7, <2>1, <2>3 DEF PlaceInv
<1>9. CASE old # NoChunk
  <2>0. old \in Chunks /\ Used(old)
      BY <1>0, <1>9 DEF Used
  <2>1. ~Pooled(old) /\ ~Returning(old) /\ old \in known
      BY <2>0 DEF PlaceInv, Placed
  <2>2. /\ \A u \in Threads \ {t} : dropped'[u] = dropped[u]
        /\ dropped'[t] = IF Used(old)' THEN NoChunk ELSE old
      BY <1>3, <1>9 DEF Return, Unreferenced, Used, TypeOK
  <2>3. \A u \in Threads : dropped[u] # old
      BY <2>1 DEF Returning
  <2>4. \A d \in Chunks \ {old} : Returning(d)' <=> Returning(d)
      BY <1>3, <2>2 DEF Returning
  <2>5. Returning(old)' <=> ~Used(old)'
      BY <1>9, <2>2, <2>3 DEF Returning
  <2>6. \A d \in Chunks \ {old, c} : Placed(d)'
      BY <1>2, <1>6, <2>4 DEF PlaceInv, Placed
  <2>7. Placed(old)' /\ Placed(c)'
      BY <1>2, <1>4, <1>6, <2>0, <2>1, <2>4, <2>5 DEF Placed
  <2>8. \A u, v \in Threads : dropped'[u] = dropped'[v] /\ u # v => dropped'[u] = NoChunk
      BY <2>2, <2>3 DEF PlaceInv
  <2> QED BY <1>2, <1>7, <2>6, <2>7, <2>8 DEF PlaceInv
<1> QED BY <1>8, <1>9

\* The chunk that Pop takes is referred to by nobody.
LEMMA NotUsed ==
    ASSUME TypeOK, PlaceInv, NEW t \in Threads, NEW c \in Chunks, Pop(t, c) PROVE ~Used(c)
<1>1. CASE mSendChunks # <<>>
  <2>1. Len(mSendChunks) \in Nat \ {0} /\ c = mSendChunks[Len(mSendChunks)]
      BY <1>1, EmptySeq DEF Pop, TypeOK
  <2>2. Pooled(c)
      BY <2>1 DEF Pooled
  <2> QED BY <2>2 DEF PlaceInv, Placed
<1>2. CASE mSendChunks = <<>>
    BY <1>2 DEF Pop, PlaceInv, Placed
<1> QED BY <1>1, <1>2

LEMMA PlaceNext == TypeOK /\ MakerInv /\ LayoutInv /\ PlaceInv /\ [Next]_vars => PlaceInv'
<1> SUFFICES ASSUME TypeOK, MakerInv, LayoutInv, PlaceInv, [Next]_vars PROVE PlaceInv'
    OBVIOUS
<1> USE DEF poolVars, chunkVars, bufferVars, threadVars
<1>1. CASE UNCHANGED <<poolVars, owner>>
  <2>1. \A c \in Chunks : Used(c)' <=> Used(c)
      BY <1>1 DEF Used
  <2> QED BY <1>1, <2>1, PlaceKept
<1>2. ASSUME NEW t \in Threads, Push(t) PROVE PlaceInv'
  <2>1. mSendChunks \in Seq(Chunks) /\ dropped[t] \in Chunks
      BY <1>2 DEF Push, TypeOK
  <2>2. PICK c \in Chunks : c = dropped[t]
      BY <2>1
  <2>3. /\ mSendChunks' = Append(mSendChunks, c) /\ dropped' = [dropped EXCEPT ![t] = NoChunk]
        /\ UNCHANGED <<tSendChunk, known, owner>>
      BY <1>2, <2>2 DEF Push
  <2>4. /\ Len(mSendChunks) \in Nat /\ Len(mSendChunks') = Len(mSendChunks) + 1
        /\ \A i \in 1..Len(mSendChunks) : mSendChunks'[i] = mSendChunks[i]
        /\ mSendChunks'[Len(mSendChunks) + 1] = c
      BY <2>1, <2>3, AppendProperties
  <2>5. \A i \in 1..Len(mSendChunks') : i \in 1..Len(mSendChunks) \/ i = Len(mSendChunks) + 1
      BY <2>4
  <2>6. Returning(c) /\ ~Pooled(c) /\ ~Used(c) /\ c \in known
      BY <2>2 DEF PlaceInv, Placed, Returning
  <2>7. \A i, j \in 1..Len(mSendChunks') : mSendChunks'[i] = mSendChunks'[j] => i = j
      BY <2>4, <2>5, <2>6 DEF PlaceInv, Pooled
  <2>8. \A d \in Chunks : Pooled(d)' <=> Pooled(d) \/ d = c
    <3>1. ASSUME NEW d \in Chunks, Pooled(d)' PROVE Pooled(d) \/ d = c
        BY <2>4, <2>5, <3>1 DEF Pooled
    <3>2. ASSUME NEW d \in Chunks, Pooled(d) PROVE Pooled(d)'
      <4>1. PICK i \in 1..Len(mSendChunks) : mSendChunks[i] = d
          BY <3>2 DEF Pooled
      <4>2. i \in 1..Len(mSendChunks') /\ mSendChunks'[i] = d
          BY <2>4, <4>1
      <4> QED BY <4>2 DEF Pooled
    <3>3. Pooled(c)'
      <4>1. Len(mSendChunks) + 1 \in 1..Len(mSendChunks')
          BY <2>4
      <4> QED BY <2>4, <4>1 DEF Pooled
    <3> QED BY <3>1, <3>2, <3>3
  <2>9. /\ dropped'[t] = NoChunk /\ \A u \in Threads \ {t} : dropped'[u] = dropped[u]
        /\ \A u \in Threads \ {t} : dropped[u] # c
      BY <2>2, <2>3 DEF TypeOK, PlaceInv
  <2>10. \A d \in Chunks : Returning(d)' <=> Returning(d) /\ d # c
      BY <2>2, <2>9 DEF Returning
  <2>11. \A d \in Chunks : Used(d)' <=> Used(d)
      BY <2>3 DEF Used
  <2>12. \A d \in Chunks : Placed(d)'
      BY <2>3, <2>6, <2>8, <2>10, <2>11 DEF PlaceInv, Placed
  <2>13. \A u, v \in Threads : dropped'[u] = dropped'[v] /\ u # v => dropped'[u] = NoChunk
      BY <2>9 DEF PlaceInv
  <2> QED BY <2>3, <2>7, <2>12, <2>13 DEF PlaceInv
<1>3. ASSUME NEW t \in Threads, Alloc(t) PROVE PlaceInv'
  <2>1. CASE status' = "running"
    <3>1. /\ owner' = [owner EXCEPT ![mine[t]] = tSendChunk[t]] /\ UNCHANGED poolVars
          /\ mine[t] \in Buffers /\ owner[mine[t]] = NoChunk
        BY <1>3, <2>1, Allocated DEF TypeOK, MakerInv
    <3>2. \A c \in Chunks : Used(c)' <=> Used(c)
        BY <3>1 DEF Used, TypeOK
    <3> QED BY <3>1, <3>2, PlaceKept
  <2>2. CASE status' # "running"
      BY <1>1, <1>3, <2>2 DEF Alloc, At
  <2> QED BY <2>1, <2>2
<1>4. ASSUME NEW t \in Threads, NEW k \in 0..MaxHolders, Write(t, k) PROVE PlaceInv'
  <2>1. CASE status' = "running"
    <3>1. PICK c \in Chunks : c = tSendChunk[t]
        BY <1>4, <2>1, Written
    <3>2. PICK b \in Buffers : b = mine[t]
        BY <1>4, <2>1, Written
    <3>3. /\ \A o \in Buffers \ {b} : owner'[o] = owner[o]
          /\ owner'[b] = IF k = 0 THEN NoChunk ELSE c
          /\ owner[b] = c
          /\ k # 0 => dropped' = dropped
          /\ k = 0 => Return(t, c, tSendChunk, owner')
        BY <1>4, <2>1, <3>1, <3>2, Written
    <3>4. UNCHANGED <<tSendChunk, mSendChunks, known>> /\ dropped[t] = NoChunk
        BY <1>4, <2>1 DEF Write, At
    <3>5. dropped' = dropped
        BY <3>1, <3>3, <3>4 DEF Return, Unreferenced, TypeOK
    <3>6. \A d \in Chunks : Used(d)' <=> Used(d)
        BY <3>1, <3>3, <3>4 DEF Used
    <3> QED BY <3>4, <3>5, <3>6, PlaceKept
  <2>2. CASE status' # "running"
      BY <1>1, <1>4, <2>2, CrashedWrite
  <2> QED BY <2>1, <2>2
<1>5. ASSUME NEW t \in Threads, NEW b \in Buffers, Drop(t, b) PROVE PlaceInv'
  <2>1. CASE holders[b] = 1
    <3>1. Destroy(t, b, mBuffer) /\ dropped[t] = NoChunk /\ UNCHANGED <<tSendChunk, mSendChunks, known>>
        BY <1>5, <2>1 DEF Drop, At
    <3>2. PICK c \in Chunks : c = owner[b]
        BY <2>1 DEF TypeOK, MakerInv
    <3>3. owner' = [owner EXCEPT ![b] = NoChunk] /\ Return(t, c, tSendChunk', owner') /\ Used(c)
        BY <3>1, <3>2 DEF Destroy, Used
    <3>4. \A d \in Chunks \ {c} : Used(d)' <=> Used(d)
        BY <3>1, <3>2, <3>3 DEF Used, TypeOK
    <3>5. \A u, v \in Threads : tSendChunk'[u] = tSendChunk'[v] /\ u # v => tSendChunk'[u] = NoChunk
        BY <3>1 DEF PlaceInv
    <3> QED BY <3>1, <3>3, <3>4, <3>5, Release
  <2>2. CASE holders[b] # 1
      BY <1>1, <1>5, <2>2 DEF Drop
  <2> QED BY <2>1, <2>2
<1>6. ASSUME NEW t \in Threads, ThreadExit(t) PROVE PlaceInv'
  <2>1. PICK c \in Chunks : c = tSendChunk[t]
      BY <1>6 DEF ThreadExit, TypeOK
  <2>2. /\ tSendChunk' = [tSendChunk EXCEPT ![t] = NoChunk] /\ Return(t, c, tSendChunk', owner')
        /\ UNCHANGED <<mSendChunks, known, owner>> /\ dropped[t] = NoChunk /\ Used(c)
      BY <1>6, <2>1 DEF ThreadExit, At, Used
  <2>3. \A d \in Chunks \ {c} : Used(d)' <=> Used(d)
      BY <2>1, <2>2 DEF Used, TypeOK
  <2>4. \A u, v \in Threads : tSendChunk'[u] = tSendChunk'[v] /\ u # v => tSendChunk'[u] = NoChunk
      BY <2>2 DEF PlaceInv, TypeOK
  <2> QED BY <2>2, <2>3, <2>4, Release
<1>7. ASSUME NEW t \in Threads, NEW b \in Buffers, NEW p \in PayloadSizes, MakeSendBuffer(t, b, p)
      PROVE  UNCHANGED <<poolVars, owner>>
    BY <1>7 DEF MakeSendBuffer
<1> QED BY <1>1, <1>2, <1>3, <1>4, <1>5, <1>6, <1>7, PlacePop DEF Next, vars

-------------------------------------------------------------------------------
(* Bytes                                                                   *)

LEMMA LayoutInit == Init => LayoutInv
BY DEF Init, LayoutInv, WriteInv

\* Chunks that are written and what their threads are about to write.
LEMMA WriteNext ==
    TypeOK /\ MakerInv /\ PlaceInv /\ LayoutInv /\ status = "running" /\ status' = "running"
        /\ [Next]_vars => WriteInv'
<1> SUFFICES ASSUME TypeOK, MakerInv, PlaceInv, LayoutInv, status = "running", status' = "running", [Next]_vars
             PROVE  WriteInv'
    OBVIOUS
<1>0. WriteInv
    BY DEF LayoutInv
<1> USE DEF poolVars, chunkVars, bufferVars, threadVars, Goto, At
<1>1. CASE UNCHANGED <<tSendChunk, mIsWriting, mWrittenSize, pos, pc, mine, payload>>
    BY <1>0, <1>1 DEF WriteInv, GetFreeSize
<1>2. ASSUME NEW t \in Threads, NEW b \in Buffers, NEW p \in PayloadSizes, MakeSendBuffer(t, b, p)
      PROVE  WriteInv'
  <2>1. /\ UNCHANGED <<tSendChunk, mIsWriting, mWrittenSize, pos>> /\ pc[t] = "idle" /\ p \in Nat
        /\ pc' = [pc EXCEPT ![t] = IF tSendChunk[t] = NoChunk \/ TooSmall(tSendChunk[t], PacketSize(p))
                                   THEN "pop" ELSE "alloc"]
        /\ mine' = [mine EXCEPT ![t] = b] /\ payload' = [payload EXCEPT ![t] = p]
      BY <1>2 DEF MakeSendBuffer
  <2>2. pc'[t] = "alloc" => /\ PacketSize(p) <= GetFreeSize(tSendChunk[t]) /\ payload'[t] = p
    <3> SUFFICES ASSUME pc'[t] = "alloc" PROVE PacketSize(p) <= GetFreeSize(tSendChunk[t])
        BY <2>1 DEF TypeOK
    <3>1. tSendChunk[t] \in Chunks /\ ~TooSmall(tSendChunk[t], PacketSize(p))
        BY <2>1 DEF TypeOK
    <3>2. PacketSize(p) \in Int /\ kBufferSize \in Nat /\ mWrittenSize[tSendChunk[t]] \in 0..kBufferSize
        BY <2>1, <3>1, Sizes DEF TypeOK
    <3> QED BY <3>1, <3>2 DEF TooSmall, GetFreeSize
  <2>3. /\ pc'[t] \in {"pop", "alloc"}
        /\ \A u \in Threads \ {t} : pc'[u] = pc[u] /\ mine'[u] = mine[u] /\ payload'[u] = payload[u]
      BY <2>1 DEF TypeOK
  <2>4. \A c \in Chunks : mIsWriting'[c] <=> \E u \in Threads : pc'[u] = "write" /\ tSendChunk'[u] = c
      BY <1>0, <2>1, <2>3 DEF WriteInv
  <2>5. ASSUME NEW u \in Threads, pc'[u] \in {"alloc", "write"}
        PROVE  /\ PacketSize(payload'[u]) <= kBufferSize - mWrittenSize[tSendChunk[u]]
               /\ pc'[u] = "write" => pos[mine'[u]] = mWrittenSize[tSendChunk[u]]
    <3>1. CASE u = t
        BY <2>2, <2>3, <2>5, <3>1 DEF GetFreeSize
    <3>2. CASE u # t
        BY <1>0, <2>3, <2>5, <3>2 DEF WriteInv, GetFreeSize
    <3> QED BY <3>1, <3>2
  <2> QED BY <2>1, <2>4, <2>5 DEF WriteInv, PacketSize, Int16, GetFreeSize
<1>3. ASSUME NEW t \in Threads, NEW c \in Chunks, Pop(t, c) PROVE WriteInv'
  <2>1. /\ tSendChunk' = [tSendChunk EXCEPT ![t] = c] /\ pc[t] = "pop" /\ pc' = [pc EXCEPT ![t] = "alloc"]
        /\ mIsWriting' = [mIsWriting EXCEPT ![c] = FALSE] /\ mWrittenSize' = [mWrittenSize EXCEPT ![c] = 0]
        /\ UNCHANGED <<pos, mine, payload>>
      BY <1>3 DEF Pop
  <2>2. ~Used(c)
      BY <1>3, NotUsed
  <2>3. \A u \in Threads \ {t} : /\ tSendChunk[u] # c /\ tSendChunk'[u] = tSendChunk[u] /\ pc'[u] = pc[u]
                                 /\ tSendChunk[u] \in Chunks => mWrittenSize'[tSendChunk[u]] = mWrittenSize[tSendChunk[u]]
      BY <2>1, <2>2 DEF TypeOK, Used
  <2>4. \A d \in Chunks : mIsWriting'[d] <=> \E u \in Threads : pc'[u] = "write" /\ tSendChunk'[u] = d
    <3>1. \A u \in Threads : pc'[u] = "write" <=> pc[u] = "write" /\ u # t
        BY <2>1 DEF TypeOK
    <3>2. \A d \in Chunks : mIsWriting'[d] = IF d = c THEN FALSE ELSE mIsWriting[d]
        BY <2>1 DEF TypeOK
    <3>3. ASSUME NEW d \in Chunks, d # c PROVE mIsWriting'[d] <=> \E u \in Threads : pc'[u] = "write" /\ tSendChunk'[u] = d
        BY <1>0, <2>1, <2>3, <3>1, <3>2, <3>3 DEF WriteInv
    <3>4. ~mIsWriting'[c] /\ ~\E u \in Threads : pc'[u] = "write" /\ tSendChunk'[u] = c
        BY <2>3, <3>1, <3>2
    <3> QED BY <3>3, <3>4
  <2>5. ASSUME NEW u \in Threads, pc'[u] \in {"alloc", "write"}
        PROVE  /\ PacketSize(payload[u]) <= kBufferSize - mWrittenSize'[tSendChunk'[u]]
               /\ pc'[u] = "write" => pos[mine[u]] = mWrittenSize'[tSendChunk'[u]]
    <3>1. CASE u = t
      <4>1. mWrittenSize'[tSendChunk'[u]] = 0 /\ pc'[u] = "alloc" /\ payload[u] \in Nat
          BY <2>1, <3>1 DEF TypeOK
      <4> QED BY <4>1, Sizes
    <3>2. CASE u # t
      <4>1. tSendChunk[u] \in Chunks
          BY <2>3, <2>5, <3>2 DEF MakerInv, TypeOK
      <4> QED BY <1>0, <2>3, <2>5, <3>2, <4>1 DEF WriteInv, GetFreeSize
    <3> QED BY <3>1, <3>2
  <2> QED BY <2>1, <2>4, <2>5 DEF WriteInv, GetFreeSize, PacketSize, Int16
<1>4. ASSUME NEW t \in Threads, Alloc(t) PROVE WriteInv'
  <2>1. PICK c \in Chunks : c = tSendChunk[t]
      BY <1>4 DEF Alloc, TypeOK, MakerInv
  <2>2. PICK b \in Buffers : b = mine[t]
      BY <1>4 DEF Alloc, TypeOK, MakerInv
  <2>3. /\ PacketSize(payload[t]) <= GetFreeSize(c)
        /\ mIsWriting' = [mIsWriting EXCEPT ![c] = TRUE] /\ pos' = [pos EXCEPT ![b] = mWrittenSize[c]]
        /\ pc[t] = "alloc" /\ pc' = [pc EXCEPT ![t] = "write"]
        /\ UNCHANGED <<tSendChunk, mWrittenSize, mine, payload>>
      BY <1>4, <2>1, <2>2, Allocated
  <2>4. \A d \in Chunks : mIsWriting'[d] <=> \E u \in Threads : pc'[u] = "write" /\ tSendChunk'[u] = d
    <3>1. \A u \in Threads : pc'[u] = "write" <=> pc[u] = "write" \/ u = t
        BY <2>3 DEF TypeOK
    <3>2. \A d \in Chunks : mIsWriting'[d] = IF d = c THEN TRUE ELSE mIsWriting[d]
        BY <2>3 DEF TypeOK
    <3>3. ASSUME NEW d \in Chunks, d # c
          PROVE  mIsWriting'[d] <=> \E u \in Threads : pc'[u] = "write" /\ tSendChunk'[u] = d
      <4>1. tSendChunk[t] # d /\ tSendChunk' = tSendChunk
          BY <2>1, <2>3, <3>3
      <4>2. mIsWriting'[d] <=> \E u \in Threads : pc[u] = "write" /\ tSendChunk[u] = d
          BY <1>0, <3>2, <3>3 DEF WriteInv
      <4> QED BY <3>1, <4>1, <4>2
    <3>4. mIsWriting'[c] /\ pc'[t] = "write" /\ tSendChunk'[t] = c
        BY <2>1, <2>3, <3>1, <3>2
    <3> QED BY <3>3, <3>4
  <2>5. ASSUME NEW u \in Threads
        PROVE  /\ pc'[u] \in {"alloc", "write"} => PacketSize(payload[u]) <= GetFreeSize(tSendChunk[u])
               /\ pc'[u] = "write" => pos'[mine[u]] = mWrittenSize[tSendChunk[u]]
    <3>1. CASE u = t
        BY <2>1, <2>2, <2>3, <3>1 DEF TypeOK
    <3>2. CASE u # t
      <4>1. pc'[u] = pc[u]
          BY <2>3, <3>2 DEF TypeOK
      <4>2. pc[u] = "write" => mine[u] \in Buffers /\ mine[u] # b
          BY <2>2, <2>3, <3>2 DEF TypeOK, MakerInv
      <4> QED BY <1>0, <2>3, <4>1, <4>2 DEF WriteInv, TypeOK
    <3> QED BY <3>1, <3>2
  <2> QED BY <2>3, <2>4, <2>5 DEF WriteInv, GetFreeSize, PacketSize, Int16
<1>5. ASSUME NEW t \in Threads, NEW k \in 0..MaxHolders, Write(t, k) PROVE WriteInv'
  <2>1. PICK c \in Chunks : c = tSendChunk[t]
      BY <1>5, Written
  <2>2. PICK b \in Buffers : b = mine[t]
      BY <1>5, Written
  <2>3. /\ \A o \in Buffers \ {b} : pos'[o] = pos[o]
        /\ mWrittenSize' = [mWrittenSize EXCEPT ![c] = @ + (HeaderSize + payload[t])]
        /\ owner[b] = c
      BY <1>5, <2>1, <2>2, Written
  <2>4. /\ mIsWriting' = [mIsWriting EXCEPT ![c] = FALSE] /\ pc[t] = "write" /\ pc' = [pc EXCEPT ![t] = "idle"]
        /\ mine' = [mine EXCEPT ![t] = NoBuffer] /\ payload' = [payload EXCEPT ![t] = 0] /\ UNCHANGED tSendChunk
      BY <1>5, <2>2, <2>3 DEF Write
  <2>5. \A u \in Threads \ {t} : tSendChunk[u] # c
      BY <2>1 DEF PlaceInv
  <2>6. /\ \A u \in Threads \ {t} : pc'[u] = pc[u] /\ mine'[u] = mine[u] /\ payload'[u] = payload[u]
        /\ pc'[t] = "idle"
      BY <2>4 DEF TypeOK
  <2>7. \A d \in Chunks : mIsWriting'[d] <=> \E u \in Threads : pc'[u] = "write" /\ tSendChunk'[u] = d
    <3>1. \A d \in Chunks : mIsWriting'[d] = IF d = c THEN FALSE ELSE mIsWriting[d]
        BY <2>4 DEF TypeOK
    <3>2. ASSUME NEW d \in Chunks, d # c
          PROVE  mIsWriting'[d] <=> \E u \in Threads : pc'[u] = "write" /\ tSendChunk'[u] = d
      <4>1. tSendChunk[t] # d /\ tSendChunk' = tSendChunk
          BY <2>1, <2>4, <3>2
      <4>2. mIsWriting'[d] <=> \E u \in Threads : pc[u] = "write" /\ tSendChunk[u] = d
          BY <1>0, <3>1, <3>2 DEF WriteInv
      <4>3. \A u \in Threads : pc'[u] = "write" <=> pc[u] = "write" /\ u # t
          BY <2>6
      <4> QED BY <4>1, <4>2, <4>3
    <3>3. ~mIsWriting'[c] /\ ~\E u \in Threads : pc'[u] = "write" /\ tSendChunk'[u] = c
        BY <2>4, <2>5, <2>6, <3>1
    <3> QED BY <3>2, <3>3
  <2>8. ASSUME NEW u \in Threads, u # t, pc[u] \in {"alloc", "write"}
        PROVE  /\ PacketSize(payload[u]) <= kBufferSize - mWrittenSize'[tSendChunk[u]]
               /\ pc[u] = "write" => pos'[mine[u]] = mWrittenSize'[tSendChunk[u]]
    <3>1. tSendChunk[u] \in Chunks /\ mine[u] \in Buffers /\ mine[u] # b
        BY <2>2, <2>8 DEF TypeOK, MakerInv
    <3>2. mWrittenSize'[tSendChunk[u]] = mWrittenSize[tSendChunk[u]]
        BY <2>3, <2>5, <2>8, <3>1 DEF TypeOK
    <3> QED BY <1>0, <2>3, <2>8, <3>1, <3>2 DEF WriteInv, GetFreeSize
  <2>9. ASSUME NEW u \in Threads, pc'[u] \in {"alloc", "write"}
        PROVE  /\ PacketSize(payload'[u]) <= kBufferSize - mWrittenSize'[tSendChunk'[u]]
               /\ pc'[u] = "write" => pos'[mine'[u]] = mWrittenSize'[tSendChunk'[u]]
      BY <2>4, <2>6, <2>8, <2>9
  <2> QED BY <2>7, <2>9 DEF WriteInv, GetFreeSize, PacketSize, Int16
<1>6. ASSUME NEW t \in Threads, NEW b \in Buffers, Drop(t, b) PROVE WriteInv'
  <2>1. /\ UNCHANGED <<tSendChunk, mIsWriting, mWrittenSize, pc, mine, payload>> /\ holders[b] > 0
        /\ \A o \in Buffers \ {b} : pos'[o] = pos[o]
      BY <1>6 DEF Drop, Destroy, TypeOK
  <2>2. \A u \in Threads : pc[u] = "write" => mine[u] \in Buffers \ {b}
      BY <2>1 DEF TypeOK, MakerInv
  <2> QED BY <1>0, <2>1, <2>2 DEF WriteInv, GetFreeSize
<1>7. ASSUME NEW t \in Threads, ThreadExit(t) PROVE WriteInv'
  <2>1. /\ UNCHANGED <<mIsWriting, mWrittenSize, pc, mine, payload, pos>> /\ pc[t] = "idle"
        /\ \A u \in Threads \ {t} : tSendChunk'[u] = tSendChunk[u]
      BY <1>7 DEF ThreadExit, TypeOK
  <2>2. \A c \in Chunks : mIsWriting[c] <=> \E u \in Threads : pc[u] = "write" /\ tSendChunk'[u] = c
      BY <1>0, <2>1 DEF WriteInv
  <2>3. \A u \in Threads : pc[u] \in {"alloc", "write"} => tSendChunk'[u] = tSendChunk[u]
      BY <2>1
  <2> QED BY <1>0, <2>1, <2>2, <2>3 DEF WriteInv, GetFreeSize
<1>8. ASSUME NEW t \in Threads, Push(t)
      PROVE  UNCHANGED <<tSendChunk, mIsWriting, mWrittenSize, pos, pc, mine, payload>>
    BY <1>8 DEF Push
<1> QED BY <1>1, <1>2, <1>3, <1>4, <1>5, <1>6, <1>7, <1>8 DEF Next, vars

\* The bytes of a buffer stay: what is written lies above them, and what is
\* cleared has no buffer left.
LEMMA LaidNext ==
    ASSUME TypeOK, MakerInv, PlaceInv, LayoutInv, status = "running", status' = "running", [Next]_vars,
           NEW o \in Buffers, holders'[o] > 0
    PROVE  Laid(o)'
<1>0. \A b \in Buffers : holders[b] > 0 => Laid(b) /\ owner[b] \in Chunks
    BY DEF LayoutInv, TypeOK, MakerInv
<1> USE DEF poolVars, chunkVars, bufferVars, threadVars, Goto, At
<1>1. CASE /\ holders[o] > 0 /\ owner'[o] = owner[o] /\ pos'[o] = pos[o] /\ size'[o] = size[o]
           /\ mWrittenSize'[owner[o]] = mWrittenSize[owner[o]]
           /\ \A i \in pos[o]..(pos[o] + size[o] - 1) : mBuffer'[owner[o]][i] = mBuffer[owner[o]][i]
    BY <1>0, <1>1 DEF Laid
<1>2. \A b \in Buffers : holders[b] > 0 => pos[b]..(pos[b] + size[b] - 1) \subseteq Cells
  <2> SUFFICES ASSUME NEW b \in Buffers, holders[b] > 0 PROVE pos[b]..(pos[b] + size[b] - 1) \subseteq Cells
      OBVIOUS
  <2>1. /\ pos[b] \in Nat /\ size[b] \in Nat /\ kBufferSize \in Nat
        /\ mWrittenSize[owner[b]] \in 0..kBufferSize /\ pos[b] + size[b] <= mWrittenSize[owner[b]]
      BY <1>0 DEF TypeOK, Laid, kBufferSize
  <2> QED BY <2>1 DEF Cells
<1>3. ASSUME NEW t \in Threads, NEW c \in Chunks, Pop(t, c) PROVE Laid(o)'
  <2>1. holders[o] > 0 /\ owner[o] # c /\ owner[o] \in Chunks
      BY <1>0, <1>3, NotUsed DEF Pop, Used
  <2>2. /\ UNCHANGED <<owner, pos, size, mBuffer>> /\ mWrittenSize' = [mWrittenSize EXCEPT ![c] = 0]
      BY <1>3 DEF Pop
  <2>3. mWrittenSize'[owner[o]] = mWrittenSize[owner[o]]
      BY <2>1, <2>2 DEF TypeOK
  <2> QED BY <1>1, <2>1, <2>2, <2>3
<1>4. ASSUME NEW t \in Threads, Alloc(t) PROVE Laid(o)'
  <2>1. PICK b \in Buffers : b = mine[t]
      BY <1>4 DEF Alloc, TypeOK, MakerInv
  <2>2. /\ owner' = [owner EXCEPT ![b] = tSendChunk[t]] /\ pos' = [pos EXCEPT ![b] = mWrittenSize[tSendChunk[t]]]
        /\ UNCHANGED <<mWrittenSize, mBuffer, size, holders>>
      BY <1>4, <2>1, Allocated
  <2>3. holders[o] > 0 /\ o # b
      BY <2>1, <2>2 DEF MakerInv
  <2>4. owner'[o] = owner[o] /\ pos'[o] = pos[o]
      BY <2>2, <2>3 DEF TypeOK
  <2> QED BY <1>1, <2>2, <2>3, <2>4
<1>5. ASSUME NEW t \in Threads, NEW k \in 0..MaxHolders, Write(t, k) PROVE Laid(o)'
  <2>1. PICK c \in Chunks : c = tSendChunk[t]
      BY <1>5, Written
  <2>2. PICK b \in Buffers : b = mine[t]
      BY <1>5, Written
  <2>3. PICK n \in Nat : n = HeaderSize + payload[t]
      BY <1>5, Written
  <2>4. /\ owner[b] = c /\ pos[b] = mWrittenSize[c]
        /\ mWrittenSize' = [mWrittenSize EXCEPT ![c] = @ + n]
        /\ \A d \in Buffers \ {b} : owner'[d] = owner[d] /\ pos'[d] = pos[d] /\ size'[d] = size[d]
        /\ owner'[b] = IF k = 0 THEN NoChunk ELSE c
        /\ k # 0 => pos'[b] = pos[b] /\ size'[b] = n
        /\ k # 0 => \A i \in pos[b]..(pos[b] + n - 1) : mBuffer'[c][i] = b
        /\ \A d \in Chunks, i \in Cells, e \in Buffers \ {b} :
              mBuffer[d][i] = e /\ ~(d = c /\ i \in pos[b]..(pos[b] + n - 1)) => mBuffer'[d][i] = e
      BY <1>5, <2>1, <2>2, <2>3, Written
  <2>5. holders' = [holders EXCEPT ![b] = k]
      BY <1>5, <2>2 DEF Write
  <2>6. /\ mWrittenSize'[c] = mWrittenSize[c] + n /\ mWrittenSize[c] \in Nat
        /\ \A d \in Chunks \ {c} : mWrittenSize'[d] = mWrittenSize[d]
      BY <2>4 DEF TypeOK, Cells, kBufferSize
  <2>7. CASE o = b
    <3>1. k # 0
        BY <2>5, <2>7 DEF TypeOK
    <3>2. payload[t] \in Nat
        BY DEF TypeOK
    <3>3. n >= HeaderSize /\ pos[b] + n <= mWrittenSize'[c]
        BY <2>3, <2>4, <2>6, <3>2
    <3> QED BY <2>4, <2>7, <3>1, <3>3 DEF Laid
  <2>8. CASE o # b
    <3>1. holders[o] > 0 /\ o \in Buffers \ {b}
        BY <2>5, <2>8 DEF TypeOK
    <3>2. /\ owner[o] \in Chunks /\ size[o] >= HeaderSize /\ pos[o] + size[o] <= mWrittenSize[owner[o]]
          /\ \A i \in pos[o]..(pos[o] + size[o] - 1) : mBuffer[owner[o]][i] = o
        BY <1>0, <3>1 DEF Laid
    <3>3. ASSUME NEW i \in pos[o]..(pos[o] + size[o] - 1) PROVE mBuffer'[owner[o]][i] = o
      <4>1. i \in Cells /\ mBuffer[owner[o]][i] = o
          BY <1>2, <3>1, <3>2
      <4>2. owner[o] = c => i < pos[b]
          BY <2>4, <2>6, <3>2, <3>3 DEF TypeOK
      <4>3. ~(owner[o] = c /\ i \in pos[b]..(pos[b] + n - 1))
          BY <2>4, <2>6, <4>2
      <4> QED BY <2>4, <3>1, <3>2, <4>1, <4>3
    <3>4. /\ mWrittenSize[owner[o]] <= mWrittenSize'[owner[o]] /\ mWrittenSize[owner[o]] \in Nat
          /\ mWrittenSize'[owner[o]] \in Nat
      <4>1. mWrittenSize[owner[o]] \in Nat
          BY <3>2 DEF TypeOK, kBufferSize
      <4>2. CASE owner[o] = c
        <5>1. mWrittenSize'[owner[o]] = mWrittenSize[owner[o]] + n
            BY <2>6, <4>2
        <5> QED BY <2>6, <4>1, <5>1
      <4>3. CASE owner[o] # c
        <5>1. mWrittenSize'[owner[o]] = mWrittenSize[owner[o]]
            BY <2>6, <3>2, <4>3
        <5> QED BY <4>1, <5>1
      <4> QED BY <4>1, <4>2, <4>3
    <3>5. pos[o] \in Nat /\ size[o] \in Nat
        BY DEF TypeOK
    <3>6. pos[o] + size[o] <= mWrittenSize'[owner[o]]
        BY <3>2, <3>4, <3>5
    <3> QED BY <2>4, <3>1, <3>2, <3>3, <3>6 DEF Laid
  <2> QED BY <2>7, <2>8
<1>6. ASSUME NEW t \in Threads, NEW b \in Buffers, Drop(t, b) PROVE Laid(o)'
  <2>1. holders' = [holders EXCEPT ![b] = @ - 1] /\ holders[b] > 0 /\ UNCHANGED mWrittenSize
      BY <1>6 DEF Drop
  <2>2. holders[o] > 0 /\ (o = b => holders[b] # 1)
      BY <2>1 DEF TypeOK
  <2>3. CASE holders[b] # 1
    <3>1. UNCHANGED <<owner, pos, size, mBuffer>>
        BY <1>6, <2>3 DEF Drop
    <3> QED BY <1>1, <2>1, <2>2, <3>1
  <2>4. CASE holders[b] = 1
    <3>1. Destroy(t, b, mBuffer) /\ o \in Buffers \ {b}
        BY <1>6, <2>2, <2>4 DEF Drop
    <3>2. mBuffer \in [Chunks -> [Cells -> Buffers \cup {NoBuffer}]]
        BY DEF TypeOK
    <3>3. /\ owner' = [owner EXCEPT ![b] = NoChunk] /\ pos'[o] = pos[o] /\ size'[o] = size[o]
          /\ \A c \in Chunks, i \in Cells : mBuffer[c][i] = o => mBuffer'[c][i] = o
        BY <3>1, <3>2, Destroyed
    <3>4. owner'[o] = owner[o]
        BY <3>1, <3>3 DEF TypeOK
    <3>5. \A i \in pos[o]..(pos[o] + size[o] - 1) : mBuffer'[owner[o]][i] = mBuffer[owner[o]][i]
        BY <1>0, <1>2, <2>2, <3>3 DEF Laid
    <3> QED BY <1>1, <2>1, <2>2, <3>3, <3>4, <3>5
  <2> QED BY <2>3, <2>4
<1>7. ASSUME UNCHANGED <<mWrittenSize, mBuffer, bufferVars>> PROVE Laid(o)'
    BY <1>1, <1>7
<1>8. ASSUME NEW t \in Threads,
             Push(t) \/ ThreadExit(t) \/ \E b \in Buffers, p \in PayloadSizes : MakeSendBuffer(t, b, p)
      PROVE  UNCHANGED <<mWrittenSize, mBuffer, bufferVars>>
    BY <1>8 DEF Push, ThreadExit, MakeSendBuffer
<1> QED BY <1>3, <1>4, <1>5, <1>6, <1>7, <1>8 DEF Next, vars

LEMMA LayoutNext == TypeOK /\ MakerInv /\ PlaceInv /\ LayoutInv /\ [Next]_vars => LayoutInv'
<1> SUFFICES ASSUME TypeOK, MakerInv, PlaceInv, LayoutInv, [Next]_vars, status' = "running"
             PROVE  WriteInv' /\ \A b \in Buffers : holders'[b] > 0 => Laid(b)'
    BY DEF LayoutInv
<1>1. status = "running"
    BY DEF Next, vars, MakeSendBuffer, Pop, Push, Alloc, Write, Drop, ThreadExit, At
<1> QED BY <1>1, WriteNext, LaidNext

-------------------------------------------------------------------------------
(* The end of the process                                                  *)

LEMMA EndsInit == Init => EndsOnlyOversized
BY DEF Init, EndsOnlyOversized

LEMMA EndsNext ==
    TypeOK /\ MakerInv /\ PlaceInv /\ LayoutInv /\ EndsOnlyOversized /\ [Next]_vars => EndsOnlyOversized'
<1> SUFFICES ASSUME TypeOK, MakerInv, PlaceInv, LayoutInv, EndsOnlyOversized, [Next]_vars, status' # "running"
             PROVE  \E t \in Threads : pc'[t] = "write" /\ HeaderSize + payload'[t] > Int16Max
    BY DEF EndsOnlyOversized
<1>1. CASE UNCHANGED vars
    BY <1>1 DEF vars, threadVars, EndsOnlyOversized
<1>2. CASE Next
  <2>1. status = "running" /\ WriteInv
    <3>1. status = "running"
        BY <1>2 DEF Next, MakeSendBuffer, Pop, Push, Alloc, Write, Drop, ThreadExit, At
    <3> QED BY <3>1 DEF LayoutInv
\* A thread that is not writing has a chunk that nobody writes.
  <2>2. ASSUME NEW t \in Threads, pc[t] # "write", tSendChunk[t] # NoChunk PROVE ~mIsWriting[tSendChunk[t]]
    <3>1. tSendChunk[t] \in Chunks
        BY <2>2 DEF TypeOK
    <3>2. ASSUME NEW u \in Threads, pc[u] = "write", tSendChunk[u] = tSendChunk[t] PROVE FALSE
        BY <2>2, <3>2 DEF PlaceInv
    <3> QED BY <2>1, <3>1, <3>2 DEF WriteInv
  <2>3. ASSUME NEW t \in Threads, NEW b \in Buffers, NEW p \in PayloadSizes, MakeSendBuffer(t, b, p) PROVE FALSE
      BY <2>1, <2>2, <2>3 DEF MakeSendBuffer, At
  <2>4. ASSUME NEW t \in Threads, Alloc(t) PROVE FALSE
    <3>1. pc[t] = "alloc" /\ tSendChunk[t] # NoChunk
        BY <2>4 DEF Alloc, At, MakerInv
    <3>2. ~mIsWriting[tSendChunk[t]] /\ PacketSize(payload[t]) <= GetFreeSize(tSendChunk[t])
        BY <2>1, <2>2, <3>1 DEF WriteInv
    <3> QED BY <2>1, <2>4, <3>2 DEF Alloc
  <2>5. ASSUME NEW t \in Threads, NEW k \in 0..MaxHolders, Write(t, k)
        PROVE  pc'[t] = "write" /\ HeaderSize + payload'[t] > Int16Max
    <3>1. /\ pc[t] = "write" /\ payload[t] \in Nat /\ mine[t] \in Buffers
          /\ owner[mine[t]] = tSendChunk[t] /\ tSendChunk[t] \in Chunks
        BY <2>5 DEF Write, At, TypeOK, MakerInv
    <3>2. UNCHANGED <<pc, payload>>
        BY <2>5, CrashedWrite DEF threadVars
    <3>3. ASSUME HeaderSize + payload[t] <= Int16Max PROVE FALSE
      <4>1. PacketSize(payload[t]) = HeaderSize + payload[t] /\ Int16(payload[t]) = payload[t]
          BY <3>1, <3>3, Sizes
      <4>2. /\ pos[mine[t]] = mWrittenSize[tSendChunk[t]] /\ mIsWriting[tSendChunk[t]]
            /\ HeaderSize + payload[t] <= kBufferSize - mWrittenSize[tSendChunk[t]]
          BY <2>1, <3>1, <4>1 DEF WriteInv, GetFreeSize
      <4>3. kBufferSize \in Nat /\ mWrittenSize[tSendChunk[t]] \in Nat
          BY <3>1 DEF TypeOK, kBufferSize
      <4>4. pos[mine[t]]..(pos[mine[t]] + HeaderSize + payload[t] - 1) \subseteq Cells
          BY <3>1, <4>2, <4>3 DEF Cells
      <4>5. ~(Int16(payload[t]) < payload[t]) /\ ~(PacketSize(payload[t]) < 0) /\ mIsWriting[owner[mine[t]]]
          BY <3>1, <4>1, <4>2
      <4>6. status' = status
          BY <2>5, <4>4, <4>5 DEF Write
      <4> QED BY <2>1, <4>6
    <3>4. HeaderSize + payload[t] \in Nat
        BY <3>1
    <3> QED BY <3>1, <3>2, <3>3, <3>4
  <2>6. ASSUME NEW t \in Threads, Push(t) \/ ThreadExit(t) \/ (\E c \in Chunks : Pop(t, c)) \/ \E b \in Buffers : Drop(t, b)
        PROVE  FALSE
      BY <2>1, <2>6 DEF Push, ThreadExit, Pop, Drop
  <2> QED BY <1>2, <2>3, <2>4, <2>5, <2>6 DEF Next
<1> QED BY <1>1, <1>2

-------------------------------------------------------------------------------
(* The theorems                                                            *)

\* The parts of the invariant of pool, chunks and buffers hold together.
THEOREM InvHolds == Spec => []Inv
<1>1. Init => Inv
    BY TypeInit, MakerInit, PlaceInit, LayoutInit, EndsInit DEF Inv
<1>2. Inv /\ [Next]_vars => Inv'
    BY TypeNext, MakerNext, PlaceNext, LayoutNext, EndsNext DEF Inv
<1> QED BY <1>1, <1>2, PTL DEF Spec

\* Type correctness of the pool, the chunks and the buffers; in particular no
\* write position passes the end of its chunk (SendChunk::mWrittenSize).
THEOREM TypeCorrect == Spec => []TypeOK
<1>1. Inv => TypeOK
    BY DEF Inv
<1> QED BY <1>1, InvHolds, PTL

\* The bytes of a packet stay what MakeSendBuffer wrote as long as a session has
\* it to send (SendBuffer, SendChunk::Alloc, OnWritten and Clear).
THEOREM BytesIntactHolds == Spec => []BytesIntact
<1>1. Inv => BytesIntact
  <2> SUFFICES ASSUME Inv, status = "running", NEW b \in Buffers, holders[b] > 0
               PROVE  owner[b] \in Chunks /\ Laid(b)
      BY DEF BytesIntact, Laid
  <2> QED BY DEF Inv, TypeOK, MakerInv, LayoutInv
<1> QED BY <1>1, InvHolds, PTL

\* An allocated chunk is in the pool once, on its way there with one thread, or
\* referred to, and no two threads fill the same one (SendChunkPool).
THEOREM OnePlaceHolds == Spec => []OnePlace
<1>1. Inv => OnePlace
  <2> SUFFICES ASSUME Inv PROVE OnePlace
      OBVIOUS
  <2> DEFINE pooled(c) == {i \in DOMAIN mSendChunks : mSendChunks[i] = c}
             returning(c) == {t \in Threads : dropped[t] = c}
  <2>1. DOMAIN mSendChunks = 1..Len(mSendChunks)
      BY DEF Inv, TypeOK
  <2>2. ASSUME NEW c \in Chunks
        PROVE  /\ Unreferenced(c, tSendChunk, owner) <=> ~Used(c)
               /\ pooled(c) # {} <=> Pooled(c)
               /\ returning(c) # {} <=> Returning(c)
               /\ \A i, j \in pooled(c) : i = j
               /\ \A t, u \in returning(c) : t = u
    <3>1. c # NoChunk
        OBVIOUS
    <3>2. Unreferenced(c, tSendChunk, owner) <=> ~Used(c)
        BY <3>1 DEF Unreferenced, Used
    <3>3. \A i, j \in pooled(c) : i = j
        BY <2>1 DEF Inv, PlaceInv
    <3>4. \A t, u \in returning(c) : t = u
        BY <3>1 DEF Inv, PlaceInv
    <3> QED BY <2>1, <3>2, <3>3, <3>4 DEF Pooled, Returning
  <2>3. known \subseteq Chunks /\ PlaceInv
      BY DEF Inv, TypeOK
  <2>4. ASSUME NEW c \in known
        PROVE  /\ \A i, j \in pooled(c) : i = j
               /\ \A t, u \in returning(c) : t = u
               /\ pooled(c) # {} => returning(c) = {} /\ Unreferenced(c, tSendChunk, owner)
               /\ returning(c) # {} => Unreferenced(c, tSendChunk, owner)
               /\ pooled(c) # {} \/ returning(c) # {} \/ ~Unreferenced(c, tSendChunk, owner)
      BY <2>2, <2>3 DEF PlaceInv, Placed
  <2> QED BY <2>3, <2>4 DEF OnePlace, PlaceInv
<1> QED BY <1>1, InvHolds, PTL

\* No assertion on sizes and writing states fails, and no byte is written past a
\* chunk, except over a payload whose packet has no size in 16 bits (MakeSendBuffer).
THEOREM EndsOnlyOversizedHolds == Spec => []EndsOnlyOversized
<1>1. Inv => EndsOnlyOversized
    BY DEF Inv
<1> QED BY <1>1, InvHolds, PTL
-------------------------------------------------------------------------------
(* The receive path                                                        *)

USE SizeAssumption, PacketAssumption

\* Induction over the naturals, as a fact about a set.
LEMMA NatInductionSet ==
    ASSUME NEW S, 0 \in S, \A n \in Nat : n \in S => n + 1 \in S
    PROVE  Nat \subseteq S
<1> DEFINE T == Nat \ S
<1> SUFFICES ASSUME T # {} PROVE FALSE
    OBVIOUS
<1>1. PICK x \in T : \A y \in T : ~(<<y, x>> \in OpToRel(<, Nat))
    BY NatLessThanWellFounded, WFMin
<1>2. x \in Nat /\ x # 0 /\ x - 1 \in Nat /\ x - 1 < x
    OBVIOUS
<1>3. x - 1 \in S
    BY <1>1, <1>2 DEF OpToRel
<1>4. x - 1 + 1 \in S
    BY <1>2, <1>3
<1> QED BY <1>2, <1>4

-------------------------------------------------------------------------------
(* The stream                                                              *)

Streams == [1..MaxPackets -> PacketSizes]

LEMMA CapacityFacts == Capacity \in Nat /\ Capacity >= Size /\ Capacity >= 1
<1>1. \A a, b \in Nat \ {0} : a * b \in Nat /\ a * b >= a
    BY SMT
<1> QED BY <1>1 DEF Capacity

LEMMA SizeFacts ==
    ASSUME stream \in Streams
    PROVE  \A k \in 1..MaxPackets : stream[k] \in Nat /\ stream[k] >= PacketHeaderSize /\ stream[k] <= Capacity
<1>1. ASSUME NEW z \in PacketHeaderSize..Capacity
      PROVE  z \in Nat /\ z >= PacketHeaderSize /\ z <= Capacity
    BY CapacityFacts
<1>2. ASSUME NEW k \in 1..MaxPackets PROVE stream[k] \in PacketHeaderSize..Capacity
  <2>1. stream[k] \in PacketSizes
      BY DEF Streams
  <2> QED BY <2>1, PacketSizeAssumption
<1> QED BY <1>1, <1>2

LEMMA SizePositive ==
    ASSUME stream \in Streams
    PROVE  \A k \in 1..MaxPackets : stream[k] \in Nat /\ stream[k] >= 1
<1>1. PacketHeaderSize \in Nat /\ PacketHeaderSize >= 1
    OBVIOUS
<1> QED BY <1>1, SizeFacts

LEMMA StartDef ==
    ASSUME stream \in Streams
    PROVE  StartOf = [k \in 1..(MaxPackets + 1) |-> IF k = 1 THEN 1 ELSE StartOf[k - 1] + stream[k - 1]]
<1> DEFINE Upto(m, g) == /\ g \in [1..(m + 1) -> Nat]
                         /\ g[1] = 1
                         /\ \A k \in 1..m : g[k + 1] = g[k] + stream[k]
           S == {m \in Nat : m <= MaxPackets => \E g : Upto(m, g)}
<1>1. 0 \in S
  <2>1. Upto(0, [k \in 1..1 |-> 1])
      OBVIOUS
  <2> QED BY <2>1
<1>2. ASSUME NEW m \in Nat, m \in S PROVE m + 1 \in S
  <2> SUFFICES ASSUME m + 1 <= MaxPackets PROVE \E g : Upto(m + 1, g)
      OBVIOUS
  <2>1. PICK g : Upto(m, g)
      BY <1>2
  <2>2. m + 1 \in 1..MaxPackets /\ stream[m + 1] \in Nat /\ g[m + 1] \in Nat
      BY <2>1, SizeFacts
  <2> DEFINE h == [k \in 1..(m + 1 + 1) |-> IF k <= m + 1 THEN g[k] ELSE g[m + 1] + stream[m + 1]]
  <2>3. h \in [1..(m + 1 + 1) -> Nat]
      BY <2>1, <2>2
  <2>4. h[1] = 1
      BY <2>1
  <2>5. ASSUME NEW k \in 1..(m + 1) PROVE h[k + 1] = h[k] + stream[k]
    <3>1. k \in 1..(m + 1 + 1) /\ k + 1 \in 1..(m + 1 + 1) /\ h[k] = g[k]
        OBVIOUS
    <3>2. CASE k <= m
      <4>1. k \in 1..m /\ h[k + 1] = g[k + 1]
          BY <3>1, <3>2
      <4> QED BY <2>1, <3>1, <4>1
    <3>3. CASE k = m + 1
        BY <3>1, <3>3
    <3> QED BY <3>2, <3>3
  <2> HIDE DEF h
  <2>6. Upto(m + 1, h)
      BY <2>3, <2>4, <2>5
  <2> QED BY <2>6
<1> HIDE DEF S
<1>3. MaxPackets \in S
    BY <1>1, <1>2, NatInductionSet
<1>4. PICK g : Upto(MaxPackets, g)
    BY <1>3 DEF S
<1>5. g = [k \in 1..(MaxPackets + 1) |-> IF k = 1 THEN 1 ELSE g[k - 1] + stream[k - 1]]
  <2>1. ASSUME NEW k \in 1..(MaxPackets + 1), k # 1 PROVE g[k] = g[k - 1] + stream[k - 1]
    <3>1. k - 1 \in 1..MaxPackets /\ k - 1 + 1 = k
        BY <2>1
    <3> QED BY <1>4, <3>1
  <2> QED BY <1>4, <2>1
<1>6. \E f : f = [k \in 1..(MaxPackets + 1) |-> IF k = 1 THEN 1 ELSE f[k - 1] + stream[k - 1]]
    BY <1>5
<1> QED BY <1>6 DEF StartOf

LEMMA StartFacts ==
    ASSUME stream \in Streams
    PROVE  /\ StartOf \in [1..(MaxPackets + 1) -> Nat]
           /\ StartOf[1] = 1
           /\ \A k \in 1..MaxPackets : StartOf[k + 1] = StartOf[k] + stream[k]
<1>1. StartOf[1] = 1
    BY StartDef
<1>2. ASSUME NEW k \in 1..MaxPackets PROVE StartOf[k + 1] = StartOf[k] + stream[k]
  <2>1. k + 1 \in 1..(MaxPackets + 1) /\ k + 1 # 1 /\ k + 1 - 1 = k
      OBVIOUS
  <2> QED BY <2>1, StartDef
<1> DEFINE S == {m \in Nat : m <= MaxPackets => StartOf[m + 1] \in Nat}
<1>3. 0 \in S
    BY <1>1
<1>4. ASSUME NEW m \in Nat, m \in S PROVE m + 1 \in S
  <2> SUFFICES ASSUME m + 1 <= MaxPackets PROVE StartOf[m + 1 + 1] \in Nat
      OBVIOUS
  <2>1. m + 1 \in 1..MaxPackets /\ StartOf[m + 1] \in Nat /\ stream[m + 1] \in Nat
      BY <1>4, SizeFacts
  <2> QED BY <1>2, <2>1
<1> HIDE DEF S
<1>5. Nat \subseteq S
    BY <1>3, <1>4, NatInductionSet
<1>6. ASSUME NEW k \in 1..(MaxPackets + 1) PROVE StartOf[k] \in Nat
  <2>1. k - 1 \in Nat /\ k - 1 <= MaxPackets /\ k - 1 + 1 = k
      OBVIOUS
  <2> QED BY <1>5, <2>1 DEF S
<1> QED BY <1>1, <1>2, <1>6, StartDef

LEMMA StartGrows ==
    ASSUME stream \in Streams
    PROVE  \A i, j \in 1..(MaxPackets + 1) : i <= j => StartOf[i] + (j - i) <= StartOf[j]
<1> DEFINE S == {m \in Nat : \A i \in 1..(MaxPackets + 1) :
                                 i + m <= MaxPackets + 1 => StartOf[i] + m <= StartOf[i + m]}
<1>1. 0 \in S
    BY StartFacts
<1>2. ASSUME NEW m \in Nat, m \in S PROVE m + 1 \in S
  <2> SUFFICES ASSUME NEW i \in 1..(MaxPackets + 1), i + (m + 1) <= MaxPackets + 1
               PROVE  StartOf[i] + (m + 1) <= StartOf[i + (m + 1)]
      OBVIOUS
  <2>1. i + m \in 1..MaxPackets /\ i + m + 1 = i + (m + 1)
      OBVIOUS
  <2>2. StartOf[i + (m + 1)] = StartOf[i + m] + stream[i + m]
      BY <2>1, StartFacts
  <2>3. StartOf[i] + m <= StartOf[i + m]
      BY <1>2, <2>1
  <2>4. stream[i + m] \in Nat /\ stream[i + m] >= 1 /\ StartOf[i] \in Nat /\ StartOf[i + m] \in Nat
      BY <2>1, SizeFacts, StartFacts
  <2> QED BY <2>2, <2>3, <2>4
<1> HIDE DEF S
<1>3. Nat \subseteq S
    BY <1>1, <1>2, NatInductionSet
<1> SUFFICES ASSUME NEW i \in 1..(MaxPackets + 1), NEW j \in 1..(MaxPackets + 1), i <= j
             PROVE  StartOf[i] + (j - i) <= StartOf[j]
    OBVIOUS
<1>4. j - i \in S /\ i + (j - i) = j
    BY <1>3
<1> QED BY <1>4 DEF S

\* A packet begins at a byte of the stream.
LEMMA StartBounds ==
    ASSUME stream \in Streams
    PROVE  /\ \A i \in 1..(MaxPackets + 1) : StartOf[i] \in Nat /\ StartOf[i] >= 1 /\ StartOf[i] - 1 <= Total
           /\ Total \in Nat
<1>1. \A i \in 1..(MaxPackets + 1) : StartOf[i] \in Nat
    BY StartFacts
<1>2. ASSUME NEW i \in 1..(MaxPackets + 1)
      PROVE  StartOf[i] >= 1 /\ StartOf[i] - 1 <= Total /\ Total \in Nat
  <2>1. 1 \in 1..(MaxPackets + 1) /\ MaxPackets + 1 \in 1..(MaxPackets + 1)
      OBVIOUS
  <2>2. StartOf[1] + (i - 1) <= StartOf[i] /\ StartOf[i] + (MaxPackets + 1 - i) <= StartOf[MaxPackets + 1]
      BY <2>1, StartGrows
  <2>3. StartOf[1] = 1 /\ StartOf[i] \in Nat /\ StartOf[MaxPackets + 1] \in Nat
      BY <1>1, <2>1, StartFacts
  <2> QED BY <2>2, <2>3 DEF Total
<1>3. 1 \in 1..(MaxPackets + 1)
    OBVIOUS
<1> QED BY <1>1, <1>2, <1>3

\* Two packets do not begin at the same byte.
LEMMA StartInjective ==
    ASSUME stream \in Streams
    PROVE  /\ \A i, j \in 1..(MaxPackets + 1) : StartOf[i] = StartOf[j] => i = j
           /\ \A i, j \in 1..(MaxPackets + 1) : StartOf[i] < StartOf[j] => i < j
<1>1. \A i \in 1..(MaxPackets + 1) : StartOf[i] \in Nat
    BY StartBounds
<1>2. ASSUME NEW i \in 1..(MaxPackets + 1), NEW j \in 1..(MaxPackets + 1), j < i
      PROVE  StartOf[j] < StartOf[i]
  <2>1. StartOf[j] + (i - j) <= StartOf[i] /\ StartOf[i] \in Nat /\ StartOf[j] \in Nat
      BY <1>1, <1>2, StartGrows
  <2> QED BY <1>2, <2>1
<1>3. \A i, j \in 1..(MaxPackets + 1) : StartOf[i] < StartOf[j] => i < j
  <2> SUFFICES ASSUME NEW i \in 1..(MaxPackets + 1), NEW j \in 1..(MaxPackets + 1),
          StartOf[i] < StartOf[j], ~(i < j)
               PROVE  FALSE
      OBVIOUS
  <2>1. StartOf[i] \in Nat /\ StartOf[j] \in Nat
      BY <1>1
  <2>2. i = j \/ j < i
      OBVIOUS
  <2> QED BY <1>2, <2>1, <2>2
<1>4. \A i, j \in 1..(MaxPackets + 1) : StartOf[i] = StartOf[j] => i = j
  <2> SUFFICES ASSUME NEW i \in 1..(MaxPackets + 1), NEW j \in 1..(MaxPackets + 1),
          StartOf[i] = StartOf[j], i # j
               PROVE  FALSE
      OBVIOUS
  <2>1. StartOf[i] \in Nat /\ StartOf[j] \in Nat
      BY <1>1
  <2>2. i < j \/ j < i
      OBVIOUS
  <2> QED BY <1>2, <2>1, <2>2
<1> QED BY <1>3, <1>4

\* The header of packet k is at the packet's first byte; no size is out of range.
LEMMA HeaderFacts ==
    ASSUME stream \in Streams
    PROVE  /\ \A b : HeaderField(b) \in Nat /\ HeaderField(b) >= PacketHeaderSize /\ HeaderField(b) <= Capacity
           /\ \A k \in 1..MaxPackets : HeaderField(StartOf[k]) = stream[k]
<1>1. ASSUME NEW b PROVE HeaderField(b) \in Nat /\ HeaderField(b) >= PacketHeaderSize /\ HeaderField(b) <= Capacity
  <2> DEFINE starts == {k \in 1..MaxPackets : StartOf[k] = b}
  <2>1. CASE starts = {}
    <3>1. HeaderField(b) = PacketHeaderSize
        BY <2>1 DEF HeaderField
    <3>2. PacketHeaderSize <= Capacity
        BY CapacityFacts
    <3> QED BY <3>1, <3>2
  <2>2. CASE starts # {}
    <3>1. (CHOOSE k \in starts : TRUE) \in starts
        BY <2>2
    <3>2. PICK k \in 1..MaxPackets : HeaderField(b) = stream[k]
        BY <2>2, <3>1 DEF HeaderField
    <3> QED BY <3>2, SizeFacts
  <2> QED BY <2>1, <2>2
<1>2. ASSUME NEW k \in 1..MaxPackets PROVE HeaderField(StartOf[k]) = stream[k]
  <2> DEFINE starts == {i \in 1..MaxPackets : StartOf[i] = StartOf[k]}
  <2>1. \A i \in 1..MaxPackets : i \in 1..(MaxPackets + 1)
      OBVIOUS
  <2>2. starts = {k}
      BY <2>1, StartInjective
  <2>3. (CHOOSE i \in starts : TRUE) = k
      BY <2>2
  <2> QED BY <2>2, <2>3 DEF HeaderField
<1> QED BY <1>1, <1>2

-------------------------------------------------------------------------------
(* PacketQueue::Push                                                       *)

\* One step of Push's loop at offset o, with f for the rest of the window.
PushAt(buf, base, n, f, o) ==
    IF o < n /\ Complete(HeaderField(buf[base + o]), n - o)
    THEN <<o>> \o f[o + HeaderField(buf[base + o])]
    ELSE <<>>

\* What Push finds from every offset on.
PushFrom(buf, base, n) ==
    CHOOSE f : f = [o \in 0..(n + Capacity) |-> PushAt(buf, base, n, f, o)]

\* The recursion of Push is well defined: every packet moves the offset on.
LEMMA PushDefined ==
    ASSUME stream \in Streams, NEW buf, NEW base, NEW n \in Nat
    PROVE  LET f == PushFrom(buf, base, n)
           IN  f = [o \in 0..(n + Capacity) |-> PushAt(buf, base, n, f, o)]
<1> DEFINE Good(m, f) == /\ f = [o \in 0..(n + Capacity) |-> f[o]]
                         /\ \A o \in 0..(n + Capacity) :
                                n <= o + m => f[o] = PushAt(buf, base, n, f, o)
           S == {m \in Nat : m <= n => \E f : Good(m, f)}
<1>1. 0 \in S
  <2> DEFINE e == [o \in 0..(n + Capacity) |-> <<>>]
  <2>1. \A o \in 0..(n + Capacity) : n <= o + 0 => e[o] = PushAt(buf, base, n, e, o)
      BY DEF PushAt
  <2>2. Good(0, e)
      BY <2>1
  <2> QED BY <2>2
<1>2. ASSUME NEW m \in Nat, m \in S PROVE m + 1 \in S
  <2> SUFFICES ASSUME m + 1 <= n PROVE \E f : Good(m + 1, f)
      OBVIOUS
  <2>1. PICK f : Good(m, f)
      BY <1>2
  <2> DEFINE at == n - (m + 1)
             g == [o \in 0..(n + Capacity) |-> IF o = at THEN PushAt(buf, base, n, f, o) ELSE f[o]]
  <2>2. ASSUME NEW o \in 0..(n + Capacity), n <= o + (m + 1)
        PROVE  g[o] = PushAt(buf, base, n, g, o)
    <3> DEFINE next == o + HeaderField(buf[base + o])
    <3>1. HeaderField(buf[base + o]) \in Nat /\ HeaderField(buf[base + o]) >= 1
            /\ HeaderField(buf[base + o]) <= Capacity
        BY HeaderFacts
    <3>2. CASE o < n
      <4>1. next \in 0..(n + Capacity) /\ next # at
          BY CapacityFacts, <2>2, <3>1, <3>2
      <4>2. g[next] = f[next]
          BY <4>1
      <4>3. PushAt(buf, base, n, g, o) = PushAt(buf, base, n, f, o)
        <5>1. g[o + HeaderField(buf[base + o])] = f[o + HeaderField(buf[base + o])]
            BY <4>2
        <5> HIDE DEF g
        <5> QED BY <5>1 DEF PushAt
      <4>4. g[o] = PushAt(buf, base, n, f, o)
        <5>1. CASE o = at
            BY <5>1
        <5>2. CASE o # at
          <6>1. n <= o + m
              BY <2>2, <5>2
          <6> QED BY <2>1, <5>2, <6>1
        <5> QED BY <5>1, <5>2
      <4> QED BY <4>3, <4>4
    <3>3. CASE ~(o < n)
      <4>1. o # at /\ n <= o + m
          BY <3>3
      <4>2. g[o] = PushAt(buf, base, n, f, o)
          BY <2>1, <4>1
      <4> QED BY <3>3, <4>2 DEF PushAt
    <3> QED BY <3>2, <3>3
  <2>3. g = [o \in 0..(n + Capacity) |-> g[o]]
      OBVIOUS
  <2> HIDE DEF g
  <2>4. Good(m + 1, g)
      BY <2>2, <2>3
  <2> QED BY <2>4
<1> HIDE DEF S
<1>3. n \in S
    BY <1>1, <1>2, NatInductionSet
<1>4. PICK f : Good(n, f)
    BY <1>3 DEF S
<1>5. ASSUME NEW o \in 0..(n + Capacity) PROVE f[o] = PushAt(buf, base, n, f, o)
  <2>1. n <= o + n
      OBVIOUS
  <2> QED BY <1>4, <2>1
<1>6. f = [o \in 0..(n + Capacity) |-> PushAt(buf, base, n, f, o)]
    BY <1>4, <1>5
<1> QED BY <1>6 DEF PushFrom

\* PacketOffsets is that function's value at the first byte of the window.
LEMMA OffsetsArePush ==
    ASSUME NEW buf, NEW base, NEW n
    PROVE  PacketOffsets(buf, base, n) = PushFrom(buf, base, n)[0]
BY DEF PacketOffsets, PushFrom, PushAt

\* Where Push starts at packet p and the window ends before byte `end' of the
\* stream, what it finds is the packets from p on, as many as are complete.
Found(s, p, first, end) ==
    \E q \in p..(MaxPackets + 1) :
        /\ StartOf[q] <= end
        /\ s = [i \in 1..(q - p) |-> StartOf[p + i - 1] - first]

LEMMA PushFinds ==
    ASSUME stream \in Streams, NEW buf, NEW base, NEW n \in Nat,
           NEW p0 \in 1..(MaxPackets + 1),
           StartOf[p0] + n <= StartOf[MaxPackets + 1],
           \A o \in 0..(n - 1) : buf[base + o] = StartOf[p0] + o
    PROVE  Found(PacketOffsets(buf, base, n), p0, StartOf[p0], StartOf[p0] + n)
<1> DEFINE f == PushFrom(buf, base, n)
           first == StartOf[p0]
           Q(m) == \A p \in p0..(MaxPackets + 1) :
                       (StartOf[p] <= first + n /\ first + n <= StartOf[p] + m)
                           => Found(f[StartOf[p] - first], p, first, first + n)
           S == {m \in Nat : Q(m)}
<1>1. f = [o \in 0..(n + Capacity) |-> PushAt(buf, base, n, f, o)]
    BY PushDefined
<1> HIDE DEF f
<1>2. first \in Nat /\ \A p \in 1..(MaxPackets + 1) : StartOf[p] \in Nat
    BY StartFacts
<1>3. \A p \in p0..(MaxPackets + 1) : p \in 1..(MaxPackets + 1) /\ StartOf[p] \in Nat /\ first <= StartOf[p]
  <2> TAKE p \in p0..(MaxPackets + 1)
  <2>1. p \in 1..(MaxPackets + 1) /\ p0 <= p
      OBVIOUS
  <2>2. first + (p - p0) <= StartOf[p]
      BY <2>1, StartGrows
  <2> QED BY <1>2, <2>1, <2>2
<1> HIDE DEF first
\* No complete packet at packet p: Push stops there.
<1>4. ASSUME NEW p \in p0..(MaxPackets + 1), StartOf[p] <= first + n,
             f[StartOf[p] - first] = <<>>
      PROVE  Found(f[StartOf[p] - first], p, first, first + n)
  <2>1. p \in p..(MaxPackets + 1) /\ p - p = 0
      BY <1>3
  <2>2. <<>> = [i \in 1..(p - p) |-> StartOf[p + i - 1] - first]
      BY <2>1
  <2> QED BY <1>4, <2>1, <2>2 DEF Found
<1>5. 0 \in S
  <2> SUFFICES ASSUME NEW p \in p0..(MaxPackets + 1), StartOf[p] <= first + n, first + n <= StartOf[p] + 0
               PROVE  Found(f[StartOf[p] - first], p, first, first + n)
      OBVIOUS
  <2>1. StartOf[p] - first = n /\ n \in 0..(n + Capacity)
      BY CapacityFacts, <1>2, <1>3
  <2>2. f[n] = <<>>
      BY <1>1, <2>1 DEF PushAt
  <2> QED BY <1>4, <2>1, <2>2
<1>6. ASSUME NEW m \in Nat, m \in S PROVE m + 1 \in S
  <2> SUFFICES ASSUME NEW p \in p0..(MaxPackets + 1), StartOf[p] <= first + n, first + n <= StartOf[p] + (m + 1)
               PROVE  Found(f[StartOf[p] - first], p, first, first + n)
      OBVIOUS
  <2> DEFINE o == StartOf[p] - first
  <2>1. o \in Nat /\ o <= n /\ o \in 0..(n + Capacity)
      BY CapacityFacts, <1>2, <1>3
  <2>2. f[o] = PushAt(buf, base, n, f, o)
      BY <1>1, <2>1
  <2>3. CASE ~(o < n /\ Complete(HeaderField(buf[base + o]), n - o))
    <3>1. f[o] = <<>>
        BY <2>2, <2>3 DEF PushAt
    <3> QED BY <1>4, <3>1
  <2>4. CASE o < n /\ Complete(HeaderField(buf[base + o]), n - o)
    <3>1. p # MaxPackets + 1
      <4>1. first + o < StartOf[MaxPackets + 1]
        <5>1. first + n <= StartOf[MaxPackets + 1]
            BY DEF first
        <5>2. MaxPackets + 1 \in 1..(MaxPackets + 1)
            OBVIOUS
        <5>3. StartOf[MaxPackets + 1] \in Nat
            BY <1>2, <5>2
        <5> HIDE DEF o
        <5> QED BY <1>2, <2>1, <2>4, <5>1, <5>3
      <4> QED BY <1>2, <1>3, <4>1
    <3>2. p \in 1..MaxPackets /\ p + 1 \in p0..(MaxPackets + 1)
        BY <1>3, <3>1
    <3>3. o \in 0..(n - 1)
        BY <2>1, <2>4
    <3>4. buf[base + o] = StartOf[p]
        BY <1>2, <1>3, <3>3 DEF first
    <3>5. HeaderField(buf[base + o]) = stream[p] /\ stream[p] \in Nat /\ stream[p] >= 1
        BY <3>2, <3>4, HeaderFacts, SizeFacts
    <3>6. StartOf[p + 1] = StartOf[p] + stream[p]
        BY <3>2, StartFacts
    <3>7. stream[p] <= n - o
        BY <2>4, <3>5 DEF Complete
    <3>8. StartOf[p + 1] <= first + n /\ first + n <= StartOf[p + 1] + m
        BY <1>2, <1>3, <3>5, <3>6, <3>7
    <3>9. Found(f[StartOf[p + 1] - first], p + 1, first, first + n)
        BY <1>6, <3>2, <3>8
    <3>10. f[o] = <<o>> \o f[StartOf[p + 1] - first]
      <4>1. StartOf[p + 1] - first = o + HeaderField(buf[base + o])
          BY <1>2, <1>3, <3>5, <3>6
      <4> QED BY <2>2, <2>4, <4>1 DEF PushAt
    <3>11. PICK q \in (p + 1)..(MaxPackets + 1) :
              /\ StartOf[q] <= first + n
              /\ f[StartOf[p + 1] - first] = [i \in 1..(q - (p + 1)) |-> StartOf[p + 1 + i - 1] - first]
        BY <3>9 DEF Found
    <3> DEFINE tail == [i \in 1..(q - (p + 1)) |-> StartOf[p + 1 + i - 1] - first]
               all == [i \in 1..(q - p) |-> StartOf[p + i - 1] - first]
    <3>12. <<o>> \o tail = all
      <4>1. q - (p + 1) \in Nat /\ q - p = 1 + (q - (p + 1))
          BY <1>3
      <4>2. \A i \in 1..(q - p) : StartOf[p + i - 1] - first \in Int
        <5> TAKE i \in 1..(q - p)
        <5>1. p + i - 1 \in p0..(MaxPackets + 1)
            OBVIOUS
        <5> QED BY <1>2, <1>3, <5>1
      <4>3. all \in Seq(Int) /\ Len(all) = q - p
          BY <4>1, <4>2
      <4>4. \A i \in 1..(q - (p + 1)) : tail[i] \in Int /\ tail[i] = all[i + 1]
        <5> TAKE i \in 1..(q - (p + 1))
        <5>1. i + 1 \in 1..(q - p) /\ p + 1 + i - 1 = p + (i + 1) - 1
            BY <1>3
        <5> QED BY <4>2, <5>1
      <4>5. tail \in Seq(Int) /\ Len(tail) = q - (p + 1)
        <5>1. \A i \in 1..(q - (p + 1)) : StartOf[p + 1 + i - 1] - first \in Int
            BY <4>4
        <5> QED BY <4>1, <5>1
      <4>6. <<o>> \in Seq(Int) /\ Len(<<o>>) = 1 /\ <<o>>[1] = o
          BY <2>1
      <4>7. all[1] = o
        <5>1. 1 \in 1..(q - p) /\ p + 1 - 1 = p
            BY <1>3
        <5> QED BY <5>1
      <4> HIDE DEF tail, all, o
      <4>8. <<o>> \o tail \in Seq(Int) /\ Len(<<o>> \o tail) = q - p
          BY <4>1, <4>5, <4>6, ConcatProperties
      <4>9. ASSUME NEW i \in 1..(q - p) PROVE (<<o>> \o tail)[i] = all[i]
        <5>1. CASE i = 1
            BY <4>1, <4>5, <4>6, <4>7, <5>1, ConcatProperties
        <5>2. CASE i # 1
          <6>1. i - 1 \in 1..(q - (p + 1)) /\ i - 1 + 1 = i /\ i > 1
              BY <5>2
          <6>2. (<<o>> \o tail)[i] = tail[i - 1]
              BY <4>1, <4>5, <4>6, <6>1, ConcatProperties
          <6> QED BY <4>4, <6>1, <6>2
        <5> QED BY <5>1, <5>2
      <4> QED BY <4>3, <4>8, <4>9, SeqEqual
    <3>13. q \in p..(MaxPackets + 1)
        OBVIOUS
    <3> QED BY <3>10, <3>11, <3>12, <3>13 DEF Found
  <2> QED BY <2>3, <2>4
<1> HIDE DEF S
<1>7. n \in S
    BY <1>5, <1>6, NatInductionSet
<1>8. p0 \in p0..(MaxPackets + 1) /\ StartOf[p0] <= first + n /\ first + n <= StartOf[p0] + n
        /\ StartOf[p0] - first = 0
    BY <1>2 DEF first
<1>9. Found(f[StartOf[p0] - first], p0, first, first + n)
    BY <1>7, <1>8 DEF S
<1> QED BY <1>8, <1>9, OffsetsArePush DEF f, first

-------------------------------------------------------------------------------
(* The inductive invariant                                                 *)

\* The queue that holds the peer's first n packets.
Packets(n) == [k \in 1..n |-> [i \in 1..stream[k] |-> StartOf[k] + i - 1]]

BufferInv ==
    /\ mRecvBuffer \in [RecvCells -> 0..Total]
    /\ mReadPos \in Nat /\ mWritePos \in Nat
    /\ mReadPos <= mWritePos /\ mWritePos <= Capacity

\* The receive that is posted has all of the space after the data.
PostedInv ==
    /\ recvStatus \in {"open", "closed", "undefined"}
    /\ recvLen \in 0..Capacity
    /\ recvStatus = "open" => recvLen = Capacity - mWritePos

QueueInv ==
    /\ Len(mQueue) \in 0..MaxPackets
    /\ mQueue = Packets(Len(mQueue))

RecvInv ==
    /\ stream \in Streams
    /\ got \in 0..Total
    /\ BufferInv
    /\ PostedInv
    /\ QueueInv
    /\ BacklogIntact

LEMMA PacketsFacts ==
    ASSUME stream \in Streams, NEW n \in 0..MaxPackets
    PROVE  Packets(n) \in Seq(Seq(0..Total)) /\ Len(Packets(n)) = n
<1>1. ASSUME NEW k \in 1..n PROVE [i \in 1..stream[k] |-> StartOf[k] + i - 1] \in Seq(0..Total)
  <2>1. k \in 1..MaxPackets /\ k \in 1..(MaxPackets + 1) /\ k + 1 \in 1..(MaxPackets + 1)
      OBVIOUS
  <2>2. stream[k] \in Nat /\ StartOf[k] \in Nat /\ StartOf[k] >= 1
          /\ StartOf[k + 1] - 1 <= Total /\ Total \in Nat
    <3>1. stream[k] \in Nat
        BY <2>1, SizePositive
    <3>2. \A i \in 1..(MaxPackets + 1) : StartOf[i] \in Nat /\ StartOf[i] >= 1 /\ StartOf[i] - 1 <= Total
        BY StartBounds
    <3> QED BY <2>1, <3>1, <3>2, StartBounds
  <2>3. StartOf[k + 1] = StartOf[k] + stream[k]
      BY <2>1, StartFacts
  <2>4. ASSUME NEW i \in 1..stream[k] PROVE StartOf[k] + i - 1 \in 0..Total
    <3>1. \A a, b, c, d, j \in Nat : a >= 1 /\ c = a + b /\ c - 1 <= d /\ j <= b => a + j - 1 \in 0..d
        OBVIOUS
    <3>2. StartOf[k + 1] \in Nat /\ i \in Nat /\ i <= stream[k]
        BY <2>2, <2>3
    <3> QED BY <2>2, <2>3, <3>1, <3>2
  <2>5. [i \in 1..stream[k] |-> StartOf[k] + i - 1] \in [1..stream[k] -> 0..Total]
      BY <2>4
  <2>6. \A f, S : \A m \in Nat : f \in [1..m -> S] => f \in Seq(S)
      OBVIOUS
  <2>7. stream[k] \in Nat
      BY <2>2
  <2> QED BY <2>5, <2>6, <2>7
<1>2. n \in Nat
    OBVIOUS
<1> QED BY <1>1, <1>2 DEF Packets

\* A state whose stream is the same has the same packets in it.
LEMMA StreamStays ==
    ASSUME stream' = stream
    PROVE  StartOf' = StartOf /\ Total' = Total
<1>1. StartOf' = StartOf
    BY DEF StartOf
<1> QED BY <1>1 DEF Total

LEMMA RecvInitInv == RecvInit => RecvInv
<1> SUFFICES ASSUME RecvInit PROVE RecvInv
    OBVIOUS
<1>1. stream \in Streams
    BY DEF RecvInit, Streams
<1>2. Total \in Nat
    BY <1>1, StartBounds
<1>3. 0 \in 0..Total /\ 0 \in Nat /\ 0 <= Capacity /\ Capacity \in 0..Capacity /\ Capacity - 0 = Capacity
    BY <1>2, CapacityFacts
<1>4. BufferInv
    BY <1>3 DEF BufferInv, RecvInit
<1>5. PostedInv
    BY <1>3 DEF PostedInv, RecvInit
<1>6. Len(mQueue) = 0
    BY DEF RecvInit
<1>7. QueueInv
  <2>1. Packets(0) = <<>>
      BY DEF Packets
  <2> QED BY <1>6, <2>1 DEF QueueInv, RecvInit
<1>8. BacklogIntact
  <2>1. StartOf[1] = 1
      BY <1>1, StartFacts
  <2>2. \A i \in mReadPos..(mWritePos - 1) : FALSE
      BY DEF RecvInit
  <2>3. got = 0 /\ mWritePos = 0 /\ mReadPos = 0
      BY DEF RecvInit
  <2> QED BY <1>6, <2>1, <2>2, <2>3 DEF BacklogIntact
<1> QED BY <1>1, <1>3, <1>4, <1>5, <1>7, <1>8 DEF RecvInv, RecvInit

-------------------------------------------------------------------------------
(* ProcessReceive                                                          *)

\* The buffer when numBytes have come, and where Push finds packets in it.
Received(numBytes) == [i \in RecvCells |-> IF i \in mWritePos..(mWritePos + numBytes - 1)
                                       THEN got + 1 + i - mWritePos ELSE mRecvBuffer[i]]
Offsets(numBytes) == PacketOffsets(Received(numBytes), mReadPos, numBytes)

LEMMA WrittenFacts ==
    ASSUME RecvInv, recvStatus = "open", NEW n \in 1..Capacity, n <= recvLen, got + n <= Total
    PROVE  /\ mWritePos + n <= Capacity
           /\ Received(n) \in [RecvCells -> 0..Total]
           /\ \A i \in mReadPos..((mWritePos + n) - 1) :
                  i \in RecvCells /\ Received(n)[i] = (got + n) - ((mWritePos + n) - 1 - i)
           /\ StartOf[Len(mQueue) + 1] - 1 = got - (mWritePos - mReadPos)
<1>1. /\ mReadPos \in Nat /\ mWritePos \in Nat /\ mReadPos <= mWritePos /\ got \in Nat
      /\ mRecvBuffer \in [RecvCells -> 0..Total] /\ n \in Nat /\ Total \in Nat /\ Capacity \in Nat
    BY CapacityFacts, StartBounds DEF RecvInv, BufferInv
<1>2. mWritePos + n <= Capacity
    BY <1>1, CapacityFacts DEF RecvInv, PostedInv
<1>3. ASSUME NEW i \in RecvCells PROVE Received(n)[i] \in 0..Total
  <2>1. CASE i \in mWritePos..(mWritePos + n - 1)
    <3>1. got + 1 + i - mWritePos \in 0..Total
        BY <1>1, <2>1
    <3> QED BY <2>1, <3>1 DEF Received
  <2>2. CASE i \notin mWritePos..(mWritePos + n - 1)
      BY <1>1, <2>2 DEF Received
  <2> QED BY <2>1, <2>2
<1>4. Received(n) \in [RecvCells -> 0..Total]
    BY <1>3 DEF Received
<1>5. /\ \A i \in mReadPos..(mWritePos - 1) : mRecvBuffer[i] = got - (mWritePos - 1 - i)
      /\ StartOf[Len(mQueue) + 1] - 1 = got - (mWritePos - mReadPos)
    BY DEF RecvInv, BacklogIntact
<1>6. ASSUME NEW i \in mReadPos..((mWritePos + n) - 1)
      PROVE  i \in RecvCells /\ Received(n)[i] = (got + n) - ((mWritePos + n) - 1 - i)
  <2>1. i \in RecvCells /\ i \in Nat
      BY <1>1, <1>2, CapacityFacts DEF RecvCells
  <2>2. CASE i \in mWritePos..(mWritePos + n - 1)
    <3>1. Received(n)[i] = got + 1 + i - mWritePos
        BY <2>1, <2>2 DEF Received
    <3> QED BY <1>1, <2>1, <3>1
  <2>3. CASE i \notin mWritePos..(mWritePos + n - 1)
    <3>1. Received(n)[i] = mRecvBuffer[i] /\ i \in mReadPos..(mWritePos - 1)
        BY <1>1, <2>1, <2>3 DEF Received
    <3>2. mRecvBuffer[i] = got - (mWritePos - 1 - i)
        BY <1>5, <3>1
    <3> QED BY <1>1, <2>1, <3>1, <3>2
  <2> QED BY <2>2, <2>3
<1> QED BY <1>2, <1>4, <1>5, <1>6

\* One call of ProcessReceive queues packets p .. q - 1 and leaves the read
\* position at packet q.
LEMMA PacketsQueued ==
    ASSUME RecvInv, recvStatus = "open", NEW n \in 1..Capacity, n <= recvLen, got + n <= Total
    PROVE  \E q \in (Len(mQueue) + 1)..(MaxPackets + 1) :
              /\ StartOf[q] - StartOf[Len(mQueue) + 1] \in 0..n
              /\ Processed(Received(n), mReadPos, Offsets(n)) = StartOf[q] - StartOf[Len(mQueue) + 1]
              /\ mQueue \o [i \in DOMAIN Offsets(n) |-> PacketAt(Received(n), mReadPos + Offsets(n)[i])]
                    = Packets(q - 1)
<1> DEFINE buf == Received(n)
           p == Len(mQueue) + 1
           s == Offsets(n)
<1>1. /\ p \in 1..(MaxPackets + 1) /\ Len(mQueue) \in 0..MaxPackets /\ stream \in Streams /\ n \in Nat
      /\ mReadPos \in Nat /\ mWritePos \in Nat /\ mReadPos <= mWritePos /\ got \in Nat
    BY StartBounds DEF RecvInv, QueueInv, BufferInv
<1>2. StartOf[p] \in Nat /\ StartOf[p] >= 1 /\ Total \in Nat /\ StartOf[MaxPackets + 1] = Total + 1
    BY <1>1, StartBounds, StartFacts DEF Total
<1>3. ASSUME NEW o \in 0..(n - 1)
      PROVE  mReadPos + o \in RecvCells /\ buf[mReadPos + o] = StartOf[p] + o
  <2>1. mReadPos + o \in mReadPos..((mWritePos + n) - 1)
      BY <1>1
  <2>2. /\ mReadPos + o \in RecvCells
        /\ buf[mReadPos + o] = (got + n) - ((mWritePos + n) - 1 - (mReadPos + o))
        /\ StartOf[p] - 1 = got - (mWritePos - mReadPos)
      BY <2>1, WrittenFacts
  <2> HIDE DEF buf, p
  <2>3. o \in Nat /\ n \in Nat
      BY <1>1
  <2>4. \A r, w, a, g, f \in Nat :
            f - 1 = g - (w - r) => (g + n) - ((w + n) - 1 - (r + a)) = f + a
      BY <2>3
  <2>5. (got + n) - ((mWritePos + n) - 1 - (mReadPos + o)) = StartOf[p] + o
    <3>1. mReadPos \in Nat /\ mWritePos \in Nat /\ got \in Nat /\ StartOf[p] \in Nat
        BY <1>1, <1>2
    <3>2. StartOf[p] - 1 = got - (mWritePos - mReadPos)
        BY <2>2
    <3> QED BY <2>3, <2>4, <3>1, <3>2
  <2> QED BY <2>2, <2>5
<1>4. StartOf[p] + n <= StartOf[MaxPackets + 1]
  <2>1. StartOf[p] - 1 = got - (mWritePos - mReadPos)
      BY WrittenFacts
  <2> HIDE DEF p
  <2> QED BY <1>1, <1>2, <2>1
<1> HIDE DEF buf, p
<1>5. Found(PacketOffsets(buf, mReadPos, n), p, StartOf[p], StartOf[p] + n)
    BY <1>1, <1>3, <1>4, PushFinds
<1>6. PICK q \in p..(MaxPackets + 1) :
          /\ StartOf[q] <= StartOf[p] + n
          /\ s = [i \in 1..(q - p) |-> StartOf[p + i - 1] - StartOf[p]]
    BY <1>5 DEF Found, Offsets, buf
<1> HIDE DEF s
\* Packet k of those found begins at its offset in the window, ends in it and
\* is copied whole.
<1>7. ASSUME NEW k \in p..(q - 1)
      PROVE  /\ k \in 1..MaxPackets
             /\ StartOf[k] - StartOf[p] \in 0..(n - 1)
             /\ StartOf[k + 1] - StartOf[p] <= n
             /\ HeaderField(buf[mReadPos + (StartOf[k] - StartOf[p])]) = stream[k]
             /\ PacketAt(buf, mReadPos + (StartOf[k] - StartOf[p]))
                    = [i \in 1..stream[k] |-> StartOf[k] + i - 1]
  <2> DEFINE o == StartOf[k] - StartOf[p]
  <2>1. /\ k \in 1..MaxPackets /\ k \in 1..(MaxPackets + 1) /\ k + 1 \in 1..(MaxPackets + 1)
        /\ q \in 1..(MaxPackets + 1) /\ k + 1 <= q /\ p <= k
      BY <1>1
  <2>2. stream[k] \in Nat /\ stream[k] >= 1 /\ StartOf[k] \in Nat /\ StartOf[k + 1] \in Nat
          /\ StartOf[q] \in Nat
    <3>1. stream[k] \in Nat /\ stream[k] >= 1
        BY <1>1, <2>1, SizePositive
    <3>2. \A i \in 1..(MaxPackets + 1) : StartOf[i] \in Nat
        BY <1>1, StartBounds
    <3>3. StartOf[k] \in Nat /\ StartOf[k + 1] \in Nat /\ StartOf[q] \in Nat
        BY <2>1, <3>2
    <3> QED BY <3>1, <3>3
  <2>3. StartOf[k + 1] = StartOf[k] + stream[k]
      BY <1>1, <2>1, StartFacts
  <2>4. StartOf[p] <= StartOf[k] /\ StartOf[k + 1] <= StartOf[q]
    <3>1. StartOf[p] + (k - p) <= StartOf[k] /\ StartOf[k + 1] + (q - (k + 1)) <= StartOf[q]
        BY <1>1, <2>1, StartGrows
    <3>2. k - p >= 0 /\ q - (k + 1) >= 0 /\ k - p \in Int /\ q - (k + 1) \in Int
        BY <1>1, <2>1
    <3> QED BY <1>2, <2>2, <3>1, <3>2
  <2>5. o \in 0..(n - 1) /\ StartOf[k + 1] - StartOf[p] <= n /\ o + stream[k] <= n
    <3>1. StartOf[q] <= StartOf[p] + n
        BY <1>6
    <3>2. \A a, b, c, d, e \in Nat :
              (a <= b /\ c = b + d /\ c <= e /\ e <= a + n /\ d >= 1)
                  => b - a \in 0..(n - 1) /\ c - a <= n /\ b - a + d <= n
        BY <1>1
    <3> QED BY <1>2, <2>2, <2>3, <2>4, <3>1, <3>2
  <2>6. buf[mReadPos + o] = StartOf[k]
    <3>1. buf[mReadPos + o] = StartOf[p] + o
        BY <1>3, <2>5
    <3> QED BY <1>2, <2>2, <3>1
  <2>7. HeaderField(buf[mReadPos + o]) = stream[k]
      BY <1>1, <2>1, <2>6, HeaderFacts
  <2> HIDE DEF o
  <2>8. ASSUME NEW i \in 1..stream[k]
        PROVE  (IF mReadPos + o + i - 1 \in RecvCells THEN buf[mReadPos + o + i - 1] ELSE 0) = StartOf[k] + i - 1
    <3>1. o + i - 1 \in 0..(n - 1) /\ mReadPos + (o + i - 1) = mReadPos + o + i - 1
        BY <1>1, <2>2, <2>5
    <3>2. mReadPos + o + i - 1 \in RecvCells /\ buf[mReadPos + o + i - 1] = StartOf[p] + (o + i - 1)
        BY <1>3, <3>1
    <3>3. StartOf[p] + (o + i - 1) = StartOf[k] + i - 1
        BY <1>2, <2>2 DEF o
    <3> QED BY <3>2, <3>3
  <2>9. PacketAt(buf, mReadPos + o) = [i \in 1..stream[k] |-> StartOf[k] + i - 1]
      BY <2>7, <2>8 DEF PacketAt
  <2> QED BY <2>1, <2>5, <2>7, <2>9 DEF o
<1>8. Len(s) = q - p /\ DOMAIN s = 1..(q - p) /\ q - p \in Nat
    BY <1>1, <1>6
<1>9. StartOf[q] - StartOf[p] \in 0..n
  <2>1. q \in 1..(MaxPackets + 1) /\ p <= q
      BY <1>1
  <2>2. StartOf[p] + (q - p) <= StartOf[q] /\ StartOf[q] \in Nat
      BY <1>1, <2>1, StartGrows, StartBounds
  <2>3. StartOf[q] <= StartOf[p] + n
      BY <1>6
  <2>4. \A a, b, d \in Nat : a + d <= b /\ b <= a + n => b - a \in 0..n
      BY <1>1
  <2> QED BY <1>2, <1>8, <2>2, <2>3, <2>4
<1>10. Processed(buf, mReadPos, s) = StartOf[q] - StartOf[p]
  <2>1. CASE q = p
    <3>1. s = <<>> /\ StartOf[q] - StartOf[p] = 0
        BY <1>1, <1>2, <1>6, <2>1
    <3> QED BY <3>1 DEF Processed
  <2>2. CASE q # p
    <3>1. q - 1 \in p..(q - 1) /\ q - p \in 1..(q - p) /\ p + (q - p) - 1 = q - 1
        BY <1>1, <2>2
    <3>2. s # <<>> /\ s[Len(s)] = StartOf[q - 1] - StartOf[p]
        BY <1>6, <1>8, <2>2, <3>1
    <3>3. HeaderField(buf[mReadPos + (StartOf[q - 1] - StartOf[p])]) = stream[q - 1] /\ q - 1 \in 1..MaxPackets
        BY <1>7, <3>1
    <3>4. Processed(buf, mReadPos, s) = StartOf[q - 1] - StartOf[p] + stream[q - 1]
        BY <3>2, <3>3 DEF Processed
    <3>5. StartOf[q] = StartOf[q - 1] + stream[q - 1]
      <4>1. q - 1 + 1 = q
          OBVIOUS
      <4> QED BY <1>1, <3>3, <4>1, StartFacts
    <3>6. StartOf[q - 1] \in Nat /\ stream[q - 1] \in Nat
      <4>1. q - 1 \in 1..(MaxPackets + 1)
          BY <3>3
      <4>2. StartOf[q - 1] \in Nat
          BY <1>1, <4>1, StartFacts
      <4> QED BY <1>1, <3>3, <4>2, SizeFacts
    <3> QED BY <1>2, <3>4, <3>5, <3>6
  <2> QED BY <2>1, <2>2
<1>11. mQueue \o [i \in DOMAIN s |-> PacketAt(buf, mReadPos + s[i])] = Packets(q - 1)
  <2> DEFINE new == [i \in DOMAIN s |-> PacketAt(buf, mReadPos + s[i])]
             T == Seq(0..Total)
             k == Len(mQueue)
  <2>1. mQueue = Packets(k) /\ k \in 0..MaxPackets /\ p = k + 1
      BY DEF RecvInv, QueueInv, p
  <2>2. q - 1 \in 0..MaxPackets /\ q - 1 = k + (q - p)
      BY <1>1, <2>1
  <2>3. /\ mQueue \in Seq(T) /\ Packets(q - 1) \in Seq(T) /\ Len(Packets(q - 1)) = k + (q - p)
      BY <1>1, <2>1, <2>2, PacketsFacts
  <2>4. ASSUME NEW i \in 1..(q - p) PROVE new[i] = Packets(q - 1)[k + i]
    <3>1. p + i - 1 \in p..(q - 1) /\ p + i - 1 = k + i /\ k + i \in 1..(q - 1)
        BY <1>1, <2>1
    <3>2. new[i] = PacketAt(buf, mReadPos + (StartOf[p + i - 1] - StartOf[p]))
        BY <1>6, <1>8
    <3>3. new[i] = [b \in 1..stream[p + i - 1] |-> StartOf[p + i - 1] + b - 1]
        BY <1>7, <3>1, <3>2
    <3> HIDE DEF new
    <3> QED BY <3>1, <3>3 DEF Packets
  <2>5. new \in Seq(T) /\ Len(new) = q - p
    <3>1. ASSUME NEW i \in 1..(q - p) PROVE new[i] \in T
      <4>1. k + i \in 1..Len(Packets(q - 1))
          BY <2>1, <2>2, <2>3
      <4> HIDE DEF new, T
      <4> QED BY <2>3, <2>4, <4>1, ElementOfSeq
    <3>2. \A i \in 1..(q - p) : PacketAt(buf, mReadPos + s[i]) \in T
        BY <1>8, <3>1
    <3> HIDE DEF T
    <3> QED BY <1>8, <3>2
  <2> HIDE DEF new, T, k
  <2>6. k \in Nat /\ q - p \in Nat /\ Len(mQueue) = k
      BY <1>8, <2>1 DEF k
  <2>7. mQueue \o new \in Seq(T) /\ Len(mQueue \o new) = k + (q - p)
      BY <2>3, <2>5, <2>6, ConcatProperties
  <2>8. ASSUME NEW i \in 1..(k + (q - p)) PROVE (mQueue \o new)[i] = Packets(q - 1)[i]
    <3>1. CASE i <= k
      <4>1. (mQueue \o new)[i] = mQueue[i]
          BY <2>3, <2>5, <2>6, <3>1, ConcatProperties
      <4>2. i \in 1..k /\ i \in 1..(q - 1)
          BY <2>2, <2>6, <3>1
      <4> QED BY <2>1, <4>1, <4>2 DEF Packets
    <3>2. CASE ~(i <= k)
      <4>1. i - k \in 1..(q - p) /\ k + (i - k) = i
          BY <2>6, <3>2
      <4>2. (mQueue \o new)[i] = new[i - k]
          BY <2>3, <2>5, <2>6, <3>2, ConcatProperties
      <4> QED BY <2>4, <4>1, <4>2
    <3> QED BY <3>1, <3>2
  <2>9. mQueue \o new = Packets(q - 1)
      BY <2>3, <2>7, <2>8, SeqEqual
  <2> QED BY <2>9 DEF new
<1> QED BY <1>9, <1>10, <1>11 DEF buf, s, p

\* Cells r .. w - 1 of buf hold the last w - r of the first g bytes.
Holds(buf, r, w, g) == \A i \in r..(w - 1) : i \in RecvCells /\ buf[i] = g - (w - 1 - i)

\* A receive is posted for all the space after w - r bytes that end at byte g.
Reposted(r, w, g) ==
    /\ mRecvBuffer' \in [RecvCells -> 0..Total]
    /\ mReadPos' \in Nat /\ mWritePos' \in Nat /\ mReadPos' <= mWritePos' /\ mWritePos' <= Capacity
    /\ mWritePos' - mReadPos' = w - r
    /\ recvLen' = Capacity - mWritePos'
    /\ recvStatus' \in {"open", "undefined"}
    /\ \/ \A i \in mReadPos'..(mWritePos' - 1) : mRecvBuffer'[i] = g - (mWritePos' - 1 - i)
       \/ recvStatus' = "undefined" /\ 2 * (w - r) > Capacity - Size

\* What ProcessReceive leaves: whichever branch Clear takes, the bytes from the
\* read position r on are still those of packet q and after, unless memcpy has
\* lost them.  It overlaps only on a backlog of more than half of what fills the
\* buffer before Clear moves anything.
LEMMA ClearKeeps ==
    ASSUME stream \in Streams, NEW buf \in [RecvCells -> 0..Total], NEW r \in Nat, NEW w \in Nat,
           r <= w, w <= Capacity, NEW g \in Nat, recvStatus = "open",
           Holds(buf, r, w, g), ClearAndReceive(buf, r, w), stream' = stream
    PROVE  Reposted(r, w, g)
<1> USE CapacityFacts DEF Holds, Reposted
<1>1. CASE w - r = 0
  <2>1. mRecvBuffer' = buf /\ mReadPos' = 0 /\ mWritePos' = 0 /\ recvLen' = Capacity - 0
          /\ recvStatus' = recvStatus
      BY <1>1 DEF ClearAndReceive, GetDataSize, GetRecvFreeSize
  <2>2. \A i \in mReadPos'..(mWritePos' - 1) : FALSE
      BY <2>1
  <2> QED BY <1>1, <2>1, <2>2
<1>2. CASE w - r # 0 /\ Capacity - w < Size
  <2>1. /\ mReadPos' = 0 /\ mWritePos' = w - r
        /\ recvLen' = Capacity - (w - r)
        /\ \/ mRecvBuffer' = Moved(buf, r, w - r) /\ recvStatus' = recvStatus
           \/ /\ Overlaps(r, w - r) /\ mRecvBuffer' = Scrambled(buf, w - r)
              /\ recvStatus' = "undefined"
      BY <1>2 DEF ClearAndReceive, GetDataSize, GetRecvFreeSize, TooLittleLeft
  <2>2. w - r \in Nat /\ w - r <= Capacity
      OBVIOUS
  <2>3. ASSUME NEW i \in 0..(w - r - 1) PROVE i \in RecvCells /\ Moved(buf, r, w - r)[i] = g - (w - r - 1 - i)
    <3>1. i + r \in r..(w - 1) /\ i < w - r /\ i \in RecvCells
        BY DEF RecvCells
    <3>2. buf[i + r] = g - (w - 1 - (i + r))
        BY <3>1
    <3>3. Moved(buf, r, w - r)[i] = buf[i + r]
        BY <3>1 DEF Moved
    <3> QED BY <3>1, <3>2, <3>3
  <2>4. ASSUME NEW i \in RecvCells PROVE Moved(buf, r, w - r)[i] \in 0..Total
    <3>1. CASE i < w - r
      <4>1. i \in Nat /\ i + r \in r..(w - 1)
          BY <3>1 DEF RecvCells
      <4>2. i + r \in RecvCells
          BY <4>1
      <4> QED BY <3>1, <4>2 DEF Moved
    <3>2. CASE ~(i < w - r)
        BY <3>2 DEF Moved
    <3> QED BY <3>1, <3>2
  <2>5. Moved(buf, r, w - r) \in [RecvCells -> 0..Total]
      BY <2>4 DEF Moved
  <2>6. CASE mRecvBuffer' = Moved(buf, r, w - r) /\ recvStatus' = recvStatus
    <3>1. \A i \in mReadPos'..(mWritePos' - 1) : mRecvBuffer'[i] = g - (mWritePos' - 1 - i)
        BY <2>1, <2>3, <2>6
    <3> QED BY <2>1, <2>2, <2>5, <2>6, <3>1
  <2>7. CASE Overlaps(r, w - r) /\ mRecvBuffer' = Scrambled(buf, w - r) /\ recvStatus' = "undefined"
    <3>1. 0 \in 0..Total
        BY StartBounds
    <3>2. Scrambled(buf, w - r) \in [RecvCells -> 0..Total]
        BY <3>1 DEF Scrambled
    <3>3. 2 * (w - r) > Capacity - Size
      <4>1. w - r > r /\ Capacity - w < Size
          BY <1>2, <2>7 DEF Overlaps
      <4> QED BY <4>1
    <3> QED BY <2>1, <2>2, <2>7, <3>2, <3>3
  <2> QED BY <2>1, <2>6, <2>7
<1>3. CASE w - r # 0 /\ ~(Capacity - w < Size)
  <2>1. mRecvBuffer' = buf /\ mReadPos' = r /\ mWritePos' = w /\ recvLen' = Capacity - w
          /\ recvStatus' = recvStatus
      BY <1>3 DEF ClearAndReceive, GetDataSize, GetRecvFreeSize, TooLittleLeft
  <2> QED BY <2>1
<1> QED BY <1>1, <1>2, <1>3

LEMMA ReceiveInv == ASSUME RecvInv, NEW n \in 1..Capacity, Receive(n) PROVE RecvInv'
<1> DEFINE buf == Received(n)
           w == mWritePos + n
           p == Len(mQueue) + 1
           done == Processed(buf, mReadPos, Offsets(n))
           queue == mQueue \o [i \in DOMAIN Offsets(n) |-> PacketAt(buf, mReadPos + Offsets(n)[i])]
<1>1. recvStatus = "open" /\ n <= recvLen /\ got + n <= Total /\ got' = got + n /\ stream' = stream
    BY DEF Receive
<1>2. /\ mReadPos \in Nat /\ mWritePos \in Nat /\ mReadPos <= mWritePos /\ got \in Nat /\ n \in Nat
      /\ Capacity \in Nat /\ stream \in Streams /\ Total \in Nat /\ p \in 1..(MaxPackets + 1)
    BY CapacityFacts, StartBounds DEF RecvInv, BufferInv, QueueInv
<1>3. /\ w <= Capacity
      /\ buf \in [RecvCells -> 0..Total]
      /\ \A i \in mReadPos..(w - 1) : i \in RecvCells /\ buf[i] = (got + n) - (w - 1 - i)
      /\ StartOf[p] - 1 = got - (mWritePos - mReadPos)
    BY <1>1, WrittenFacts
<1>4. PICK q \in p..(MaxPackets + 1) :
          /\ StartOf[q] - StartOf[p] \in 0..n
          /\ done = StartOf[q] - StartOf[p]
          /\ queue = Packets(q - 1)
    BY <1>1, PacketsQueued
<1>5. done \in Nat /\ done <= n
    BY <1>4
<1>6. w \in Nat /\ n <= Capacity - mWritePos /\ done <= w - mReadPos
    BY <1>2, <1>3, <1>5
\* Neither OnWritten nor OnRead refuses.
<1>7. mQueue' = queue /\ ClearAndReceive(buf, mReadPos + done, w)
  <2>1. OnWritten(mReadPos, mWritePos, n).ok /\ OnWritten(mReadPos, mWritePos, n).pos = w
      BY <1>6 DEF OnWritten, GetRecvFreeSize
  <2>2. OnRead(mReadPos, w, done).ok /\ OnRead(mReadPos, w, done).pos = mReadPos + done
      BY <1>6 DEF OnRead, GetDataSize
  <2>3. Offsets(n) = PacketOffsets(buf, mReadPos, Window(n, GetDataSize(mReadPos, w)))
      BY DEF Offsets, Window
  <2>4. buf = [i \in RecvCells |-> IF i \in mWritePos..(mWritePos + n - 1)
                               THEN got + 1 + i - mWritePos ELSE mRecvBuffer[i]]
      BY DEF Received
  <2> HIDE DEF buf, w
  <2> QED BY <2>1, <2>2, <2>3, <2>4 DEF Receive
<1> DEFINE r == mReadPos + done
           g == got + n
<1>8. r \in Nat /\ r <= w /\ g \in Nat /\ \A i \in r..(w - 1) : i \in mReadPos..(w - 1)
    BY <1>2, <1>5, <1>6
<1>9. ClearAndReceive(buf, r, w)
    BY <1>7
<1> HIDE DEF buf, w, p, done, queue, r, g
<1>10. Holds(buf, r, w, g)
    BY <1>3, <1>8 DEF g, Holds
<1>11. Reposted(r, w, g)
  <2>1. /\ stream \in Streams /\ buf \in [RecvCells -> 0..Total] /\ w <= Capacity /\ recvStatus = "open"
        /\ stream' = stream /\ ClearAndReceive(buf, r, w)
        /\ r \in Nat /\ w \in Nat /\ r <= w /\ g \in Nat
      BY <1>1, <1>2, <1>3, <1>6, <1>9, <1>8
  <2> QED BY <2>1, <1>10, ClearKeeps
<1>12. /\ mRecvBuffer' \in [RecvCells -> 0..Total]
       /\ mReadPos' \in Nat /\ mWritePos' \in Nat /\ mReadPos' <= mWritePos' /\ mWritePos' <= Capacity
       /\ mWritePos' - mReadPos' = w - r
       /\ recvLen' = Capacity - mWritePos'
       /\ recvStatus' \in {"open", "undefined"}
       /\ \/ \A i \in mReadPos'..(mWritePos' - 1) : mRecvBuffer'[i] = g - (mWritePos' - 1 - i)
          \/ recvStatus' = "undefined" /\ 2 * (w - r) > Capacity - Size
    BY <1>11 DEF Reposted
<1>13. StartOf' = StartOf /\ Total' = Total
    BY <1>1, StreamStays
<1>14. stream' \in Streams /\ got' \in 0..Total'
    BY <1>1, <1>2, <1>13
<1>15. BufferInv'
    BY <1>12, <1>13 DEF BufferInv
<1>16. PostedInv'
  <2>1. mWritePos' \in Nat /\ mWritePos' <= Capacity /\ recvLen' = Capacity - mWritePos'
          /\ recvStatus' \in {"open", "undefined"}
      BY <1>12
  <2>2. recvLen' \in 0..Capacity
    <3>1. \A a, b \in Nat : a <= b => b - a \in 0..b
        OBVIOUS
    <3> QED BY <1>2, <2>1, <3>1
  <2> QED BY <2>1, <2>2 DEF PostedInv, Capacity
<1>17. q \in 1..(MaxPackets + 1) /\ q - 1 \in 0..MaxPackets /\ q - 1 + 1 = q
    BY <1>2, <1>4
<1>18. mQueue' = Packets(q - 1) /\ Len(mQueue') = q - 1
    BY <1>2, <1>4, <1>7, <1>17, PacketsFacts DEF queue
<1>19. QueueInv'
  <2>1. mQueue' = [k \in 1..(q - 1) |-> [i \in 1..stream'[k] |-> StartOf'[k] + i - 1]]
      BY <1>1, <1>13, <1>18 DEF Packets
  <2> QED BY <1>17, <1>18, <2>1 DEF QueueInv, Packets
<1>20. BacklogIntact'
  <2>1. StartOf'[Len(mQueue') + 1] - 1 = got' - (mWritePos' - mReadPos')
    <3>1. StartOf[q] = StartOf[p] + done /\ StartOf[p] \in Nat /\ StartOf[q] \in Nat
        BY <1>2, <1>4, <1>5, <1>17, StartFacts
    <3>2. w - r = (mWritePos + n) - (mReadPos + done)
        BY DEF w, r
    <3>3. StartOf[q] - 1 = (got + n) - (w - r)
        BY <1>2, <1>3, <1>5, <3>1, <3>2
    <3>4. StartOf'[Len(mQueue') + 1] = StartOf[q]
        BY <1>13, <1>17, <1>18
    <3> QED BY <1>1, <1>12, <3>3, <3>4
  <2>2. Len(mQueue') <= MaxPackets
      BY <1>17, <1>18
  \* Bytes are lost only where the next packet is complete or huge.
  <2>3. CASE recvStatus' = "undefined" /\ 2 * (w - r) > Capacity - Size
    <3>1. w - r \in Nat /\ mWritePos' - mReadPos' = w - r /\ w - r > 0
      <4>1. w \in Nat /\ r \in Nat /\ r <= w
          BY <1>6, <1>8
      <4>2. w - r \in Nat
          BY <4>1
      <4>3. mWritePos' - mReadPos' = w - r
          BY <1>12
      <4>4. 2 * (w - r) > 0
          BY <2>3, <4>2, CapacityFacts
      <4> QED BY <4>2, <4>3, <4>4
    <3>2. q # MaxPackets + 1
      <4> SUFFICES ASSUME q = MaxPackets + 1 PROVE FALSE
          OBVIOUS
      <4>1. StartOf[q] - 1 = Total
          BY DEF Total
      <4>2. StartOf'[Len(mQueue') + 1] = StartOf[q]
          BY <1>13, <1>17, <1>18
      <4> QED BY <1>1, <1>2, <2>1, <3>1, <4>1, <4>2
    <3>3. q \in 1..MaxPackets /\ NextPacket' = stream[q]
        BY <1>1, <1>17, <1>18, <3>2 DEF NextPacket
    <3>4. stream[q] \in Nat /\ stream[q] >= PacketHeaderSize
        BY <1>2, <3>3, SizeFacts
    <3>5. CASE stream[q] <= w - r
      <4>1. w - r >= PacketHeaderSize
          BY <3>1, <3>4, <3>5
      <4>2. NextIsComplete'
          BY <3>1, <3>3, <3>5, <4>1 DEF NextIsComplete, Complete
      <4> QED BY <2>1, <2>2, <2>3, <4>2 DEF BacklogIntact
    <3>6. CASE ~(stream[q] <= w - r)
      <4>1. 2 * stream[q] > Capacity - Size
          BY <2>3, <3>1, <3>4, <3>6, CapacityFacts
      <4>2. NextIsHuge'
          BY <3>3, <4>1 DEF NextIsHuge, Capacity
      <4> QED BY <2>1, <2>2, <2>3, <4>2 DEF BacklogIntact
    <3> QED BY <3>5, <3>6
  <2>4. CASE \A i \in mReadPos'..(mWritePos' - 1) : mRecvBuffer'[i] = g - (mWritePos' - 1 - i)
    <3>1. \A i \in mReadPos'..(mWritePos' - 1) : mRecvBuffer'[i] = got' - (mWritePos' - 1 - i)
        BY <1>1, <2>4 DEF g
    <3> QED BY <2>1, <2>2, <3>1 DEF BacklogIntact
  <2> QED BY <1>12, <2>3, <2>4
<1> QED BY <1>14, <1>15, <1>16, <1>19, <1>20 DEF RecvInv

LEMMA RecvNextInv == RecvInv /\ [RecvNext]_recvVars => RecvInv'
<1> SUFFICES ASSUME RecvInv, [RecvNext]_recvVars PROVE RecvInv'
    OBVIOUS
<1>1. ASSUME NEW n \in 1..Capacity, Receive(n) PROVE RecvInv'
    BY <1>1, ReceiveInv
<1> DEFINE Same == /\ stream' = stream /\ got' = got /\ mRecvBuffer' = mRecvBuffer /\ mReadPos' = mReadPos
                   /\ mWritePos' = mWritePos /\ recvLen' = recvLen /\ mQueue' = mQueue
<1>2. ASSUME Same, recvStatus' = recvStatus \/ (recvStatus = "open" /\ recvStatus' = "closed") PROVE RecvInv'
  <2>1. StartOf' = StartOf /\ Total' = Total
      BY <1>2, StreamStays
  <2>2. stream' \in Streams /\ got' \in 0..Total' /\ BufferInv'
      BY <1>2, <2>1 DEF RecvInv, BufferInv
  <2>3. PostedInv'
      BY <1>2 DEF RecvInv, PostedInv
  <2>4. QueueInv'
      BY <1>2, <2>1 DEF RecvInv, QueueInv, Packets
  <2>5. BacklogIntact'
    <3>1. NextPacket' = NextPacket
        BY <1>2 DEF NextPacket
    <3>2. NextIsComplete' <=> NextIsComplete
        BY <1>2, <3>1 DEF NextIsComplete
    <3>3. NextIsHuge' <=> NextIsHuge
        BY <3>1 DEF NextIsHuge, Capacity
    <3>4. CASE recvStatus' = recvStatus
        BY <1>2, <2>1, <3>2, <3>3, <3>4 DEF RecvInv, BacklogIntact
    <3>5. CASE recvStatus = "open" /\ recvStatus' = "closed"
        BY <1>2, <2>1, <3>5 DEF RecvInv, BacklogIntact
    <3> QED BY <1>2, <3>4, <3>5
  <2> QED BY <2>2, <2>3, <2>4, <2>5 DEF RecvInv
<1>3. CASE ReceiveNothing
    BY <1>2, <1>3 DEF ReceiveNothing
<1>4. CASE UNCHANGED recvVars
    BY <1>2, <1>4 DEF recvVars
<1> QED BY <1>1, <1>3, <1>4 DEF RecvNext

\* The parts of the receive path's invariant hold together.
THEOREM RecvInvHolds == RecvSpec => []RecvInv
BY RecvInitInv, RecvNextInv, PTL DEF RecvSpec

\* The positions, the buffer and the queue have their types, and the status is
\* never "refused": OnWritten and OnRead never refuse what ProcessReceive
\* passes them, so the two DisconnectAsync calls of ProcessReceive that
\* follow them are not reached.
THEOREM RecvTypeCorrect == RecvSpec => [](RecvTypeOK /\ recvStatus # "refused")
<1>1. RecvInv => RecvTypeOK /\ recvStatus # "refused"
  <2> SUFFICES ASSUME RecvInv PROVE RecvTypeOK /\ recvStatus # "refused"
      OBVIOUS
  <2>1. mQueue \in Seq(Seq(0..Total))
      BY PacketsFacts DEF RecvInv, QueueInv
  <2>2. 0 <= mReadPos /\ mReadPos <= mWritePos /\ mWritePos <= Capacity
          /\ mRecvBuffer \in [RecvCells -> 0..Total]
      BY DEF RecvInv, BufferInv
  <2>3. recvStatus \in {"open", "closed", "refused", "undefined"} /\ recvStatus # "refused"
          /\ recvLen \in 0..Capacity
      BY DEF RecvInv, PostedInv
  <2> QED BY <2>1, <2>2, <2>3 DEF RecvTypeOK, RecvInv, Streams
<1> QED BY <1>1, RecvInvHolds, PTL

\* BacklogIntact: however the stream is cut and however often Clear moves the
\* bytes to the front, the bytes between mReadPos and mWritePos are the peer's
\* bytes after the packets queued, until memcpy overlaps (Buffer.cpp:51), which
\* takes a packet left unqueued though complete or one above half of the space,
\* for any stream of packets no shorter than a header and no longer than the buffer.
THEOREM BacklogIntactHolds == RecvSpec => []BacklogIntact
<1>1. RecvInv => BacklogIntact
    BY DEF RecvInv
<1> QED BY <1>1, RecvInvHolds, PTL

\* WholePackets: the k-th packet PacketQueue::Push queues is the k-th packet of
\* the peer, whole, for the same streams.
THEOREM WholePacketsHolds == RecvSpec => []WholePackets
<1>1. RecvInv => WholePackets
  <2> SUFFICES ASSUME RecvInv, NEW k \in DOMAIN mQueue
               PROVE  mQueue[k] = [i \in 1..stream[k] |-> StartOf[k] + i - 1]
      BY DEF WholePackets
  <2>1. mQueue = Packets(Len(mQueue))
      BY DEF RecvInv, QueueInv
  <2>2. k \in 1..Len(mQueue)
      BY <2>1 DEF Packets
  <2> QED BY <2>1, <2>2 DEF Packets
<1> QED BY <1>1, RecvInvHolds, PTL
===============================================================================
