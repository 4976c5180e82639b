------------------------- MODULE FileTransfer_proofs -------------------------
(***************************************************************************)
(* Theorems about FileTransfer: for every file, hash, buffer size and      *)
(* window, what sends and receives that are cut short can and cannot       *)
(* damage.                                                                 *)
(***************************************************************************)
EXTENDS FileTransfer, SequenceTheorems, TLAPS

(* The size survives its way over the network. *)
LEMMA DecodeEncode ==
  ASSUME NEW n \in Nat, n <= MaxLong
  PROVE  /\ Encode(n) \in Seq(Byte) /\ Len(Encode(n)) = 4
         /\ Decode(Encode(n)) = n
<1>1. n \div 16777216 \in Byte
  BY SMT DEF Byte, MaxLong
<1>2. /\ (n \div 65536) % 256 \in Byte /\ (n \div 256) % 256 \in Byte
      /\ n % 256 \in Byte
  BY SMT DEF Byte
<1>3. n = 256 * (n \div 256) + (n % 256)
  BY SMT
<1>4. n \div 256 = 256 * (n \div 65536) + ((n \div 256) % 256)
  BY SMT
<1>5. n \div 65536 = 256 * (n \div 16777216) + ((n \div 65536) % 256)
  BY SMT
<1>6. n = 16777216 * (n \div 16777216) + 65536 * ((n \div 65536) % 256)
            + 256 * ((n \div 256) % 256) + (n % 256)
  BY <1>3, <1>4, <1>5, SMT
<1>7. /\ Encode(n) \in Seq(Byte) /\ Len(Encode(n)) = 4
      /\ Encode(n)[1] = n \div 16777216 /\ Encode(n)[2] = (n \div 65536) % 256
      /\ Encode(n)[3] = (n \div 256) % 256 /\ Encode(n)[4] = n % 256
  BY <1>1, <1>2, SMT DEF Encode
<1> QED
  BY <1>6, <1>7, SMT DEF Decode

LEMMA FilledType ==
  ASSUME NEW n \in Nat, NEW byte \in Byte
  PROVE  Filled(n, byte) \in Seq(Byte) /\ Len(Filled(n, byte)) = n
<1>1. Filled(n, byte) \in [1 .. n -> Byte]
  BY DEF Filled
<1>2. DOMAIN Filled(n, byte) = 1 .. n
  BY DEF Filled
<1> QED
  BY <1>1, <1>2

LEMMA ZeroIsByte == 0 \in Byte
  BY DEF Byte

LEMMA FourBytes ==
  ASSUME NEW s \in Seq(Byte), Len(s) = 4
  PROVE  s[1] \in Nat /\ s[2] \in Nat /\ s[3] \in Nat /\ s[4] \in Nat
<1>1. \A i \in 1 .. Len(s) : s[i] \in Byte
  BY ElementOfSeq
<1>2. Byte \subseteq Nat
  BY DEF Byte
<1>3. \A i \in 1 .. 4 : s[i] \in Nat
  BY <1>1, <1>2, Zenon
<1>4. 1 \in 1 .. 4 /\ 2 \in 1 .. 4 /\ 3 \in 1 .. 4 /\ 4 \in 1 .. 4
  OBVIOUS
<1> QED
  BY <1>3, <1>4, Zenon

LEMMA DecodeType ==
  ASSUME NEW s \in Seq(Byte), Len(s) = 4
  PROVE  Decode(s) \in Nat
<1>1. s[1] \in Nat /\ s[2] \in Nat /\ s[3] \in Nat /\ s[4] \in Nat
  BY FourBytes
<1> QED
  BY <1>1, SMT DEF Decode

LEMMA MapBytes ==
  ASSUME NEW n \in Nat, NEW s, DOMAIN s = 1 .. n, s = [i \in 1 .. n |-> s[i]],
         \A i \in 1 .. n : s[i] \in Byte
  PROVE  s \in Seq(Byte) /\ Len(s) = n
  OBVIOUS

LEMMA ConcatBytes ==
  ASSUME NEW s \in Seq(Byte), NEW t \in Seq(Byte)
  PROVE  /\ s \o t \in Seq(Byte) /\ Len(s \o t) = Len(s) + Len(t)
         /\ \A i \in 1 .. Len(s) : (s \o t)[i] = s[i]
         /\ \A i \in 1 .. Len(t) : (s \o t)[Len(s) + i] = t[i]
  OBVIOUS

LEMMA ChunkBounds ==
  ASSUME NEW left \in Nat, left > 0
  PROVE  ChunkOf(left) \in 1 .. left /\ ChunkOf(left) <= Cache /\ ChunkOf(left) \in Nat
  BY CacheAssumption DEF ChunkOf

-----------------------------------------------------------------------------
(* TypeOK *)

TypeInv ==
  /\ TypeOK
  /\ sPc = "data" => sLeft > 0
  /\ rPc = "header" => Len(rBuf) = 4
  /\ rPc = "data" => rLeft > 0 /\ Len(rBuf) = Cache

LEMMA TypeInit == Init => TypeInv
<1> SUFFICES ASSUME Init PROVE TypeInv
  OBVIOUS
<1>1. Encode(Len(File)) \in Seq(Byte) /\ Len(Encode(Len(File))) = 4
  BY FileAssumption, DecodeEncode
<1>2. Filled(4, 0) \in Seq(Byte) /\ Len(Filled(4, 0)) = 4
  BY FilledType, ZeroIsByte
<1>3. Len(File) \in Nat /\ <<>> \in Seq(Byte)
  BY FileAssumption
<1>4. wire \in Seq(Byte) /\ sBuf \in Seq(Byte) /\ rBuf \in Seq(Byte) /\ got \in Seq(Byte)
  BY <1>1, <1>2, <1>3 DEF Init
<1>5. toSend \in 0 .. Len(sBuf) /\ toGet \in 0 .. Len(rBuf)
  BY <1>1, <1>2 DEF Init
<1>6. broken \in BOOLEAN /\ split \subseteq Parts
  BY DEF Init
<1>7. sPc \in Parts \cup Ended /\ rPc \in Parts \cup Ended
  BY DEF Init, Parts, Ended
<1>8. sLeft \in 0 .. Len(File) /\ rLeft \in Nat
  BY <1>3 DEF Init
<1>9. TypeOK
  BY <1>4, <1>5, <1>6, <1>7, <1>8 DEF TypeOK
<1> QED
  BY <1>2, <1>9 DEF Init, TypeInv

LEMMA SendChunkType ==
  ASSUME TypeInv, NEW left \in 0 .. Len(File), SendChunk(left)
  PROVE  /\ sBuf' \in Seq(Byte) /\ toSend' = Len(sBuf') /\ sLeft' = left
         /\ sPc' \in Parts /\ (sPc' = "data" => left > 0)
<1>1. CASE left > 0
  <2> DEFINE from == Len(File) - left + 1
             to == Len(File) - left + ChunkOf(left)
  <2>1. ChunkOf(left) \in 1 .. left
    BY <1>1, ChunkBounds
  <2>2. from \in 1 .. Len(File) /\ to \in 1 .. Len(File)
    BY <2>1, FileAssumption
  <2>3. SubSeq(File, from, to) \in Seq(Byte)
    BY <2>2, FileAssumption
  <2> QED
    BY <1>1, <2>3 DEF SendChunk, SendBuffer, Parts
<1>2. CASE ~(left > 0)
  BY <1>2, HashAssumption DEF SendChunk, SendBuffer, Parts
<1> QED
  BY <1>1, <1>2

LEMMA RecvChunkType ==
  ASSUME NEW left \in Nat, NEW buf \in Seq(Byte), Len(buf) = Cache, RecvChunk(left, buf)
  PROVE  /\ rBuf' \in Seq(Byte) /\ toGet' \in 0 .. Len(rBuf') /\ rLeft' = left
         /\ \/ rPc' = "data" /\ left > 0 /\ rBuf' = buf /\ toGet' = ChunkOf(left)
            \/ rPc' = "hash" /\ left = 0 /\ Len(rBuf') = Len(Hash) /\ toGet' = Len(Hash)
<1>1. CASE left > 0
  BY <1>1, ChunkBounds, CacheAssumption DEF RecvChunk, RecvBuffer
<1>2. CASE ~(left > 0)
  <2>1. Len(Hash) \in Nat
    BY HashAssumption
  <2>2. /\ Filled(Len(Hash), 0) \in Seq(Byte)
        /\ Len(Filled(Len(Hash), 0)) = Len(Hash)
    BY <2>1, FilledType, ZeroIsByte
  <2> QED
    BY <1>2, <2>1, <2>2 DEF RecvChunk, RecvBuffer
<1> QED
  BY <1>1, <1>2

LEMMA TypeStep == TypeInv /\ [Next]_vars => TypeInv'
<1> SUFFICES ASSUME TypeInv, [Next]_vars PROVE TypeInv'
  OBVIOUS
<1> USE DEF TypeInv, TypeOK
<1>1. ASSUME NEW k \in 1 .. toSend, Send(k) PROVE TypeInv'
  <2>1. SubSeq(sBuf, 1, k) \in Seq(Byte)
    BY <1>1
  <2>2. wire' \in Seq(Byte)
    BY <1>1, <2>1, ConcatBytes DEF Send
  <2> QED
    BY <1>1, <2>2 DEF Send, Split, recvVars
<1>2. CASE SendFails
  BY <1>2 DEF SendFails, netVars, recvVars, Ended
<1>3. CASE SendNext
  <2>1. CASE sPc = "header"
    BY <1>3, <2>1, SendChunkType DEF SendNext, netVars, recvVars
  <2>2. CASE sPc = "data"
    <3>1. sLeft - ChunkOf(sLeft) \in 0 .. Len(File)
      BY <2>2, ChunkBounds, FileAssumption
    <3> QED
      BY <1>3, <2>2, <3>1, SendChunkType DEF SendNext, netVars, recvVars
  <2>3. CASE sPc = "hash"
    BY <1>3, <2>3 DEF SendNext, netVars, recvVars, Ended
  <2> QED
    BY <1>3, <2>1, <2>2, <2>3 DEF SendNext
<1>4. ASSUME NEW k \in 1 .. toGet, Recv(k) PROVE TypeInv'
  <2>1. k \in 1 .. Len(wire) /\ k \in 1 .. Len(rBuf)
    BY <1>4 DEF Recv
  <2>2. rBuf' \in Seq(Byte) /\ Len(rBuf') = Len(rBuf)
    <3>1. rBuf' = [i \in 1 .. Len(rBuf) |-> IF i <= k THEN wire[i] ELSE rBuf[i]]
      BY <1>4 DEF Recv
    <3>2. \A i \in 1 .. Len(rBuf) : (IF i <= k THEN wire[i] ELSE rBuf[i]) \in Byte
      BY <2>1
    <3>3. /\ DOMAIN rBuf' = 1 .. Len(rBuf)
          /\ rBuf' = [i \in 1 .. Len(rBuf) |-> rBuf'[i]]
          /\ \A i \in 1 .. Len(rBuf) : rBuf'[i] \in Byte
      BY <3>1, <3>2, Zenon
    <3>4. Len(rBuf) \in Nat
      OBVIOUS
    <3> QED
      BY <3>3, <3>4, MapBytes
  <2>3. wire' \in Seq(Byte)
    <3>1. wire' = SubSeq(wire, k + 1, Len(wire))
      BY <1>4 DEF Recv
    <3> QED
      BY <2>1, <3>1
  <2> QED
    BY <1>4, <2>2, <2>3 DEF Recv, Split, sendVars
<1>5. CASE RecvFails
  BY <1>5 DEF RecvFails, netVars, sendVars, Ended
<1>6. CASE RecvNext
  <2>1. CASE rPc = "header"
    <3>2. Decode(rBuf) \in Nat
      BY <2>1, DecodeType
    <3>3. Filled(Cache, Junk) \in Seq(Byte) /\ Len(Filled(Cache, Junk)) = Cache
      BY FilledType, CacheAssumption, JunkAssumption
    <3> QED
      BY <1>6, <2>1, <3>2, <3>3, RecvChunkType DEF RecvNext, netVars, sendVars, Parts
  <2>2. CASE rPc = "data"
    <3>1. ChunkOf(rLeft) \in 1 .. rLeft /\ ChunkOf(rLeft) \in 1 .. Len(rBuf)
      BY <2>2, ChunkBounds
    <3>2. rLeft - ChunkOf(rLeft) \in Nat
      BY <3>1
    <3>3. SubSeq(rBuf, 1, ChunkOf(rLeft)) \in Seq(Byte)
      BY <3>1
    <3>4. got' = got \o SubSeq(rBuf, 1, ChunkOf(rLeft))
      BY <1>6, <2>2 DEF RecvNext
    <3>5. got' \in Seq(Byte)
      BY <3>3, <3>4, ConcatBytes
    <3> QED
      BY <1>6, <2>2, <3>2, <3>5, RecvChunkType DEF RecvNext, netVars, sendVars, Parts
  <2>3. CASE rPc = "hash"
    BY <1>6, <2>3 DEF RecvNext, netVars, sendVars, Ended
  <2> QED
    BY <1>6, <2>1, <2>2, <2>3 DEF RecvNext
<1>7. ASSUME NEW k \in 0 .. Len(wire), Break(k) PROVE TypeInv'
  <2>1. wire' \in Seq(Byte)
    BY <1>7 DEF Break
  <2> QED
    BY <1>7, <2>1 DEF Break, sendVars, recvVars
<1>8. CASE UNCHANGED vars
  BY <1>8 DEF vars, netVars, sendVars, recvVars
<1> QED
  BY <1>1, <1>2, <1>3, <1>4, <1>5, <1>6, <1>7, <1>8 DEF Next, SenderStep, ReceiverStep

(* For any file the buffers hold bytes, and no counter leaves its buffer or  *)
(* goes below zero (NetworkReadWrite.c:19-127).                              *)
THEOREM TypeCorrect == Spec => []TypeOK
<1>1. TypeInv => TypeOK
  BY DEF TypeInv
<1> QED
  BY TypeInit, TypeStep, <1>1, PTL DEF Spec

-----------------------------------------------------------------------------
(* OnlySplitPartsDiffer *)

(* The stream of the bytes to send, and the part each of its places is in    *)
At(p) ==
  IF p <= 4 THEN Encode(Len(File))[p]
  ELSE IF p <= 4 + Len(File) THEN File[p - 4] ELSE Hash[p - (4 + Len(File))]

PartAt(p) == IF p <= 4 THEN "header" ELSE IF p <= 4 + Len(File) THEN "data" ELSE "hash"

(* The buffer of a part begins after this place and is this long, when so    *)
(* much of the file is left.                                                 *)
From(part, left) ==
  IF part = "header" THEN 0
  ELSE IF part = "data" THEN 4 + Len(File) - left ELSE 4 + Len(File)

Size(part, left) ==
  IF part = "header" THEN 4 ELSE IF part = "data" THEN ChunkOf(left) ELSE Len(Hash)

SentTo == From(sPc, sLeft) + Size(sPc, sLeft) - toSend
ReadTo == From(rPc, rLeft) + Size(rPc, rLeft) - toGet
Total == 4 + Len(File) + Len(Hash)

(* The sender's buffer is the next piece of the stream, and an unsplit one   *)
(* has been sent in full or not at all.                                      *)
SendInv ==
  /\ sPc = "header" => sLeft = Len(File)
  /\ sPc = "done" => toSend = 0
  /\ sPc = "failed" => broken
  /\ sPc \in Parts =>
       /\ Len(sBuf) = Size(sPc, sLeft)
       /\ \A j \in 1 .. Len(sBuf) : sBuf[j] = At(From(sPc, sLeft) + j)
       /\ sPc \notin split => toSend \in {0, Len(sBuf)}

(* What the receiver has asked for and written                               *)
RecvInv ==
  /\ rPc = "header" => got = <<>>
  /\ rPc = "data" => rLeft <= Len(File) /\ Len(got) = Len(File) - rLeft
  /\ rPc \in {"hash", "done"} => Len(got) = Len(File) /\ Len(rBuf) = Len(Hash)
  /\ toGet <= Size(rPc, rLeft)
  /\ rPc = "done" => toGet = 0 /\ ("hash" \notin split => rBuf = Hash)
  /\ rPc \in Parts \ split =>
       /\ toGet \in {0, Size(rPc, rLeft)}
       /\ toGet = 0 => \A i \in 1 .. Size(rPc, rLeft) : rBuf[i] = At(From(rPc, rLeft) + i)
  /\ "data" \notin split => \A i \in 1 .. Len(got) : got[i] = File[i]

(* What is under way is the stream from where the receiver is to where the   *)
(* sender is, but for the parts that were split.                             *)
WireInv ==
  /\ IF broken THEN ReadTo + Len(wire) <= Total ELSE ReadTo + Len(wire) = SentTo
  /\ \A i \in 1 .. Len(wire) : PartAt(ReadTo + i) \notin split => wire[i] = At(ReadTo + i)

StreamInv ==
  /\ TypeInv
  /\ SendInv
  /\ "header" \notin split /\ rPc # "failed" => RecvInv /\ WireInv

LEMMA Lengths ==
  /\ File \in Seq(Byte) /\ Len(File) \in Nat
  /\ Hash \in Seq(Byte) /\ Len(Hash) \in Nat /\ Len(Hash) > 0
  BY FileAssumption, HashAssumption

LEMMA Places ==
  ASSUME NEW part \in Parts, NEW left \in Nat, left <= Len(File), part = "data" => left > 0
  PROVE  /\ From(part, left) \in Nat /\ Size(part, left) \in Nat /\ Size(part, left) > 0
         /\ From(part, left) + Size(part, left) <= Total
         /\ \A j \in 1 .. Size(part, left) : PartAt(From(part, left) + j) = part
<1>1. left > 0 => ChunkOf(left) \in 1 .. left
  BY ChunkBounds
<1> QED
  BY <1>1, Lengths DEF Parts, From, Size, Total, PartAt

LEMMA PlaceNumbers ==
  ASSUME NEW part \in Parts, NEW left \in Nat,
         part = "data" => left > 0 /\ left <= Len(File)
  PROVE  From(part, left) \in Nat /\ Size(part, left) \in Nat
<1>1. left > 0 => ChunkOf(left) \in Nat
  BY ChunkBounds
<1> QED
  BY <1>1, Lengths DEF Parts, From, Size

LEMMA PlacesOfHeader ==
  \A j \in 1 .. 4 : At(j) = Encode(Len(File))[j]
  BY DEF At

LEMMA PlacesOfData ==
  ASSUME NEW left \in 1 .. Len(File), NEW j \in 1 .. ChunkOf(left)
  PROVE  At(From("data", left) + j) = File[Len(File) - left + j]
<1>1. ChunkOf(left) \in 1 .. left
  BY ChunkBounds, Lengths
<1> QED
  BY <1>1, Lengths DEF At, From

LEMMA PlacesOfHash ==
  ASSUME NEW left, NEW j \in 1 .. Len(Hash)
  PROVE  At(From("hash", left) + j) = Hash[j]
  BY Lengths DEF At, From

LEMMA StreamInit == Init => StreamInv
<1> SUFFICES ASSUME Init PROVE StreamInv
  OBVIOUS
<1>1. TypeInv
  BY TypeInit
<1>2. Len(Encode(Len(File))) = 4
  BY FileAssumption, Lengths, DecodeEncode
<1>3. SendInv
  BY <1>2, PlacesOfHeader DEF Init, SendInv, Parts, Size, From
<1>4. RecvInv
  BY DEF Init, RecvInv, Size, Parts
<1>5. WireInv
  BY DEF Init, WireInv, ReadTo, SentTo, From, Size
<1> QED
  BY <1>1, <1>3, <1>4, <1>5 DEF StreamInv

(* uploadFile goes on where it was. *)
LEMMA SendChunkStream ==
  ASSUME NEW left \in 0 .. Len(File), SendChunk(left)
  PROVE  /\ sPc' \in {"data", "hash"} /\ sLeft' = left /\ toSend' = Len(sBuf')
         /\ Len(sBuf') = Size(sPc', left)
         /\ \A j \in 1 .. Len(sBuf') : sBuf'[j] = At(From(sPc', left) + j)
         /\ From(sPc', left) = 4 + Len(File) - left
<1>0. left \in Nat /\ left <= Len(File)
  BY Lengths
<1>1. CASE left > 0
  <2>1. ChunkOf(left) \in 1 .. left /\ ChunkOf(left) \in Nat
    BY <1>0, <1>1, ChunkBounds
  <2> DEFINE from == Len(File) - left + 1
             to == Len(File) - left + ChunkOf(left)
             buf == SubSeq(File, from, to)
  <2>2. from \in 1 .. Len(File) /\ to \in 1 .. Len(File) /\ to - from + 1 = ChunkOf(left)
    BY <1>0, <1>1, <2>1, Lengths
  <2>3. Len(buf) = ChunkOf(left) /\ \A j \in 1 .. ChunkOf(left) : buf[j] = File[from + j - 1]
    BY <2>1, <2>2, Lengths
  <2>4. \A j \in 1 .. ChunkOf(left) : buf[j] = At(From("data", left) + j)
    BY <1>0, <1>1, <2>1, <2>3, PlacesOfData, Lengths
  <2>5. sPc' = "data" /\ sLeft' = left /\ sBuf' = buf /\ toSend' = Len(buf)
    BY <1>1 DEF SendChunk, SendBuffer
  <2> HIDE DEF buf
  <2> QED
    BY <1>0, <2>3, <2>4, <2>5 DEF Size, From
<1>2. CASE left = 0
  <2>1. sPc' = "hash" /\ sLeft' = left /\ sBuf' = Hash /\ toSend' = Len(Hash)
    BY <1>2 DEF SendChunk, SendBuffer
  <2> QED
    BY <1>2, <2>1, PlacesOfHash, Lengths DEF Size, From
<1> QED
  BY <1>0, <1>1, <1>2

(* downloadFile goes on where it was. *)
LEMMA RecvChunkStream ==
  ASSUME NEW left \in 0 .. Len(File), NEW buf, RecvChunk(left, buf)
  PROVE  /\ rPc' \in {"data", "hash"} /\ rLeft' = left /\ toGet' = Size(rPc', left)
         /\ From(rPc', left) = 4 + Len(File) - left /\ toGet' > 0
         /\ rPc' = "data" => left > 0 /\ rBuf' = buf
         /\ rPc' = "hash" => left = 0 /\ Len(rBuf') = Len(Hash)
<1>0. left \in Nat /\ left <= Len(File)
  BY Lengths
<1>1. CASE left > 0
  BY <1>0, <1>1, ChunkBounds DEF RecvChunk, RecvBuffer, Size, From
<1>2. CASE left = 0
  <2>1. Len(Filled(Len(Hash), 0)) = Len(Hash)
    BY Lengths, FilledType, ZeroIsByte
  <2> QED
    BY <1>2, <2>1, Lengths DEF RecvChunk, RecvBuffer, Size, From
<1> QED
  BY <1>0, <1>1, <1>2

LEMMA SentBounds ==
  ASSUME TypeInv, SendInv, sPc # "failed"
  PROVE  SentTo \in Nat /\ SentTo <= Total
<1>0. sLeft \in Nat /\ sLeft <= Len(File) /\ toSend \in Nat
  BY Lengths DEF TypeInv, TypeOK
<1>1. CASE sPc \in Parts
  <2>1. /\ From(sPc, sLeft) \in Nat /\ Size(sPc, sLeft) \in Nat
        /\ From(sPc, sLeft) + Size(sPc, sLeft) <= Total
    BY <1>0, <1>1, Places DEF TypeInv
  <2>2. toSend <= Size(sPc, sLeft)
    BY <1>1 DEF TypeInv, TypeOK, SendInv
  <2> QED
    BY <1>0, <2>1, <2>2, Lengths DEF SentTo, Total
<1>2. CASE sPc = "done"
  BY <1>2, Lengths DEF SendInv, SentTo, From, Size, Total
<1> QED
  BY <1>1, <1>2 DEF TypeInv, TypeOK, Ended

LEMMA ReadBounds ==
  ASSUME TypeInv, RecvInv, rPc # "failed"
  PROVE  ReadTo \in Nat /\ (rPc = "done" => ReadTo = Total)
<1>0. rLeft \in Nat /\ toGet \in Nat /\ (rPc = "data" => rLeft > 0)
  BY Lengths DEF TypeInv, TypeOK
<1>1. CASE rPc \in Parts
  <2>1. From(rPc, rLeft) \in Nat /\ Size(rPc, rLeft) \in Nat
    BY <1>0, <1>1, Lengths, ChunkBounds DEF From, Size, RecvInv, Parts
  <2> QED
    BY <1>0, <1>1, <2>1 DEF ReadTo, RecvInv, Parts
<1>2. CASE rPc = "done"
  BY <1>2, Lengths DEF RecvInv, ReadTo, From, Size, Total
<1> QED
  BY <1>1, <1>2 DEF TypeInv, TypeOK, Ended

LEMMA Numbers ==
  ASSUME TypeInv
  PROVE  /\ Len(wire) \in Nat /\ Len(sBuf) \in Nat /\ Len(rBuf) \in Nat /\ Len(got) \in Nat
         /\ toSend \in Nat /\ toSend <= Len(sBuf) /\ toGet \in Nat /\ toGet <= Len(rBuf)
         /\ sLeft \in Nat /\ sLeft <= Len(File) /\ rLeft \in Nat
  BY Lengths DEF TypeInv, TypeOK

LEMMA SendStream ==
  ASSUME StreamInv, NEW k \in 1 .. toSend, Send(k), TypeInv'
  PROVE  StreamInv'
<1>0. /\ sPc \in Parts /\ ~broken /\ k \in Nat /\ k > 0 /\ k <= toSend /\ toSend \in Nat
      /\ toSend' = toSend - k /\ sPc' = sPc /\ sBuf' = sBuf /\ sLeft' = sLeft
      /\ broken' = broken
      /\ split \subseteq split' /\ (sPc \notin split' => k = toSend)
      /\ UNCHANGED recvVars
  BY DEF Send, Split, StreamInv, TypeInv, TypeOK
<1>1. SendInv'
  BY <1>0 DEF StreamInv, SendInv
<1>2. ASSUME "header" \notin split', rPc' # "failed" PROVE RecvInv' /\ WireInv'
  <2>0. RecvInv /\ WireInv /\ SendInv /\ TypeInv
    BY <1>0, <1>2 DEF StreamInv, recvVars
  <2>1. RecvInv'
    BY <1>0, <2>0 DEF RecvInv, recvVars
  <2>2. /\ Len(sBuf) = Size(sPc, sLeft) /\ From(sPc, sLeft) \in Nat
        /\ \A j \in 1 .. Len(sBuf) : sBuf[j] = At(From(sPc, sLeft) + j)
        /\ \A j \in 1 .. Len(sBuf) : PartAt(From(sPc, sLeft) + j) = sPc
    <3>1. /\ Len(sBuf) = Size(sPc, sLeft)
          /\ \A j \in 1 .. Len(sBuf) : sBuf[j] = At(From(sPc, sLeft) + j)
      BY <1>0, <2>0 DEF SendInv
    <3>2. sPc = "data" => sLeft > 0
      BY <2>0 DEF TypeInv
    <3>3. /\ From(sPc, sLeft) \in Nat
          /\ \A j \in 1 .. Size(sPc, sLeft) : PartAt(From(sPc, sLeft) + j) = sPc
      BY <1>0, <2>0, <3>2, Numbers, Places
    <3> QED
      BY <3>1, <3>3
  <2>3. /\ SentTo = From(sPc, sLeft) + Len(sBuf) - toSend
        /\ SentTo' = From(sPc, sLeft) + Len(sBuf) - (toSend - k)
    BY <1>0, <2>2 DEF SentTo
  <2>4. ReadTo' = ReadTo /\ ReadTo + Len(wire) = SentTo
    BY <1>0, <2>0 DEF ReadTo, WireInv, recvVars
  <2>5. ReadTo \in Int
    BY <1>0, <1>2, <2>0, ReadBounds DEF recvVars
  <2>6. k \in 1 .. Len(sBuf) /\ sBuf \in Seq(Byte) /\ wire \in Seq(Byte) /\ Len(sBuf) \in Nat
    BY <1>0, <2>0 DEF TypeInv, TypeOK
  <2>7. /\ Len(wire') = Len(wire) + k
        /\ \A i \in 1 .. Len(wire) : wire'[i] = wire[i]
        /\ \A j \in 1 .. k : wire'[Len(wire) + j] = sBuf[j]
    <3>1. wire' = wire \o SubSeq(sBuf, 1, k)
      BY DEF Send
    <3>2. Len(SubSeq(sBuf, 1, k)) = k /\ SubSeq(sBuf, 1, k) \in Seq(Byte)
      BY <2>6
    <3>3. \A j \in 1 .. k : SubSeq(sBuf, 1, k)[j] = sBuf[j]
      BY <2>6
    <3> HIDE DEF TypeInv
    <3> QED
      BY <2>6, <3>1, <3>2, <3>3
  <2>8. ASSUME NEW i \in 1 .. Len(wire'), PartAt(ReadTo + i) \notin split'
        PROVE  wire'[i] = At(ReadTo + i)
    <3>1. CASE i <= Len(wire)
      <4>1. i \in 1 .. Len(wire)
        BY <2>6, <2>7, <3>1
      <4> QED
        BY <1>0, <2>0, <2>7, <2>8, <4>1 DEF WireInv
    <3>2. CASE i > Len(wire)
      <4>1. PICK j \in 1 .. k : i = Len(wire) + j
        <5>1. i - Len(wire) \in 1 .. k
          BY <2>6, <2>7, <3>2
        <5> QED
          BY <5>1, <2>6
      <4>2. ReadTo + i = SentTo + j
        BY <2>4, <2>5, <2>6, <4>1
      <4>3. CASE sPc \in split'
        <5>1. Len(sBuf) - toSend + j \in 1 .. Len(sBuf)
          BY <1>0, <2>0, <4>1, Numbers
        <5>2. PartAt(From(sPc, sLeft) + (Len(sBuf) - toSend + j)) = sPc
          BY <2>2, <5>1
        <5>3. ReadTo + i = From(sPc, sLeft) + (Len(sBuf) - toSend + j)
          BY <1>0, <2>2, <2>3, <2>6, <4>1, <4>2
        <5> QED
          BY <2>8, <4>3, <5>2, <5>3
      <4>4. CASE sPc \notin split'
        <5>1. k = toSend /\ toSend = Len(sBuf)
          BY <1>0, <2>0, <4>4 DEF SendInv
        <5>2. ReadTo + i = From(sPc, sLeft) + j /\ j \in 1 .. Len(sBuf)
          BY <1>0, <2>2, <2>3, <2>6, <4>1, <4>2, <5>1
        <5> QED
          BY <2>2, <2>7, <4>1, <5>2
      <4> QED
        BY <4>3, <4>4
    <3> QED
      BY <2>6, <2>7, <3>1, <3>2
  <2>9. ReadTo + Len(wire') = SentTo'
    <3>1. Len(wire') = Len(wire) + k
      BY <2>7
    <3>2. Len(wire) \in Nat /\ Len(sBuf) \in Nat
      BY <2>0, Numbers
    <3> QED
      BY <1>0, <2>2, <2>3, <2>4, <2>5, <3>1, <3>2
  <2> QED
    BY <1>0, <2>1, <2>4, <2>8, <2>9 DEF WireInv
<1> QED
  BY <1>1, <1>2 DEF StreamInv

LEMMA SendNextStream ==
  ASSUME StreamInv, SendNext, TypeInv'
  PROVE  StreamInv'
<1>0. /\ toSend = 0 /\ sPc \in Parts /\ SendInv /\ TypeInv
      /\ UNCHANGED netVars /\ UNCHANGED recvVars
  BY DEF SendNext, StreamInv, Parts
<1>1. SendInv' /\ SentTo' = SentTo
  <2>1. ASSUME NEW left \in 0 .. Len(File), SendChunk(left),
               From(sPc, sLeft) + Size(sPc, sLeft) = 4 + Len(File) - left
        PROVE  SendInv' /\ SentTo' = SentTo
    <3>1. /\ sPc' \in {"data", "hash"} /\ sLeft' = left /\ toSend' = Len(sBuf')
          /\ Len(sBuf') = Size(sPc', left)
          /\ \A j \in 1 .. Len(sBuf') : sBuf'[j] = At(From(sPc', left) + j)
          /\ From(sPc', left) = 4 + Len(File) - left
      BY <2>1, SendChunkStream
    <3>2. SendInv'
      BY <3>1 DEF SendInv
    <3>3. SentTo = 4 + Len(File) - left
      <4>1. From(sPc, sLeft) \in Nat /\ Size(sPc, sLeft) \in Nat
        BY <1>0, Numbers, PlaceNumbers DEF TypeInv, SendInv
      <4> QED
        BY <1>0, <2>1, <4>1, Lengths DEF SentTo
    <3>4. toSend' \in Nat
      BY Numbers DEF TypeInv, TypeOK
    <3>5. SentTo' = 4 + Len(File) - left
      BY <3>1, <3>4, Lengths DEF SentTo
    <3> QED
      BY <3>2, <3>3, <3>5
  <2>2. CASE sPc = "header"
    <3>1. SendChunk(sLeft) /\ sLeft = Len(File)
      BY <1>0, <2>2 DEF SendNext, SendInv
    <3> QED
      BY <2>1, <2>2, <3>1, Lengths DEF From, Size
  <2>3. CASE sPc = "data"
    <3>1. ChunkOf(sLeft) \in 1 .. sLeft /\ sLeft \in Nat /\ sLeft <= Len(File)
      BY <1>0, <2>3, Numbers, ChunkBounds DEF TypeInv
    <3>2. SendChunk(sLeft - ChunkOf(sLeft))
      BY <2>3 DEF SendNext
    <3> QED
      BY <2>1, <2>3, <3>1, <3>2, Lengths DEF From, Size
  <2>4. CASE sPc = "hash"
    BY <1>0, <2>4 DEF SendNext, SendInv, SentTo, From, Size, Parts
  <2> QED
    BY <1>0, <2>2, <2>3, <2>4 DEF Parts
<1>2. RecvInv => RecvInv'
  BY <1>0 DEF RecvInv, netVars, recvVars
<1>3. WireInv => WireInv'
  BY <1>0, <1>1 DEF WireInv, ReadTo, netVars, recvVars
<1> QED
  BY <1>0, <1>1, <1>2, <1>3 DEF StreamInv, netVars, recvVars

LEMMA RecvStream ==
  ASSUME StreamInv, NEW k \in 1 .. toGet, Recv(k), TypeInv'
  PROVE  StreamInv'
<1>0. /\ rPc \in Parts /\ k \in Nat /\ k > 0 /\ k <= toGet /\ k <= Len(wire) /\ toGet \in Nat
      /\ toGet' = toGet - k /\ rPc' = rPc /\ rLeft' = rLeft /\ got' = got
      /\ broken' = broken
      /\ split \subseteq split' /\ (rPc \notin split' => k = toGet)
      /\ UNCHANGED sendVars
  BY Numbers DEF Recv, Split, StreamInv
<1>1. SendInv'
  BY <1>0 DEF StreamInv, SendInv, sendVars
<1>2. ASSUME "header" \notin split' PROVE RecvInv' /\ WireInv'
  <2>0. RecvInv /\ WireInv /\ TypeInv
    BY <1>0, <1>2 DEF StreamInv, Parts
  <2>1. /\ ReadTo \in Nat /\ Len(wire) \in Nat /\ Len(rBuf) \in Nat /\ toGet <= Len(rBuf)
        /\ wire \in Seq(Byte) /\ rLeft \in Nat
    BY <1>0, <2>0, ReadBounds, Numbers DEF Parts, TypeInv, TypeOK
  <2>2. From(rPc, rLeft) \in Nat /\ Size(rPc, rLeft) \in Nat
    <3>1. rPc = "data" => ChunkOf(rLeft) \in Nat /\ rLeft <= Len(File)
      BY <2>0, <2>1, ChunkBounds DEF RecvInv, TypeInv
    <3> QED
      BY <1>0, <2>1, <3>1, Lengths DEF From, Size, Parts
  <2>3. ReadTo' = ReadTo + k
    BY <1>0, <2>2 DEF ReadTo
  <2>4. /\ Len(wire') = Len(wire) - k
        /\ \A i \in 1 .. Len(wire) - k : wire'[i] = wire[k + i]
    <3>1. wire' = SubSeq(wire, k + 1, Len(wire))
      BY DEF Recv
    <3> QED
      BY <1>0, <2>1, <3>1
  <2>5. WireInv'
    <3>1. SentTo' = SentTo
      BY <1>0 DEF SentTo, sendVars
    <3>2. ReadTo' + Len(wire') = ReadTo + Len(wire)
      BY <1>0, <2>1, <2>3, <2>4
    <3>3. ASSUME NEW i \in 1 .. Len(wire'), PartAt(ReadTo' + i) \notin split'
          PROVE  wire'[i] = At(ReadTo' + i)
      <4>1. k + i \in 1 .. Len(wire) /\ i \in 1 .. Len(wire) - k
        BY <1>0, <2>1, <2>4
      <4>2. ReadTo' + i = ReadTo + (k + i)
        BY <1>0, <2>1, <2>3, <4>1
      <4>3. PartAt(ReadTo + (k + i)) \notin split
        BY <1>0, <3>3, <4>2
      <4> QED
        BY <2>0, <2>4, <4>1, <4>2, <4>3 DEF WireInv
    <3> QED
      BY <1>0, <2>0, <3>1, <3>2, <3>3 DEF WireInv
  <2>6. ASSUME rPc \notin split'
        PROVE  /\ toGet' = 0
               /\ \A i \in 1 .. Size(rPc, rLeft) : rBuf'[i] = At(From(rPc, rLeft) + i)
    <3>1. k = toGet /\ toGet = Size(rPc, rLeft) /\ ReadTo = From(rPc, rLeft)
      BY <1>0, <2>0, <2>2, <2>6 DEF RecvInv, ReadTo
    <3>2. ASSUME NEW i \in 1 .. Size(rPc, rLeft)
          PROVE  rBuf'[i] = At(From(rPc, rLeft) + i)
      <4>1. i \in 1 .. Len(wire) /\ i \in 1 .. Len(rBuf) /\ i <= k
        BY <1>0, <2>1, <3>1
      <4>2. rBuf'[i] = wire[i]
        <5>1. rBuf' = [x \in DOMAIN rBuf |-> IF x <= k THEN wire[x] ELSE rBuf[x]]
          BY DEF Recv
        <5>2. DOMAIN rBuf = 1 .. Len(rBuf)
          BY <2>0 DEF TypeInv, TypeOK
        <5> QED
          BY <4>1, <5>1, <5>2
      <4>3. PartAt(ReadTo + i) = rPc
        <5>1. rLeft <= Len(File) \/ rPc # "data"
          BY <2>0 DEF RecvInv
        <5>2. \A j \in 1 .. Size(rPc, rLeft) : PartAt(From(rPc, rLeft) + j) = rPc
          <6>1. CASE rPc = "data"
            BY <2>0, <2>1, <5>1, <6>1, Places DEF TypeInv, Parts
          <6>2. CASE rPc # "data"
            BY <1>0, <6>2, Lengths DEF From, Size, PartAt, Parts
          <6> QED
            BY <6>1, <6>2
        <5> QED
          BY <3>1, <5>2
      <4> QED
        BY <1>0, <2>0, <2>6, <3>1, <4>1, <4>2, <4>3 DEF WireInv
    <3> QED
      BY <1>0, <3>1, <3>2
  <2>7. RecvInv'
    <3>1. Len(rBuf') = Len(rBuf)
      <4>1. rBuf' = [x \in 1 .. Len(rBuf) |-> IF x <= k THEN wire[x] ELSE rBuf[x]]
        BY <2>0 DEF Recv, TypeInv, TypeOK
      <4>2. DOMAIN rBuf' = 1 .. Len(rBuf)
        BY <4>1
      <4>3. DOMAIN rBuf' = 1 .. Len(rBuf') /\ Len(rBuf') \in Nat
        BY DEF TypeInv, TypeOK
      <4> QED
        BY <2>1, <4>2, <4>3
    <3>2. toGet' <= Size(rPc, rLeft)
      BY <1>0, <2>0, <2>2 DEF RecvInv
    <3>3. rPc # "done"
      BY <1>0 DEF Parts
    <3> QED
      BY <1>0, <2>0, <2>6, <3>1, <3>2, <3>3 DEF RecvInv
  <2> QED
    BY <2>5, <2>7
<1> QED
  BY <1>1, <1>2 DEF StreamInv

LEMMA RecvNextStream ==
  ASSUME StreamInv, RecvNext, TypeInv'
  PROVE  StreamInv'
<1>0. toGet = 0 /\ rPc \in Parts /\ TypeInv /\ SendInv /\ UNCHANGED netVars /\ UNCHANGED sendVars
  BY DEF RecvNext, StreamInv, Parts
<1>1. SendInv'
  BY <1>0 DEF SendInv, netVars, sendVars
<1>2. ASSUME "header" \notin split PROVE RecvInv' /\ WireInv'
  <2>0. RecvInv /\ WireInv
    BY <1>0, <1>2 DEF StreamInv, Parts
  <2>1. ASSUME NEW left \in 0 .. Len(File), NEW buf, RecvChunk(left, buf),
               From(rPc, rLeft) + Size(rPc, rLeft) = 4 + Len(File) - left,
               Len(got') = Len(File) - left,
               "data" \notin split => \A i \in 1 .. Len(got') : got'[i] = File[i]
        PROVE  RecvInv' /\ WireInv'
    <3>1. /\ rPc' \in {"data", "hash"} /\ rLeft' = left /\ toGet' = Size(rPc', left)
          /\ From(rPc', left) = 4 + Len(File) - left /\ toGet' > 0
          /\ rPc' = "data" => left > 0 /\ rBuf' = buf
          /\ rPc' = "hash" => left = 0 /\ Len(rBuf') = Len(Hash)
      BY <2>1, RecvChunkStream
    <3>2. toGet' \in Nat /\ left \in Nat /\ left <= Len(File)
      BY Lengths DEF TypeInv, TypeOK
    <3>3. split' = split /\ wire' = wire /\ broken' = broken
      BY <1>0 DEF netVars
    <3>4. RecvInv'
      <4>1. rPc' = "hash" => Len(got') = Len(File)
        BY <2>1, <3>1, Lengths
      <4>2. toGet' <= Size(rPc', rLeft') /\ toGet' # 0
        BY <3>1, <3>2
      <4> QED
        BY <2>1, <3>1, <3>2, <3>3, <4>1, <4>2 DEF RecvInv
    <3>5. ReadTo = 4 + Len(File) - left
      <4>1. From(rPc, rLeft) \in Nat /\ Size(rPc, rLeft) \in Nat
        BY <1>0, <2>0, Numbers, PlaceNumbers DEF TypeInv, RecvInv
      <4> QED
        BY <1>0, <2>1, <4>1, Lengths DEF ReadTo
    <3>6. ReadTo' = 4 + Len(File) - left
      BY <3>1, <3>2, Lengths DEF ReadTo
    <3>7. ReadTo' = ReadTo /\ SentTo' = SentTo
      BY <1>0, <3>5, <3>6 DEF SentTo, sendVars
    <3> QED
      BY <2>0, <3>3, <3>4, <3>7 DEF WireInv
  <2>2. CASE rPc = "header"
    <3>1. Decode(rBuf) = Len(File)
      <4>1. \A i \in 1 .. 4 : rBuf[i] = Encode(Len(File))[i]
        <5>1. \A i \in 1 .. 4 : rBuf[i] = At(0 + i)
          BY <1>0, <1>2, <2>0, <2>2 DEF RecvInv, From, Size
        <5> QED
          BY <5>1, PlacesOfHeader
      <4>2. 1 \in 1 .. 4 /\ 2 \in 1 .. 4 /\ 3 \in 1 .. 4 /\ 4 \in 1 .. 4
        OBVIOUS
      <4>3. Decode(rBuf) = Decode(Encode(Len(File)))
        BY <4>1, <4>2, SMT DEF Decode
      <4> QED
        BY <4>3, DecodeEncode, Lengths, FileAssumption
    <3>2. RecvChunk(Len(File), Filled(Cache, Junk)) /\ got' = got /\ got = <<>>
      BY <2>0, <2>2, <3>1 DEF RecvNext, RecvInv
    <3>3. Len(got') = Len(File) - Len(File) /\ \A i \in 1 .. Len(got') : got'[i] = File[i]
      BY <3>2, Lengths
    <3>4. From(rPc, rLeft) + Size(rPc, rLeft) = 4 + Len(File) - Len(File)
      BY <2>2, Lengths DEF From, Size
    <3> QED
      BY <2>1, <3>2, <3>3, <3>4, Lengths
  <2>3. CASE rPc = "data"
    <3> DEFINE n == ChunkOf(rLeft)
    <3>1. /\ n \in 1 .. rLeft /\ n \in Nat /\ n <= Len(rBuf) /\ rLeft \in Nat
          /\ rLeft <= Len(File) /\ Len(got) = Len(File) - rLeft
      BY <1>0, <2>0, <2>3, Numbers, ChunkBounds DEF TypeInv, RecvInv
    <3>2. RecvChunk(rLeft - n, rBuf) /\ got' = got \o SubSeq(rBuf, 1, n)
      BY <2>3 DEF RecvNext
    <3>3. From(rPc, rLeft) + Size(rPc, rLeft) = 4 + Len(File) - (rLeft - n)
      BY <2>3, <3>1, Lengths DEF From, Size
    <3>4. rBuf \in Seq(Byte) /\ got \in Seq(Byte)
      BY <1>0 DEF TypeInv, TypeOK
    <3> HIDE DEF n
    <3>5. /\ Len(SubSeq(rBuf, 1, n)) = n /\ SubSeq(rBuf, 1, n) \in Seq(Byte)
          /\ \A i \in 1 .. n : SubSeq(rBuf, 1, n)[i] = rBuf[i]
      BY <3>1, <3>4
    <3>6. /\ Len(got') = Len(got) + n
          /\ \A i \in 1 .. Len(got) : got'[i] = got[i]
          /\ \A i \in 1 .. n : got'[Len(got) + i] = rBuf[i]
      BY <3>2, <3>4, <3>5, ConcatBytes
    <3>7. Len(got') = Len(File) - (rLeft - n)
      BY <3>1, <3>6, Lengths
    <3>8. ASSUME "data" \notin split, NEW i \in 1 .. Len(got') PROVE got'[i] = File[i]
      <4>1. CASE i <= Len(got)
        <5>1. i \in 1 .. Len(got)
          BY <3>1, <3>6, <4>1, Lengths
        <5> QED
          BY <2>0, <3>6, <3>8, <5>1 DEF RecvInv
      <4>2. CASE i > Len(got)
        <5>1. PICK j \in 1 .. n : i = Len(got) + j
          <6>1. i - Len(got) \in 1 .. n /\ i \in Nat /\ Len(got) \in Nat
            BY <3>1, <3>6, <4>2, Lengths
          <6> QED
            BY <6>1
        <5>2. rBuf[j] = At(From("data", rLeft) + j)
          BY <1>0, <2>0, <2>3, <3>8, <5>1 DEF RecvInv, Parts, Size, n
        <5>3. At(From("data", rLeft) + j) = File[Len(File) - rLeft + j]
          BY <3>1, <5>1, PlacesOfData, Lengths DEF n
        <5> QED
          BY <3>1, <3>6, <5>1, <5>2, <5>3
      <4>3. i \in Nat /\ Len(got) \in Nat
        BY <3>1, <3>6, Lengths
      <4> QED
        BY <4>1, <4>2, <4>3
    <3>9. rLeft - n \in 0 .. Len(File)
      BY <3>1, Lengths
    <3> QED
      BY <2>1, <3>2, <3>3, <3>7, <3>8, <3>9
  <2>4. CASE rPc = "hash"
    <3>1. rPc' = "done" /\ UNCHANGED <<rBuf, toGet, rLeft, got>>
      BY <2>4 DEF RecvNext
    <3>2. Len(got) = Len(File) /\ Len(rBuf) = Len(Hash)
      BY <2>0, <2>4 DEF RecvInv
    <3>3. ASSUME "hash" \notin split PROVE rBuf = Hash
      <4>1. \A i \in 1 .. Len(Hash) : rBuf[i] = At(From("hash", rLeft) + i)
        BY <1>0, <2>0, <2>4, <3>3 DEF RecvInv, Parts, Size
      <4>2. \A i \in 1 .. Len(Hash) : rBuf[i] = Hash[i]
        BY <4>1, PlacesOfHash
      <4>3. rBuf \in Seq(Byte)
        BY <1>0 DEF TypeInv, TypeOK
      <4> QED
        BY <3>2, <4>2, <4>3, Lengths, SeqEqual
    <3>4. RecvInv'
      BY <1>0, <2>0, <2>4, <3>1, <3>2, <3>3, Lengths DEF RecvInv, Size, Parts, netVars
    <3>5. ReadTo' = ReadTo /\ SentTo' = SentTo
      BY <1>0, <2>4, <3>1 DEF ReadTo, SentTo, From, Size, sendVars
    <3> QED
      BY <1>0, <2>0, <3>4, <3>5 DEF WireInv, netVars
  <2> QED
    BY <1>0, <2>2, <2>3, <2>4 DEF Parts
<1>3. split' = split
  BY <1>0 DEF netVars
<1> QED
  BY <1>1, <1>2, <1>3 DEF StreamInv

LEMMA BreakStream ==
  ASSUME StreamInv, NEW k \in 0 .. Len(wire), Break(k), TypeInv'
  PROVE  StreamInv'
<1>0. /\ ~broken /\ broken' /\ wire' = SubSeq(wire, 1, k) /\ split' = split
      /\ UNCHANGED sendVars /\ UNCHANGED recvVars
  BY DEF Break
<1>1. SendInv'
  BY <1>0 DEF StreamInv, SendInv, sendVars
<1>2. ASSUME "header" \notin split, rPc # "failed" PROVE RecvInv' /\ WireInv'
  <2>0. RecvInv /\ WireInv /\ TypeInv /\ SendInv
    BY <1>2 DEF StreamInv
  <2>1. RecvInv'
    BY <1>0, <2>0 DEF RecvInv, recvVars
  <2>2. ReadTo' = ReadTo /\ ReadTo \in Nat
    BY <1>0, <1>2, <2>0, ReadBounds DEF ReadTo, recvVars
  <2>3. SentTo <= Total /\ SentTo \in Nat
    BY <1>0, <2>0, SentBounds DEF SendInv
  <2>4. wire \in Seq(Byte) /\ Len(wire) \in Nat
    BY <2>0, Numbers DEF TypeInv, TypeOK
  <2>5. Len(wire') = k /\ \A i \in 1 .. k : wire'[i] = wire[i]
    BY <1>0, <2>4
  <2>6. ReadTo + Len(wire') <= Total
    <3>1. ReadTo + Len(wire) = SentTo
      BY <1>0, <2>0 DEF WireInv
    <3>2. Total \in Nat
      BY Lengths DEF Total
    <3> QED
      BY <2>2, <2>3, <2>4, <2>5, <3>1, <3>2
  <2>7. \A i \in 1 .. k : i \in 1 .. Len(wire)
    BY <2>4
  <2> QED
    BY <1>0, <2>0, <2>1, <2>2, <2>5, <2>6, <2>7 DEF WireInv
<1> QED
  BY <1>0, <1>1, <1>2 DEF StreamInv, recvVars

LEMMA StreamStep == StreamInv /\ [Next]_vars => StreamInv'
<1> SUFFICES ASSUME StreamInv, [Next]_vars PROVE StreamInv'
  OBVIOUS
<1>0. TypeInv'
  BY TypeStep DEF StreamInv
<1>1. ASSUME NEW k \in 1 .. toSend, Send(k) PROVE StreamInv'
  BY <1>0, <1>1, SendStream
<1>2. CASE SendFails
  <2>1. SendInv'
    BY <1>2 DEF SendFails, StreamInv, SendInv, netVars, Parts
  <2>2. RecvInv => RecvInv'
    BY <1>2 DEF SendFails, RecvInv, netVars, recvVars
  <2>3. WireInv => WireInv'
    BY <1>2 DEF SendFails, WireInv, ReadTo, netVars, recvVars
  <2> QED
    BY <1>0, <1>2, <2>1, <2>2, <2>3 DEF SendFails, StreamInv, netVars, recvVars
<1>3. CASE SendNext
  BY <1>0, <1>3, SendNextStream
<1>4. ASSUME NEW k \in 1 .. toGet, Recv(k) PROVE StreamInv'
  BY <1>0, <1>4, RecvStream
<1>5. CASE RecvFails
  BY <1>0, <1>5 DEF RecvFails, StreamInv, SendInv, netVars, sendVars
<1>6. CASE RecvNext
  BY <1>0, <1>6, RecvNextStream
<1>7. ASSUME NEW k \in 0 .. Len(wire), Break(k) PROVE StreamInv'
  BY <1>0, <1>7, BreakStream
<1>8. CASE UNCHANGED vars
  <2>1. /\ UNCHANGED <<wire, broken, split>> /\ UNCHANGED <<sPc, sBuf, toSend, sLeft>>
        /\ UNCHANGED <<rPc, rBuf, toGet, rLeft, got>>
    BY <1>8 DEF vars, netVars, sendVars, recvVars
  <2>2. SendInv => SendInv'
    BY <2>1 DEF SendInv
  <2>3. RecvInv => RecvInv'
    BY <2>1 DEF RecvInv
  <2>4. WireInv => WireInv'
    BY <2>1 DEF WireInv, ReadTo, SentTo
  <2> QED
    BY <1>0, <2>1, <2>2, <2>3, <2>4 DEF StreamInv
<1> QED
  BY <1>1, <1>2, <1>3, <1>4, <1>5, <1>6, <1>7, <1>8 DEF Next, SenderStep, ReceiverStep

(* For any file and any sizes of buffer and network: if the size was not     *)
(* split the receiver ends with as many bytes as were sent and with none     *)
(* left over, and the parts that were not split are as they were sent        *)
(* (NetworkReadWrite.c:19-127).                                              *)
THEOREM OnlySplitPartsDifferAlways == Spec => []OnlySplitPartsDiffer
<1>1. StreamInv => OnlySplitPartsDiffer
  <2> SUFFICES ASSUME StreamInv, "header" \notin split, rPc = "done"
               PROVE  /\ Len(got) = Len(File) /\ wire = <<>>
                      /\ "data" \notin split => got = File
                      /\ "hash" \notin split => rBuf = Hash
    BY DEF OnlySplitPartsDiffer
  <2>1. RecvInv /\ WireInv /\ TypeInv /\ SendInv
    BY DEF StreamInv
  <2>2. Len(got) = Len(File)
    BY <2>1 DEF RecvInv
  <2>3. ReadTo = Total /\ Len(wire) \in Nat /\ wire \in Seq(Byte) /\ got \in Seq(Byte)
    BY <2>1, ReadBounds, Numbers DEF TypeInv, TypeOK
  <2>4. ReadTo + Len(wire) <= Total
    <3>1. CASE broken
      BY <2>1, <3>1 DEF WireInv
    <3>2. CASE ~broken
      BY <2>1, <3>2, SentBounds DEF WireInv, SendInv
    <3> QED
      BY <3>1, <3>2
  <2>5. Total \in Nat
    BY Lengths DEF Total
  <2>6. Len(wire) = 0
    BY <2>3, <2>4, <2>5
  <2>7. "data" \notin split => got = File
    BY <2>1, <2>2, <2>3, Lengths, SeqEqual DEF RecvInv
  <2> QED
    BY <2>1, <2>2, <2>3, <2>6, <2>7, EmptySeq DEF RecvInv
<1> QED
  BY StreamInit, StreamStep, <1>1, PTL DEF Spec

-----------------------------------------------------------------------------
(* Neither side waits for the other *)

(* When the sender, or the receiver, has a step: the guards of SenderStep    *)
(* and ReceiverStep.                                                         *)
SenderGoesOn == sPc \in Parts /\ (toSend = 0 \/ broken \/ Len(wire) < Window)
ReceiverGoesOn == rPc \in Parts /\ (toGet = 0 \/ broken \/ wire # <<>>)

BothEnded == sPc \in Ended /\ rPc \in Ended

(* A call only fails when the connection is lost.                            *)
FailedInv == (sPc = "failed" \/ rPc = "failed") => broken

LEMMA FailedStep ==
  ASSUME FailedInv, [Next]_vars
  PROVE  FailedInv'
<1>1. ASSUME NEW k \in 1 .. toSend, Send(k) PROVE FailedInv'
  BY <1>1 DEF FailedInv, Send, recvVars
<1>2. CASE SendFails
  BY <1>2 DEF SendFails, FailedInv, netVars
<1>3. CASE SendNext
  BY <1>3 DEF SendNext, SendChunk, SendBuffer, FailedInv, netVars, recvVars
<1>4. ASSUME NEW k \in 1 .. toGet, Recv(k) PROVE FailedInv'
  BY <1>4 DEF FailedInv, Recv, sendVars
<1>5. CASE RecvFails
  BY <1>5 DEF RecvFails, FailedInv, netVars
<1>6. CASE RecvNext
  BY <1>6 DEF RecvNext, RecvChunk, RecvBuffer, FailedInv, netVars, sendVars
<1>7. ASSUME NEW k \in 0 .. Len(wire), Break(k) PROVE FailedInv'
  BY <1>7 DEF Break, FailedInv
<1>8. CASE UNCHANGED vars
  BY <1>8 DEF vars, netVars, sendVars, recvVars, FailedInv
<1> QED
  BY <1>1, <1>2, <1>3, <1>4, <1>5, <1>6, <1>7, <1>8 DEF Next, SenderStep, ReceiverStep

(* The receiver has room for what it has not read yet, so a sender that has  *)
(* finished has left it enough.                                              *)
LEMMA LeftToRead ==
  ASSUME TypeInv, RecvInv, rPc \in Parts, toGet > 0
  PROVE  ReadTo < Total
<1>1. rLeft \in Nat /\ toGet \in Nat /\ (rPc = "data" => rLeft > 0 /\ rLeft <= Len(File))
  BY Lengths DEF TypeInv, TypeOK, RecvInv
<1>2. rPc = "data" => ChunkOf(rLeft) \in 1 .. rLeft
  BY <1>1, ChunkBounds
<1> QED
  BY <1>1, <1>2, Lengths DEF ReadTo, From, Size, Total, Parts

(* As long as the size was not split, at every moment one side has a step to *)
(* make until both calls have returned: the sender never fills the network   *)
(* with bytes nobody asks for, and the receiver never waits for bytes that   *)
(* are not sent, whatever happened to the chunks (NetworkReadWrite.c:14-127).*)
NobodyIsStuck ==
  "header" \notin split => BothEnded \/ SenderGoesOn \/ ReceiverGoesOn

THEOREM NobodyIsStuckAlways == Spec => []NobodyIsStuck
<1>1. StreamInv /\ FailedInv => NobodyIsStuck
  <2> SUFFICES ASSUME StreamInv, FailedInv, "header" \notin split, ~BothEnded,
                      ~SenderGoesOn, ~ReceiverGoesOn
               PROVE  FALSE
    BY DEF NobodyIsStuck
  <2>1. TypeInv /\ SendInv /\ sPc \in Parts \cup Ended /\ rPc \in Parts \cup Ended
    BY DEF StreamInv, TypeInv, TypeOK
  <2>2. ~broken
    BY <2>1 DEF BothEnded, SenderGoesOn, ReceiverGoesOn
  <2>3. sPc # "failed" /\ rPc # "failed"
    BY <2>2 DEF FailedInv
  <2>4. RecvInv /\ WireInv
    BY <2>3 DEF StreamInv
  <2>5. /\ SentTo \in Nat /\ SentTo <= Total /\ ReadTo \in Nat
        /\ rPc = "done" => ReadTo = Total
        /\ Len(wire) \in Nat /\ toSend \in Nat /\ toGet \in Nat /\ Total \in Nat
    BY <2>1, <2>3, <2>4, SentBounds, ReadBounds, Numbers, Lengths DEF Total
  <2>6. ReadTo + Len(wire) = SentTo
    BY <2>2, <2>4 DEF WireInv
  <2>7. CASE rPc \in Parts
    (* It waits for bytes, so the wire is empty and the sender has finished. *)
    <3>1. toGet > 0 /\ wire = <<>>
      BY <2>5, <2>7 DEF ReceiverGoesOn
    <3>2. ReadTo < Total
      BY <2>1, <2>4, <2>7, <3>1, LeftToRead
    <3>3. Len(wire) = 0
      BY <3>1
    <3>4. sPc \notin Parts
      BY <2>5, <3>3, WindowAssumption DEF SenderGoesOn
    <3>5. SentTo = Total
      BY <2>1, <2>3, <3>4, Lengths DEF SendInv, SentTo, From, Size, Total, Ended
    <3> QED
      BY <2>5, <2>6, <3>2, <3>3, <3>5
  <2>8. CASE rPc = "done"
    (* It has read all of the stream, so nothing is in the sender's way.     *)
    <3>1. sPc \in Parts
      BY <2>1, <2>8 DEF BothEnded, Ended
    <3>2. Len(wire) = 0
      BY <2>5, <2>6, <2>8
    <3> QED
      BY <3>1, <3>2, WindowAssumption DEF SenderGoesOn
  <2> QED
    BY <2>1, <2>3, <2>7, <2>8 DEF Ended
<1>2. Init => FailedInv
  BY DEF Init, FailedInv
<1> QED
  BY StreamInit, StreamStep, FailedStep, <1>1, <1>2, PTL DEF Spec

==============================================================================
