----------------------------- MODULE FileTransfer -----------------------------
(***************************************************************************)
(* How a file and the packet with its hash get from one program to the     *)
(* other (NetworkReadWrite.c).  uploadFile sends the size in four bytes    *)
(* and then the file in chunks; downloadFile reads them; the hash follows  *)
(* in a packet of its own (procDownloadPersonalDBFile, doFileJob).  All of *)
(* it goes through sendRaw and recvRaw.                                    *)
(*                                                                         *)
(* send and recv may take fewer bytes than they are asked for.  sendRaw    *)
(* and recvRaw then call them again for the rest, but on the buffer's      *)
(* first bytes: the beginning is sent twice, or overwritten.  `split`      *)
(* records which parts of a transfer this has happened to.                 *)
(***************************************************************************)
EXTENDS Naturals, Sequences

CONSTANTS
  File,    \* content of the file sent
  Hash,    \* the packet with its hash
  Cache,   \* NETWORK_CACHE_SIZE
  Junk,    \* what an uninitialised byte holds
  Window   \* number of bytes that fit between the two programs

Byte == 0 .. 255
MaxLong == 2147483647  \* the largest result of ftell

ASSUME FileAssumption == File \in Seq(Byte) /\ Len(File) <= MaxLong
ASSUME HashAssumption == Hash \in Seq(Byte) /\ Len(Hash) > 0
ASSUME CacheAssumption == Cache \in Nat \ {0}
ASSUME JunkAssumption == Junk \in Byte
ASSUME WindowAssumption == Window \in Nat \ {0}

VARIABLES
  wire,    \* the bytes under way
  broken,  \* the connection is lost
  split,   \* parts that were sent or received in more than one piece
  sPc,     \* what the sender is sending
  sBuf,    \* the buffer given to sendRaw
  toSend,  \* left of sendRaw
  sLeft,   \* left of uploadFile
  rPc,     \* what the receiver is receiving
  rBuf,    \* the buffer given to recvRaw
  toGet,   \* left of recvRaw
  rLeft,   \* left of downloadFile
  got      \* the file written so far

netVars == <<wire, broken, split>>
sendVars == <<sPc, sBuf, toSend, sLeft>>
recvVars == <<rPc, rBuf, toGet, rLeft, got>>
vars == <<netVars, sendVars, recvVars>>

Parts == {"header", "data", "hash"}
Ended == {"done", "failed"}

TypeOK ==
  /\ wire \in Seq(Byte)
  /\ broken \in BOOLEAN
  /\ split \subseteq Parts
  /\ sPc \in Parts \cup Ended
  /\ sBuf \in Seq(Byte)
  /\ toSend \in 0 .. Len(sBuf)
  /\ sLeft \in 0 .. Len(File)
  /\ rPc \in Parts \cup Ended
  /\ rBuf \in Seq(Byte)
  /\ toGet \in 0 .. Len(rBuf)
  /\ rLeft \in Nat
  /\ got \in Seq(Byte)

(* htonl and ntohl *)
Encode(n) == <<n \div 16777216, (n \div 65536) % 256, (n \div 256) % 256, n % 256>>
Decode(b) == 16777216 * b[1] + 65536 * b[2] + 256 * b[3] + b[4]

Filled(n, byte) == [i \in 1 .. n |-> byte]
ChunkOf(left) == IF left < Cache THEN left ELSE Cache

Init ==
  /\ wire = <<>> /\ broken = FALSE /\ split = {}
  /\ sPc = "header" /\ sBuf = Encode(Len(File)) /\ toSend = 4 /\ sLeft = Len(File)
  /\ rPc = "header" /\ rBuf = Filled(4, 0) /\ toGet = 4 /\ rLeft = 0 /\ got = <<>>

Split(part, piece, left) == split' = IF piece < left THEN split \cup {part} ELSE split

-----------------------------------------------------------------------------
(* The sender *)

(* One send: k bytes from the beginning of the buffer. *)
Send(k) ==
  /\ sPc \in Parts /\ toSend > 0 /\ ~broken
  /\ k <= toSend /\ Len(wire) + k <= Window
  /\ wire' = wire \o SubSeq(sBuf, 1, k)
  /\ toSend' = toSend - k
  /\ Split(sPc, k, toSend)
  /\ UNCHANGED <<broken, sPc, sBuf, sLeft, recvVars>>

SendFails ==
  /\ sPc \in Parts /\ toSend > 0 /\ broken
  /\ sPc' = "failed"
  /\ UNCHANGED <<netVars, sBuf, toSend, sLeft, recvVars>>

SendBuffer(part, buf) == sPc' = part /\ sBuf' = buf /\ toSend' = Len(buf)

(* uploadFile reads the next chunk, or is done and the hash is sent. *)
SendChunk(left) ==
  /\ sLeft' = left
  /\ IF left > 0
     THEN LET sent == Len(File) - left
          IN  SendBuffer("data", SubSeq(File, sent + 1, sent + ChunkOf(left)))
     ELSE SendBuffer("hash", Hash)

(* Mutant of SendNext: left -= NETWORK_CACHE_SIZE. *)
SendNextByCache ==
  /\ toSend = 0
  /\ \/ sPc = "header" /\ SendChunk(sLeft)
     \/ sPc = "data" /\ SendChunk(sLeft - Cache)
     \/ sPc = "hash" /\ sPc' = "done" /\ UNCHANGED <<sBuf, toSend, sLeft>>
  /\ UNCHANGED <<netVars, recvVars>>

(* sendRaw has returned 1. *)
SendNext ==
  /\ toSend = 0
  /\ \/ sPc = "header" /\ SendChunk(sLeft)
     \/ sPc = "data" /\ SendChunk(sLeft - ChunkOf(sLeft))
     \/ sPc = "hash" /\ sPc' = "done" /\ UNCHANGED <<sBuf, toSend, sLeft>>
  /\ UNCHANGED <<netVars, recvVars>>

-----------------------------------------------------------------------------
(* The receiver *)

(* One recv: the first k bytes that have arrived, to the beginning of the    *)
(* buffer.                                                                   *)
Recv(k) ==
  /\ rPc \in Parts /\ toGet > 0
  /\ k <= toGet /\ k <= Len(wire)
  /\ rBuf' = [i \in DOMAIN rBuf |-> IF i <= k THEN wire[i] ELSE rBuf[i]]
  /\ wire' = SubSeq(wire, k + 1, Len(wire))
  /\ toGet' = toGet - k
  /\ Split(rPc, k, toGet)
  /\ UNCHANGED <<broken, sendVars, rPc, rLeft, got>>

RecvFails ==
  /\ rPc \in Parts /\ toGet > 0 /\ broken /\ wire = <<>>
  /\ rPc' = "failed"
  /\ UNCHANGED <<netVars, sendVars, rBuf, toGet, rLeft, got>>

RecvBuffer(part, buf, n) == rPc' = part /\ rBuf' = buf /\ toGet' = n

(* Mutant of RecvChunk: a whole buffer is asked for when less is left.       *)
RecvFullChunk(left, buf) ==
  /\ rLeft' = left
  /\ IF left > 0
     THEN RecvBuffer("data", buf, Cache)
     ELSE RecvBuffer("hash", Filled(Len(Hash), 0), Len(Hash))

(* downloadFile asks for the next chunk, or is done and the packet is read.  *)
RecvChunk(left, buf) ==
  /\ rLeft' = left
  /\ IF left > 0
     THEN RecvBuffer("data", buf, ChunkOf(left))
     ELSE RecvBuffer("hash", Filled(Len(Hash), 0), Len(Hash))

(* Mutant of RecvNext: fwrite writes the whole buffer. *)
WriteFullBuffer ==
  /\ toGet = 0
  /\ \/ /\ rPc = "header"
        /\ RecvChunk(Decode(rBuf), Filled(Cache, Junk))
        /\ UNCHANGED got
     \/ /\ rPc = "data"
        /\ got' = got \o rBuf
        /\ RecvChunk(rLeft - ChunkOf(rLeft), rBuf)
     \/ /\ rPc = "hash" /\ rPc' = "done"
        /\ UNCHANGED <<rBuf, toGet, rLeft, got>>
  /\ UNCHANGED <<netVars, sendVars>>

(* recvRaw has returned 1.  dataBuffer keeps its content between chunks. *)
RecvNext ==
  /\ toGet = 0
  /\ \/ /\ rPc = "header"
        /\ RecvChunk(Decode(rBuf), Filled(Cache, Junk))
        /\ UNCHANGED got
     \/ /\ rPc = "data"
        /\ got' = got \o SubSeq(rBuf, 1, ChunkOf(rLeft))
        /\ RecvChunk(rLeft - ChunkOf(rLeft), rBuf)
     \/ /\ rPc = "hash" /\ rPc' = "done"
        /\ UNCHANGED <<rBuf, toGet, rLeft, got>>
  /\ UNCHANGED <<netVars, sendVars>>

-----------------------------------------------------------------------------

(* The connection is lost, with some of the bytes under way. *)
Break(k) ==
  /\ ~broken
  /\ broken' = TRUE
  /\ wire' = SubSeq(wire, 1, k)
  /\ UNCHANGED <<split, sendVars, recvVars>>

SenderStep == (\E k \in 1 .. toSend : Send(k)) \/ SendFails \/ SendNext
ReceiverStep == (\E k \in 1 .. toGet : Recv(k)) \/ RecvFails \/ RecvNext

Next == SenderStep \/ ReceiverStep \/ \E k \in 0 .. Len(wire) : Break(k)

Spec == Init /\ [][Next]_vars

(* Both programs run. *)
FairSpec == Spec /\ WF_vars(SenderStep) /\ WF_vars(ReceiverStep)

-----------------------------------------------------------------------------
(* Properties *)

(* Both calls returned 1, and what was written is what was read. *)
Whole == got = File /\ rBuf = Hash

(* A file that has been received is the file that was sent ("received until  *)
(* the given size has come", NetworkReadWrite.c:11).                         *)
ReceivedIsSent == rPc = "done" => Whole

(* As long as the size was not split the receiver reads as many bytes as     *)
(* were sent and stops where the packet begins, so that nothing is left for  *)
(* the next packet, whatever happened to the chunks; and what was not split  *)
(* arrives as it was sent: the damage of a chunk stays in the file, and the  *)
(* hash to compare it with is the right one (lines 21-25, 64-86, 103-124).   *)
OnlySplitPartsDiffer ==
  "header" \notin split /\ rPc = "done" =>
    /\ Len(got) = Len(File) /\ wire = <<>>
    /\ "data" \notin split => got = File
    /\ "hash" \notin split => rBuf = Hash

(* Then also both sides come to an end, with the file or because the        *)
(* connection is lost: neither waits for bytes the other does not send.      *)
BothEnd == <>("header" \in split \/ (sPc \in Ended /\ rPc \in Ended))

==============================================================================
