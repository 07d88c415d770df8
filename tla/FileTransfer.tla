---------------------------- MODULE FileTransfer ----------------------------
(***************************************************************************)
(* The file transfer of transport/webrtc/data_channel.rs: send_file reads  *)
(* a file chunk by chunk, on_message collects the chunks by their index,   *)
(* and the EOF frame makes assemble compare the checksums and write the    *)
(* file.  Nobody calls either yet, so the callers are taken to do what the *)
(* types allow: send again, with the same receiver or with a new one.      *)
(*                                                                         *)
(* Which data channel is negotiated is left to the caller as well: frames  *)
(* may be lost and may overtake each other.  SHA-256 is the content itself *)
(* (no collisions).  The header frame is left out, since on_message stores *)
(* total_chunks and nothing reads it; progress events are left out too.    *)
(***************************************************************************)
EXTENDS Naturals, Sequences, FileDelivery

CONSTANTS
  ChunkSize,   \* bytes per chunk (65536)
  MaxLen,      \* length of the longest file
  MaxEdits,    \* times the file changes on the sender's disk
  MaxSends     \* calls of send_file

ASSUME FileAssumption ==
  /\ Contents # {} /\ \A c \in Contents : c \in Seq(Nat) /\ Len(c) <= MaxLen
  /\ ChunkSize \in Nat \ {0} /\ MaxLen \in Nat \ {0}
  /\ MaxEdits \in Nat /\ MaxSends \in Nat

VARIABLES
  file, edits,        \* the file on the sender's disk
  sending,            \* send_file is between its header and its EOF frame
  index, pos, hashed, \* chunk_index, bytes_sent, what the hasher has seen
  sends, source,      \* calls so far; the file, if it is as when this one began
  net,                \* frames on the way
  chunks,             \* BTreeMap of the receiver; <<>> for no chunk
  from,               \* the call that sent the chunk at each index
  writing,            \* frames whose contents tokio::fs::write is writing
  meant               \* the file the sender had while it sent what dest holds

senderVars == <<file, edits, sending, index, pos, hashed, sends, source>>
recvVars   == <<chunks, from, writing, dest, meant>>
vars == <<senderVars, recvVars, net, offered>>

Indices == 0..(MaxLen - 1)

\* The payloads below index n, in the order of their indices.
Joined(payloads, n) ==
  LET upTo[i \in 0..n] == IF i = 0 THEN <<>> ELSE upTo[i - 1] \o payloads[i - 1]
  IN upTo[n]

Assembled == Joined(chunks, MaxLen)

Init ==
  /\ DeliveryInit
  /\ file \in Contents /\ edits = 0
  /\ sending = FALSE /\ index = 0 /\ pos = 0 /\ hashed = <<>>
  /\ sends = 0 /\ source = {}
  /\ net = {}
  /\ chunks = [i \in Indices |-> <<>>] /\ from = [i \in Indices |-> 0]
  /\ writing = {} /\ meant = {}

----------------------------------------------------------------------------
\* The user edits the file, perhaps between two reads.
Edit(c) ==
  /\ edits < MaxEdits /\ c # file
  /\ file' = c /\ edits' = edits + 1 /\ source' = {}
  /\ UNCHANGED <<sending, index, pos, hashed, sends, net, offered, recvVars>>

\* send_file up to the opened file.
BeginSend ==
  /\ ~sending /\ sends < MaxSends
  /\ sending' = TRUE /\ index' = 0 /\ pos' = 0 /\ hashed' = <<>>
  /\ sends' = sends + 1 /\ source' = {file}
  /\ UNCHANGED <<file, edits, net, offered, recvVars>>

\* What file.read returns.
NextChunk ==
  SubSeq(file, pos + 1, IF pos + ChunkSize < Len(file) THEN pos + ChunkSize ELSE Len(file))

\* (Mutant: the last, short chunk is not hashed.)
SendChunkHashesFull ==
  /\ sending /\ pos < Len(file)
  /\ net' = net \cup {[kind |-> "chunk", call |-> sends, index |-> index, bytes |-> NextChunk]}
  /\ hashed' = IF Len(NextChunk) = ChunkSize THEN hashed \o NextChunk ELSE hashed
  /\ index' = index + 1 /\ pos' = pos + Len(NextChunk)
  /\ UNCHANGED <<file, edits, sending, sends, source, offered, recvVars>>

\* One round of the loop.
SendChunk ==
  /\ sending /\ pos < Len(file)
  /\ net' = net \cup {[kind |-> "chunk", call |-> sends, index |-> index, bytes |-> NextChunk]}
  /\ hashed' = hashed \o NextChunk
  /\ index' = index + 1 /\ pos' = pos + Len(NextChunk)
  /\ UNCHANGED <<file, edits, sending, sends, source, offered, recvVars>>

\* read returns 0: the EOF frame with the checksum of what was read.
SendEof ==
  /\ sending /\ pos >= Len(file)
  /\ net' = net \cup {[kind |-> "eof", call |-> sends, index |-> index,
                       bytes |-> hashed, source |-> source]}
  /\ offered' = offered \cup {hashed}
  /\ sending' = FALSE
  /\ UNCHANGED <<file, edits, index, pos, hashed, sends, source, recvVars>>

\* A read or a send fails; frames sent before may still arrive.
SendFails ==
  /\ sending
  /\ sending' = FALSE
  /\ UNCHANGED <<file, edits, index, pos, hashed, sends, source, net, offered, recvVars>>

Lose(m) ==
  /\ net' = net \ {m}
  /\ UNCHANGED <<senderVars, recvVars, offered>>

----------------------------------------------------------------------------
Ready == writing = {}

\* (Mutant: or_insert keeps the chunk that is there.)
TakeChunkOnce(m) ==
  /\ Ready /\ m.kind = "chunk"
  /\ net' = net \ {m}
  /\ IF chunks[m.index] = <<>>
       THEN chunks' = [chunks EXCEPT ![m.index] = m.bytes] ELSE UNCHANGED chunks
  /\ from' = [from EXCEPT ![m.index] = m.call]
  /\ UNCHANGED <<senderVars, writing, dest, meant, offered>>

\* A binary frame.
TakeChunk(m) ==
  /\ Ready /\ m.kind = "chunk"
  /\ net' = net \ {m}
  /\ chunks' = [chunks EXCEPT ![m.index] = m.bytes]
  /\ from' = [from EXCEPT ![m.index] = m.call]
  /\ UNCHANGED <<senderVars, writing, dest, meant, offered>>

\* (Mutant: the checksum is not compared.)
TakeEofUnchecked(m) ==
  /\ Ready /\ m.kind = "eof"
  /\ net' = net \ {m}
  /\ writing' = {[m EXCEPT !.bytes = Assembled]} /\ dest' = Torn
  /\ UNCHANGED <<senderVars, chunks, from, meant, offered>>

\* The EOF frame: assemble compares, and fs::write opens and truncates the
\* destination.  On a mismatch, or when a directory cannot be made, Err; the
\* chunks stay where they are.
TakeEof(m) ==
  /\ Ready /\ m.kind = "eof"
  /\ net' = net \ {m}
  /\ \/ Assembled = m.bytes /\ writing' = {m} /\ dest' = Torn
     \/ UNCHANGED <<writing, dest>>
  /\ UNCHANGED <<senderVars, chunks, from, meant, offered>>

\* on_message returns Some(path).
WriteDone ==
  /\ \E m \in writing : dest' = Whole(m.bytes) /\ meant' = m.source
  /\ writing' = {}
  /\ UNCHANGED <<senderVars, chunks, from, net, offered>>

\* The disk is full, or the daemon is killed: what is written stays.
WriteFails ==
  /\ ~Ready
  /\ writing' = {}
  /\ UNCHANGED <<senderVars, chunks, from, dest, meant, net, offered>>

\* The caller makes a new receiver for the same file_id and dest_dir.
NewReceiver ==
  /\ Ready
  /\ chunks' = [i \in Indices |-> <<>>] /\ from' = [i \in Indices |-> 0]
  /\ UNCHANGED <<senderVars, writing, dest, meant, net, offered>>

----------------------------------------------------------------------------
Next ==
  \/ \E c \in Contents : Edit(c)
  \/ BeginSend \/ SendChunk \/ SendEof \/ SendFails
  \/ \E m \in net : Lose(m) \/ TakeChunk(m) \/ TakeEof(m)
  \/ WriteDone \/ WriteFails \/ NewReceiver

Spec == Init /\ [][Next]_vars

----------------------------------------------------------------------------
Bytes == Seq(Nat)
Chunk == [kind : {"chunk"}, call : Nat, index : Indices, bytes : Bytes]
Eof   == [kind : {"eof"}, call : Nat, index : 0..MaxLen, bytes : Bytes, source : SUBSET Contents]

TypeOK ==
  /\ file \in Contents /\ edits \in 0..MaxEdits
  /\ sending \in BOOLEAN
  /\ index \in 0..MaxLen /\ pos \in 0..MaxLen /\ hashed \in Bytes
  /\ sends \in 0..MaxSends /\ \A c \in source : c \in Contents
  /\ \A m \in net : m \in Chunk \/ m \in Eof
  /\ chunks \in [Indices -> Bytes] /\ from \in [Indices -> Nat]
  /\ \A m \in writing : m \in Eof
  /\ \A c \in meant : c \in Contents
  /\ \A c \in offered : c \in Bytes

\* A transfer that has arrived is accepted: if each index below the number of
\* chunks of a call holds the chunk of that call, and no higher index holds
\* anything, the checksums agree, however the frames overtook each other and
\* whatever earlier calls have left behind below that.
ArrivedIsAccepted ==
  \A m \in net :
    m.kind = "eof" /\ (\A i \in Indices : IF i < m.index THEN from[i] = m.call
                                                        ELSE chunks[i] = <<>>)
      => Assembled = m.bytes

\* A file that was not edited while it was sent is what is saved, byte for
\* byte: retries, leftovers and mixed calls never make another file of it.
UneditedIsExact == dest.is = "whole" => \A c \in meant : dest.holds = c

\* The receiver keeps the promise of FileDelivery.
Delivery == INSTANCE FileDelivery WITH Contents <- Bytes
DeliversWhole == Delivery!DeliverySpec
=============================================================================
