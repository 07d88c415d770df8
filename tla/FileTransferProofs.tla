------------------------- MODULE FileTransferProofs -------------------------
(***************************************************************************)
(* Proofs about FileTransfer, for files, chunks and numbers of calls of    *)
(* any size: the receiver keeps the promise of FileDelivery, a file that   *)
(* was not edited while it was sent is what is saved, and a transfer that  *)
(* has arrived is accepted.                                                *)
(*                                                                         *)
(* For the first two it does not matter what the assembled chunks are:     *)
(* the invariant Inv follows the checksum of the EOF frame from the hasher *)
(* through the frame to the destination.  The third needs what joining     *)
(* gives, by induction on the number of chunks, and the payloads that each *)
(* call has sent (ArriveInv).                                              *)
(***************************************************************************)
EXTENDS FileTransfer, SequenceTheorems, WellFoundedInduction, TLAPS

\* The hasher has seen the file up to pos, unless it was edited meanwhile.
ReadInv ==
  /\ index <= pos
  /\ \A c \in source : c = file /\ pos <= Len(c) /\ hashed = SubSeq(c, 1, pos)

\* What an EOF frame says was offered, and is the file that was sent.
Truthful(m) == m.bytes \in offered /\ \A c \in m.source : c = m.bytes

FrameInv ==
  /\ \A m \in net : m.kind = "eof" => Truthful(m)
  /\ \A m \in writing : Truthful(m) /\ dest = Torn

DestInv ==
  \/ dest = NoFile
  \/ dest = Torn /\ offered # {}
  \/ \E c \in offered : dest = Whole(c) /\ \A s \in meant : s = c

Inv == TypeOK /\ ReadInv /\ FrameInv /\ DestInv

----------------------------------------------------------------------------
\* What file.read returns, and where it leaves the position.
LEMMA Reading ==
  ASSUME TypeOK, pos < Len(file)
  PROVE  /\ NextChunk \in Seq(Nat) /\ Len(NextChunk) > 0
         /\ pos + Len(NextChunk) \in 0..Len(file)
         /\ Len(file) \in 0..MaxLen
         /\ SubSeq(file, 1, pos) \o NextChunk = SubSeq(file, 1, pos + Len(NextChunk))
<1> DEFINE q == IF pos + ChunkSize < Len(file) THEN pos + ChunkSize ELSE Len(file)
<1>1. file \in Seq(Nat) /\ Len(file) <= MaxLen /\ Len(file) \in Nat /\ pos \in Nat /\ MaxLen \in Nat
  BY FileAssumption DEF TypeOK
<1>2. q \in (pos + 1)..Len(file) /\ q \in Int /\ pos + 1 \in Int
  BY <1>1, FileAssumption
<1>3. NextChunk = SubSeq(file, pos + 1, q)
  BY DEF NextChunk
<1>4. \A i \in (pos + 1)..q : file[i] \in Nat
  BY <1>1, <1>2
<1> HIDE DEF q
<1>5. NextChunk \in Seq(Nat) /\ Len(NextChunk) = q - pos
  BY <1>1, <1>2, <1>3, <1>4, SubSeqProperties, SMTT(20)
<1>6. SubSeq(file, 1, pos) \o NextChunk = SubSeq(file, 1, q)
  <2>1. 1 \in 1..(Len(file) + 1) /\ pos \in (1 - 1)..Len(file) /\ q \in pos..Len(file)
    BY <1>1, <1>2
  <2>2. 1 - 1 = 0 /\ Len(file) + 1 \in Nat
    BY <1>1
  <2>3. SubSeq(file, 1, pos) \o SubSeq(file, pos + 1, q) = SubSeq(file, 1, q)
    BY <1>1, <2>1, <2>2, ConcatAdjacentSubSeq, SMTT(30)
  <2> QED  BY <1>3, <2>3
<1> QED  BY <1>1, <1>2, <1>5, <1>6

LEMMA InvInit == Init => Inv
<1> SUFFICES ASSUME Init PROVE Inv
  OBVIOUS
<1>1. TypeOK
  <2>1. <<>> \in Bytes
    BY DEF Bytes
  <2>2. chunks \in [Indices -> Bytes] /\ from \in [Indices -> Nat]
    BY <2>1 DEF Init
  <2>3. /\ file \in Contents /\ edits \in 0..MaxEdits /\ sending \in BOOLEAN
        /\ index \in 0..MaxLen /\ pos \in 0..MaxLen /\ sends \in 0..MaxSends
    <3>1. 0 \in 0..MaxEdits /\ 0 \in 0..MaxLen /\ 0 \in 0..MaxSends
      BY FileAssumption
    <3> QED  BY <3>1 DEF Init
  <2> QED  BY <2>1, <2>2, <2>3 DEF Init, DeliveryInit, TypeOK
<1>2. ReadInv /\ FrameInv /\ DestInv
  BY DEF Init, DeliveryInit, ReadInv, FrameInv, DestInv
<1> QED  BY <1>1, <1>2 DEF Inv

----------------------------------------------------------------------------
\* The sender, one step per action.
LEMMA SenderKeeps ==
  ASSUME Inv, (\E c \in Contents : Edit(c)) \/ BeginSend \/ SendChunk \/ SendEof \/ SendFails
  PROVE  Inv'
<1> USE DEF Inv, senderVars, recvVars
<1>1. CASE \E c \in Contents : Edit(c)
  <2>1. TypeOK'
    BY <1>1, FileAssumption DEF Edit, TypeOK
  <2>2. (ReadInv /\ FrameInv /\ DestInv)'
    BY <1>1 DEF Edit, ReadInv, FrameInv, DestInv, Truthful
  <2> QED  BY <2>1, <2>2
<1>2. CASE BeginSend
  <2>1. TypeOK'
    BY <1>2, FileAssumption DEF BeginSend, TypeOK, Bytes
  <2>2. ReadInv'
    <3>1. SubSeq(file, 1, 0) = <<>>
      BY SubSeqEmpty
    <3>2. Len(file) \in Nat
      BY FileAssumption DEF TypeOK
    <3> QED  BY <1>2, <3>1, <3>2 DEF BeginSend, ReadInv
  <2>3. (FrameInv /\ DestInv)'
    BY <1>2 DEF BeginSend, FrameInv, DestInv, Truthful
  <2> QED  BY <2>1, <2>2, <2>3
<1>3. CASE SendChunk
  <2> DEFINE m == [kind |-> "chunk", call |-> sends, index |-> index, bytes |-> NextChunk]
  <2>0. pos < Len(file) /\ TypeOK
    BY <1>3 DEF SendChunk
  <2>1. /\ NextChunk \in Seq(Nat) /\ Len(NextChunk) > 0
        /\ pos + Len(NextChunk) \in 0..Len(file) /\ Len(file) \in 0..MaxLen
        /\ SubSeq(file, 1, pos) \o NextChunk = SubSeq(file, 1, pos + Len(NextChunk))
    BY <2>0, Reading
  <2>2. /\ pos \in Nat /\ index \in Nat /\ index <= pos /\ MaxLen \in Nat
        /\ index \in Indices /\ sends \in Nat
        /\ index + 1 \in 0..MaxLen /\ pos + Len(NextChunk) \in 0..MaxLen
        /\ index + 1 <= pos + Len(NextChunk)
    <3>1. pos \in Nat /\ index \in Nat /\ sends \in Nat /\ MaxLen \in Nat /\ index <= pos
      BY FileAssumption DEF TypeOK, ReadInv
    <3>2. Len(NextChunk) \in Nat /\ Len(file) \in Nat
      BY <2>1, LenProperties
    <3> QED  BY <2>0, <2>1, <3>1, <3>2 DEF Indices
  <2>3. m \in Chunk
    BY <2>1, <2>2 DEF Chunk, Bytes
  <2>4. hashed \o NextChunk \in Bytes
    BY <2>0, <2>1 DEF TypeOK, Bytes
  <2>5. TypeOK'
    <3> HIDE DEF m
    <3>1. net' = net \cup {m} /\ hashed' = hashed \o NextChunk
          /\ index' = index + 1 /\ pos' = pos + Len(NextChunk)
      BY <1>3 DEF SendChunk, m
    <3> QED  BY <1>3, <2>0, <2>2, <2>3, <2>4, <3>1 DEF SendChunk, TypeOK
  <2>6. ReadInv'
    <3>1. /\ file' = file /\ source' = source /\ hashed' = hashed \o NextChunk
          /\ index' = index + 1 /\ pos' = pos + Len(NextChunk)
      BY <1>3 DEF SendChunk
    <3>2. pos + Len(NextChunk) <= Len(file)
      BY <2>1
    <3>3. ASSUME NEW c \in source
          PROVE  c = file /\ pos' <= Len(c) /\ hashed' = SubSeq(c, 1, pos')
      <4>1. c = file /\ hashed = SubSeq(file, 1, pos)
        BY DEF ReadInv
      <4>2. hashed' = SubSeq(file, 1, pos')
        BY <2>1, <3>1, <4>1
      <4> QED  BY <3>1, <3>2, <4>1, <4>2
    <3> QED  BY <2>2, <3>1, <3>3 DEF ReadInv
  <2>7. (FrameInv /\ DestInv)'
    BY <1>3 DEF SendChunk, FrameInv, DestInv, Truthful
  <2> QED  BY <2>5, <2>6, <2>7
<1>4. CASE SendEof
  <2> DEFINE m == [kind |-> "eof", call |-> sends, index |-> index,
                   bytes |-> hashed, source |-> source]
  <2>1. \A c \in source : c = hashed
    <3> SUFFICES ASSUME NEW c \in source PROVE c = hashed
      OBVIOUS
    <3>1. c = file /\ pos <= Len(c) /\ hashed = SubSeq(c, 1, pos) /\ c \in Seq(Nat)
      BY FileAssumption DEF ReadInv, TypeOK
    <3>2. pos = Len(c)
      BY <1>4, <3>1 DEF SendEof, TypeOK
    <3> QED  BY <3>1, <3>2, SubSeqFull
  <2>2. m \in Eof
    BY FileAssumption DEF TypeOK, Eof
  <2>3. TypeOK'
    <3> HIDE DEF m
    <3>1. net' = net \cup {m} /\ offered' = offered \cup {hashed}
      BY <1>4 DEF SendEof, m
    <3> QED  BY <1>4, <2>2, <3>1 DEF SendEof, TypeOK
  <2>4. ReadInv'
    BY <1>4 DEF SendEof, ReadInv
  <2>5. (FrameInv /\ DestInv)'
    BY <1>4, <2>1 DEF SendEof, FrameInv, DestInv, Truthful
  <2> QED  BY <2>3, <2>4, <2>5
<1>5. CASE SendFails
  <2>1. TypeOK'
    BY <1>5 DEF SendFails, TypeOK
  <2>2. (ReadInv /\ FrameInv /\ DestInv)'
    BY <1>5 DEF SendFails, ReadInv, FrameInv, DestInv, Truthful
  <2> QED  BY <2>1, <2>2
<1> QED  BY <1>1, <1>2, <1>3, <1>4, <1>5

\* The channel and the receiver, one step per action.
LEMMA ReceiverKeeps ==
  ASSUME Inv,
         \/ \E m \in net : Lose(m) \/ TakeChunk(m) \/ TakeEof(m)
         \/ WriteDone \/ WriteFails \/ NewReceiver
  PROVE  Inv'
<1> USE DEF Inv, senderVars, recvVars
<1>1. CASE \E m \in net : Lose(m)
  <2>1. TypeOK'
    BY <1>1 DEF Lose, TypeOK
  <2>2. (ReadInv /\ FrameInv /\ DestInv)'
    BY <1>1 DEF Lose, ReadInv, FrameInv, DestInv, Truthful
  <2> QED  BY <2>1, <2>2
<1>2. ASSUME NEW m \in net, TakeChunk(m) PROVE Inv'
  <2>1. m \in Chunk
    BY <1>2 DEF TakeChunk, TypeOK, Eof
  <2>2. m.index \in Indices /\ m.bytes \in Bytes /\ m.call \in Nat
    BY <2>1 DEF Chunk
  <2>3. TypeOK'
    BY <1>2, <2>2 DEF TakeChunk, TypeOK
  <2>4. (ReadInv /\ FrameInv /\ DestInv)'
    BY <1>2 DEF TakeChunk, ReadInv, FrameInv, DestInv, Truthful
  <2> QED  BY <2>3, <2>4
<1>3. ASSUME NEW m \in net, TakeEof(m) PROVE Inv'
  <2>1. m \in Eof
    BY <1>3 DEF TakeEof, TypeOK, Chunk
  <2>2. TypeOK'
    BY <1>3, <2>1 DEF TakeEof, TypeOK
  <2>3. ReadInv'
    BY <1>3 DEF TakeEof, ReadInv
  <2>4. Truthful(m)
    BY <1>3 DEF TakeEof, FrameInv
  <2>5. FrameInv' /\ DestInv'
    BY <1>3, <2>4 DEF TakeEof, Ready, FrameInv, DestInv, Truthful
  <2> QED  BY <2>2, <2>3, <2>5
<1>4. CASE WriteDone
  <2>1. PICK m \in writing : dest' = Whole(m.bytes) /\ meant' = m.source
    BY <1>4 DEF WriteDone
  <2>2. m \in Eof /\ Truthful(m)
    BY DEF TypeOK, FrameInv
  <2>3. TypeOK'
    BY <1>4, <2>1, <2>2 DEF WriteDone, TypeOK, Eof
  <2>4. (ReadInv /\ FrameInv)'
    BY <1>4 DEF WriteDone, ReadInv, FrameInv, Truthful
  <2>5. DestInv'
    BY <1>4, <2>1, <2>2 DEF WriteDone, DestInv, Truthful
  <2> QED  BY <2>3, <2>4, <2>5
<1>5. CASE WriteFails
  <2>1. TypeOK'
    BY <1>5 DEF WriteFails, TypeOK
  <2>2. (ReadInv /\ FrameInv /\ DestInv)'
    BY <1>5 DEF WriteFails, ReadInv, FrameInv, DestInv, Truthful
  <2> QED  BY <2>1, <2>2
<1>6. CASE NewReceiver
  <2>1. TypeOK'
    BY <1>6 DEF NewReceiver, TypeOK, Bytes
  <2>2. (ReadInv /\ FrameInv /\ DestInv)'
    BY <1>6 DEF NewReceiver, ReadInv, FrameInv, DestInv, Truthful
  <2> QED  BY <2>1, <2>2
<1> QED  BY <1>1, <1>2, <1>3, <1>4, <1>5, <1>6

LEMMA InvStep == Inv /\ [Next]_vars => Inv'
<1> SUFFICES ASSUME Inv, [Next]_vars PROVE Inv'
  OBVIOUS
<1>1. CASE UNCHANGED vars
  <2>1. TypeOK'
    BY <1>1 DEF vars, senderVars, recvVars, Inv, TypeOK
  <2>2. (ReadInv /\ FrameInv /\ DestInv)'
    BY <1>1 DEF vars, senderVars, recvVars, Inv, ReadInv, FrameInv, DestInv, Truthful
  <2> QED  BY <2>1, <2>2 DEF Inv
<1>2. CASE Next
  BY <1>2, SenderKeeps, ReceiverKeeps DEF Next
<1> QED  BY <1>1, <1>2

----------------------------------------------------------------------------
\* The invariant holds for any files, edits, losses and retries.
THEOREM Invariant == Spec => []Inv
  BY InvInit, InvStep, PTL DEF Spec

\* The variables of send_file and of the receiver keep their types; in
\* particular every index fits the file (data_channel.rs).
THEOREM TypeCorrect == Spec => []TypeOK
<1>1. Inv => TypeOK
  BY DEF Inv
<1> QED  BY <1>1, Invariant, PTL

\* A file that was not edited while it was sent is what is saved (assemble).
THEOREM Unedited == Spec => []UneditedIsExact
<1>1. Inv => UneditedIsExact
  BY DEF Inv, DestInv, UneditedIsExact, NoFile, Torn, Whole
<1> QED  BY <1>1, Invariant, PTL

\* The transfer implements FileDelivery: the destination is touched only after
\* a whole file was offered, and is one of those whenever it is whole.
THEOREM Delivers == Spec => DeliversWhole
<1>1. Init => Delivery!DeliveryInit
  BY DEF Init, DeliveryInit, NoFile, Delivery!DeliveryInit, Delivery!NoFile
<1>2. Inv /\ Inv' /\ [Next]_vars => [Delivery!DeliveryNext]_(Delivery!deliveryVars)
  <2> SUFFICES ASSUME Inv, Inv', [Next]_vars,
                      ~(UNCHANGED <<offered, dest>>)
               PROVE  Delivery!DeliveryNext
    BY DEF Delivery!deliveryVars
  <2> USE DEF senderVars, recvVars
  <2>1. CASE SendEof
    BY <2>1 DEF SendEof, Inv, TypeOK, Delivery!DeliveryNext, Delivery!Offer
  <2>2. ASSUME NEW m \in net, TakeEof(m) PROVE Delivery!DeliveryNext
    BY <2>2 DEF TakeEof, Inv, FrameInv, Truthful, Torn, Delivery!DeliveryNext,
                Delivery!Tear, Delivery!Torn
  <2>3. CASE WriteDone
    BY <2>3 DEF WriteDone, Inv, FrameInv, Truthful, Torn, Whole, Delivery!DeliveryNext,
                Delivery!Fill, Delivery!Torn, Delivery!Whole
  <2>4. SendEof \/ WriteDone \/ \E m \in net : TakeEof(m)
    BY DEF Next, vars, Edit, BeginSend, SendChunk, SendFails, Lose, TakeChunk,
           WriteFails, NewReceiver
  <2> QED  BY <2>1, <2>2, <2>3, <2>4
<1> QED
  BY <1>1, <1>2, Invariant, PTL DEF Spec, DeliversWhole, Delivery!DeliverySpec

----------------------------------------------------------------------------
(* What the chunks of a call give when they are joined. *)

\* The order of the natural numbers, as a relation.
Below == {p \in Nat \X Nat : p[1] < p[2]}

\* A set of natural numbers that is not empty has a least member.  This is the form
\* in which induction is used here.
LEMMA Least ==
  ASSUME NEW T, T \subseteq Nat, T # {}
  PROVE  \E n \in T : \A m \in T : ~(m < n)
<1>1. IsWellFoundedOn(OpToRel(<, Nat), Nat)
  BY NatLessThanWellFounded
<1>2. OpToRel(<, Nat) = Below
  BY DEF OpToRel, Below
<1>3. IsWellFoundedOn(Below, Nat)
  BY <1>1, <1>2
<1>4. PICK n \in T : \A m \in T : ~(<<m, n>> \in Below)
  BY <1>3, WFMin
<1>5. n \in T /\ \A m \in T : ~(m < n)
  BY <1>4 DEF Below
<1> QED BY <1>5

\* f joins the payloads up to each index.
Joins(f, payloads, n) ==
  f = [i \in 0..n |-> IF i = 0 THEN <<>> ELSE f[i - 1] \o payloads[i - 1]]

\* The values of such a function.
LEMMA JoinsAt ==
  ASSUME NEW c, NEW n \in Nat, NEW f, Joins(f, c, n), NEW i \in 0..n
  PROVE  f[i] = IF i = 0 THEN <<>> ELSE f[i - 1] \o c[i - 1]
<1> DEFINE g == [j \in 0..n |-> IF j = 0 THEN <<>> ELSE f[j - 1] \o c[j - 1]]
<1>1. f = g
  BY Zenon DEF Joins
<1>2. g[i] = IF i = 0 THEN <<>> ELSE f[i - 1] \o c[i - 1]
  OBVIOUS
<1> HIDE DEF g
<1>3. f[i] = g[i]
  BY <1>1
<1> QED BY <1>2, <1>3

\* The recursive function in Joined exists.
LEMMA JoinExists ==
  ASSUME NEW c, NEW n \in Nat
  PROVE  \E f : Joins(f, c, n)
<1> DEFINE T == {k \in Nat : ~ \E f : Joins(f, c, k)}
<1>1. \E f : Joins(f, c, 0)
  <2>1. Joins([i \in 0..0 |-> <<>>], c, 0)
    BY DEF Joins
  <2> QED BY <2>1
<1>2. ASSUME NEW k \in Nat, NEW f, Joins(f, c, k) PROVE \E g : Joins(g, c, k + 1)
  <2> DEFINE g == [i \in 0..(k + 1) |-> IF i <= k THEN f[i] ELSE f[k] \o c[k]]
  <2>1. ASSUME NEW i \in 0..(k + 1) PROVE g[i] = IF i = 0 THEN <<>> ELSE g[i - 1] \o c[i - 1]
    <3>1. CASE i = k + 1
      <4>1. g[i] = f[k] \o c[k] /\ g[k] = f[k] /\ i - 1 = k /\ i # 0
        BY <3>1
      <4> QED BY <4>1
    <3>2. CASE i # k + 1
      <4>1. i \in 0..k
        BY <3>2
      <4> QED BY <4>1, <1>2 DEF Joins
    <3> QED BY <3>1, <3>2
  <2>2. Joins(g, c, k + 1)
    BY <2>1 DEF Joins
  <2> QED BY <2>2
<1> SUFFICES ASSUME T # {} PROVE FALSE
  OBVIOUS
<1>3. PICK k \in T : \A m \in T : ~(m < k)
  BY Least
<1>4. k # 0 /\ k - 1 \in Nat /\ k - 1 \notin T
  BY <1>1, <1>3
<1>5. PICK f : Joins(f, c, k - 1)
  BY <1>4
<1>6. \E g : Joins(g, c, (k - 1) + 1)
  BY <1>2, <1>4, <1>5
<1> QED BY <1>3, <1>4, <1>6

\* Joined is the last value of such a function.
LEMMA JoinedIs ==
  ASSUME NEW c, NEW n \in Nat
  PROVE  \E f : Joins(f, c, n) /\ Joined(c, n) = f[n]
<1>1. \E f : f = [i \in 0..n |-> IF i = 0 THEN <<>> ELSE f[i - 1] \o c[i - 1]]
  BY JoinExists DEF Joins
<1> DEFINE up == CHOOSE f : f = [i \in 0..n |-> IF i = 0 THEN <<>> ELSE f[i - 1] \o c[i - 1]]
<1>2. up = [i \in 0..n |-> IF i = 0 THEN <<>> ELSE up[i - 1] \o c[i - 1]]
  BY <1>1, Zenon
<1>3. Joined(c, n) = up[n]
  BY Zenon DEF Joined
<1> HIDE DEF up
<1> QED BY <1>2, <1>3 DEF Joins

\* What is joined below an index depends on the payloads below it only.
LEMMA JoinsAgree ==
  ASSUME NEW c, NEW e, NEW n \in Nat, NEW m \in Nat, NEW f, NEW g, NEW k \in Nat,
         Joins(f, c, n), Joins(g, e, m), k <= n, k <= m, \A i \in 0..(k - 1) : c[i] = e[i]
  PROVE  f[k] = g[k]
<1> DEFINE T == {i \in 0..k : f[i] # g[i]}
<1> SUFFICES ASSUME T # {} PROVE FALSE
  OBVIOUS
<1>0. T \subseteq Nat
  OBVIOUS
<1>1. PICK i \in T : \A j \in T : ~(j < i)
  <2> HIDE DEF T
  <2> QED BY <1>0, Least
<1>2. f[0] = g[0]
  <2>1. 0 \in 0..n /\ 0 \in 0..m
    OBVIOUS
  <2>2. f[0] = <<>>
    BY <2>1, JoinsAt
  <2>3. g[0] = <<>>
    BY <2>1, JoinsAt
  <2> QED BY <2>2, <2>3
<1>3. i # 0 /\ i - 1 \in 0..(k - 1) /\ i \in 0..n /\ i \in 0..m /\ f[i - 1] = g[i - 1]
  BY <1>1, <1>2
<1>4. f[i] = f[i - 1] \o c[i - 1] /\ g[i] = g[i - 1] \o e[i - 1]
  BY <1>3, JoinsAt
<1> QED BY <1>1, <1>3, <1>4

\* The same for Joined.
LEMMA JoinedSame ==
  ASSUME NEW c, NEW e, NEW n \in Nat, \A i \in 0..(n - 1) : c[i] = e[i]
  PROVE  Joined(c, n) = Joined(e, n)
<1>1. PICK f : Joins(f, c, n) /\ Joined(c, n) = f[n]
  BY JoinedIs
<1>2. PICK g : Joins(g, e, n) /\ Joined(e, n) = g[n]
  BY JoinedIs
<1> QED BY <1>1, <1>2, JoinsAgree

\* One payload more.
LEMMA JoinedNext ==
  ASSUME NEW c, NEW n \in Nat
  PROVE  Joined(c, 0) = <<>> /\ Joined(c, n + 1) = Joined(c, n) \o c[n]
<1>1. PICK f : Joins(f, c, n) /\ Joined(c, n) = f[n]
  BY JoinedIs
<1>2. PICK g : Joins(g, c, n + 1) /\ Joined(c, n + 1) = g[n + 1]
  BY JoinedIs
<1>3. PICK h : Joins(h, c, 0) /\ Joined(c, 0) = h[0]
  BY JoinedIs
<1>4. g[n + 1] = g[(n + 1) - 1] \o c[(n + 1) - 1] /\ h[0] = <<>>
  <2>1. n + 1 \in 0..(n + 1) /\ n + 1 \in Nat /\ n + 1 # 0 /\ 0 \in 0..0
    OBVIOUS
  <2> QED BY <1>2, <1>3, <2>1, JoinsAt
<1>5. g[n] = f[n]
  BY <1>1, <1>2, JoinsAgree
<1>6. (n + 1) - 1 = n
  OBVIOUS
<1>7. g[n + 1] = f[n] \o c[n]
  BY <1>4, <1>5, <1>6
<1> QED BY <1>1, <1>2, <1>3, <1>4, <1>7, Zenon

\* The payloads that are joined are bytes, and so is the result.
LEMMA JoinedBytes ==
  ASSUME NEW c, NEW n \in Nat, \A i \in 0..(n - 1) : c[i] \in Bytes
  PROVE  Joined(c, n) \in Bytes
<1> DEFINE T == {k \in 0..n : Joined(c, k) \notin Bytes}
<1> SUFFICES ASSUME T # {} PROVE FALSE
  OBVIOUS
<1>0. T \subseteq Nat
  OBVIOUS
<1>1. PICK k \in T : \A j \in T : ~(j < k)
  <2> HIDE DEF T
  <2> QED BY <1>0, Least
<1>2. k # 0
  <2>1. Joined(c, 0) = <<>> /\ <<>> \in Bytes
    BY JoinedNext DEF Bytes
  <2> QED BY <1>1, <2>1
<1>3. k - 1 \in Nat /\ k - 1 \in 0..(n - 1) /\ Joined(c, k - 1) \in Bytes /\ (k - 1) + 1 = k
  BY <1>1, <1>2
<1>4. Joined(c, k) = Joined(c, k - 1) \o c[k - 1]
  BY <1>3, JoinedNext
<1>5. Joined(c, k) \in Bytes
  BY <1>3, <1>4 DEF Bytes
<1> QED BY <1>1, <1>5

\* Indices without a chunk add nothing.
LEMMA JoinedTail ==
  ASSUME NEW c, NEW n \in Nat, NEW m \in Nat, n <= m, Joined(c, n) \in Bytes,
         \A i \in n..(m - 1) : c[i] = <<>>
  PROVE  Joined(c, m) = Joined(c, n)
<1> DEFINE T == {k \in n..m : Joined(c, k) # Joined(c, n)}
<1> SUFFICES ASSUME T # {} PROVE FALSE
  OBVIOUS
<1>0. T \subseteq Nat
  OBVIOUS
<1>1. PICK k \in T : \A j \in T : ~(j < k)
  <2> HIDE DEF T
  <2> QED BY <1>0, Least
<1>2. k - 1 \in Nat /\ k - 1 \in n..(m - 1) /\ Joined(c, k - 1) = Joined(c, n) /\ (k - 1) + 1 = k
  BY <1>1
<1>3. Joined(c, k) = Joined(c, n) \o <<>>
  BY <1>2, JoinedNext
<1>4. Joined(c, k) = Joined(c, n)
  BY <1>3 DEF Bytes
<1> QED BY <1>1, <1>4

----------------------------------------------------------------------------
(* The transfer that arrives. *)

\* Frames and chunks are those of calls that were made; while a call is under way,
\* it has sent chunks below its index, and no EOF.
CallInv ==
  /\ sending => sends > 0
  /\ \A m \in net : m.call \in 1..sends
  /\ \A i \in Indices : from[i] \in 0..sends /\ (from[i] = 0 => chunks[i] = <<>>)
  /\ sending => /\ \A m \in net : m.call = sends => m.kind = "chunk" /\ m.index < index
                /\ \A i \in Indices : from[i] = sends => i < index

\* What a frame holds if sent[k][i] is what call k sent at index i.
Holds(m, sent) ==
  m.bytes = IF m.kind = "chunk" THEN sent[m.call][m.index] ELSE Joined(sent[m.call], m.index)

\* Frames, chunks and the hasher agree with what the calls sent.
SentInv(sent) ==
  /\ sent \in [Nat -> [Nat -> Bytes]]
  /\ \A m \in net : Holds(m, sent)
  /\ \A i \in Indices : from[i] # 0 => chunks[i] = sent[from[i]][i]
  /\ sending => hashed = Joined(sent[sends], index)

\* The inductive invariant of arrival.
ArriveInv == CallInv /\ \E sent : SentInv(sent)

\* At the start nothing was sent.
LEMMA ArriveInit == Init => ArriveInv
<1> SUFFICES ASSUME Init PROVE ArriveInv
  OBVIOUS
<1>1. CallInv
  BY DEF Init, CallInv
<1>2. SentInv([k \in Nat |-> [i \in Nat |-> <<>>]])
  BY DEF Init, SentInv, Bytes
<1> QED BY <1>1, <1>2 DEF ArriveInv

\* One more chunk of the call that is under way.
LEMMA ChunkArrives ==
  ASSUME Inv, ArriveInv, SendChunk
  PROVE  ArriveInv'
<1> USE DEF senderVars, recvVars
<1> DEFINE new == [kind |-> "chunk", call |-> sends, index |-> index, bytes |-> NextChunk]
<1>1. PICK sent : SentInv(sent)
  BY DEF ArriveInv
<1>2. /\ sending /\ sends \in Nat /\ sends > 0 /\ index \in Nat /\ NextChunk \in Bytes /\ CallInv
      /\ \A i \in Indices : from[i] \in Nat /\ i \in Nat
      /\ \A m \in net : m.call \in Nat /\ m.index \in Nat
  <2>1. TypeOK /\ pos < Len(file)
    BY DEF Inv, SendChunk
  <2>2. NextChunk \in Bytes
    BY <2>1, Reading DEF Bytes
  <2> QED BY <2>1, <2>2, FileAssumption DEF SendChunk, ArriveInv, CallInv, TypeOK, Indices, Chunk, Eof
<1>3. /\ net' = net \cup {new} /\ hashed' = hashed \o NextChunk /\ index' = index + 1
      /\ UNCHANGED <<sending, sends, chunks, from>>
      /\ new.kind = "chunk" /\ new.call = sends /\ new.index = index /\ new.bytes = NextChunk
  BY DEF SendChunk
<1> HIDE DEF new
<1>4. CallInv'
  BY <1>2, <1>3 DEF CallInv
<1>5. PICK s, with :
        /\ with \in [Nat -> [Nat -> Bytes]] /\ with[sends] = s /\ s[index] = NextChunk
        /\ \A k \in Nat : k # sends => with[k] = sent[k]
        /\ \A i \in Nat : i < index => s[i] = sent[sends][i]
  <2> DEFINE t == [sent[sends] EXCEPT ![index] = NextChunk]
             u == [sent EXCEPT ![sends] = t]
  <2>1. /\ u \in [Nat -> [Nat -> Bytes]] /\ u[sends] = t /\ t[index] = NextChunk
        /\ \A k \in Nat : k # sends => u[k] = sent[k]
        /\ \A i \in Nat : i < index => t[i] = sent[sends][i]
    BY <1>1, <1>2 DEF SentInv
  <2> QED BY <2>1
<1>6. ASSUME NEW m \in net' PROVE Holds(m, with)
  <2>1. CASE m = new
    BY <1>2, <1>3, <1>5, <2>1 DEF Holds
  <2>2. CASE m \in net /\ m.call = sends
    BY <1>1, <1>2, <1>5, <2>2 DEF Holds, SentInv, CallInv
  <2>3. CASE m \in net /\ m.call # sends
    BY <1>1, <1>2, <1>5, <2>3 DEF Holds, SentInv
  <2> QED BY <1>3, <2>1, <2>2, <2>3
<1>7. ASSUME NEW i \in Indices, from'[i] # 0 PROVE chunks'[i] = with[from'[i]][i]
  BY <1>1, <1>2, <1>3, <1>5, <1>7 DEF SentInv, CallInv
<1>8. hashed' = Joined(with[sends'], index')
  <2>1. Joined(s, index) = Joined(sent[sends], index)
    BY <1>2, <1>5, JoinedSame
  <2>2. Joined(s, index + 1) = Joined(s, index) \o s[index]
    BY <1>2, JoinedNext
  <2>3. hashed = Joined(sent[sends], index)
    BY <1>1, <1>2 DEF SentInv
  <2> QED BY <1>3, <1>5, <2>1, <2>2, <2>3
<1>9. SentInv(with)'
  BY <1>3, <1>5, <1>6, <1>7, <1>8 DEF SentInv
<1> QED BY <1>4, <1>9 DEF ArriveInv

\* Every step keeps it.
LEMMA ArriveStep == Inv /\ ArriveInv /\ [Next]_vars => ArriveInv'
<1> SUFFICES ASSUME Inv, ArriveInv, [Next]_vars PROVE ArriveInv'
  OBVIOUS
<1> USE DEF senderVars, recvVars
<1>0. PICK sent : SentInv(sent)
  BY DEF ArriveInv
<1>1. CallInv /\ TypeOK /\ sends \in Nat /\ index \in Nat
  BY FileAssumption DEF ArriveInv, Inv, TypeOK
<1>2. ASSUME net' \subseteq net, UNCHANGED <<sending, index, hashed, sends, chunks, from>>
      PROVE  ArriveInv'
  <2>1. CallInv'
    BY <1>1, <1>2 DEF CallInv
  <2>2. SentInv(sent)'
    BY <1>0, <1>2 DEF SentInv
  <2> QED BY <2>1, <2>2 DEF ArriveInv
<1>3. CASE (\E c \in Contents : Edit(c)) \/ WriteDone \/ WriteFails \/ UNCHANGED vars
  BY <1>2, <1>3 DEF Edit, WriteDone, WriteFails, vars
<1>4. CASE \E m \in net : Lose(m) \/ TakeEof(m)
  BY <1>2, <1>4 DEF Lose, TakeEof
<1>5. CASE BeginSend
  <2>1. /\ UNCHANGED <<net, chunks, from>> /\ sends' = sends + 1 /\ index' = 0
        /\ sending' = TRUE /\ hashed' = <<>>
    BY <1>5 DEF BeginSend
  <2>2. CallInv'
    BY <1>1, <2>1 DEF CallInv
  <2>3. Joined(sent[sends'], 0) = <<>>
    BY JoinedNext
  <2>4. SentInv(sent)'
    BY <1>0, <2>1, <2>3 DEF SentInv
  <2> QED BY <2>2, <2>4 DEF ArriveInv
<1>6. CASE SendChunk
  BY <1>6, ChunkArrives
<1>7. CASE SendEof
  <2> DEFINE m == [kind |-> "eof", call |-> sends, index |-> index,
                   bytes |-> hashed, source |-> source]
  <2>1. /\ net' = net \cup {m} /\ sending /\ sending' = FALSE
        /\ UNCHANGED <<index, hashed, sends, chunks, from>>
        /\ m.kind = "eof" /\ m.call = sends /\ m.index = index /\ m.bytes = hashed
    BY <1>7 DEF SendEof
  <2> HIDE DEF m
  <2>2. CallInv'
    BY <1>1, <2>1 DEF CallInv
  <2>3. Holds(m, sent)
    BY <1>0, <2>1 DEF SentInv, Holds
  <2>4. SentInv(sent)'
    BY <1>0, <2>1, <2>3 DEF SentInv
  <2> QED BY <2>2, <2>4 DEF ArriveInv
<1>8. CASE SendFails
  <2>1. sending' = FALSE /\ UNCHANGED <<net, index, hashed, sends, chunks, from>>
    BY <1>8 DEF SendFails
  <2>2. CallInv' /\ SentInv(sent)'
    BY <1>0, <1>1, <2>1 DEF CallInv, SentInv
  <2> QED BY <2>2 DEF ArriveInv
<1>9. ASSUME NEW m \in net, TakeChunk(m) PROVE ArriveInv'
  <2>1. /\ m.kind = "chunk" /\ net' \subseteq net /\ m.index \in Indices
        /\ chunks' = [chunks EXCEPT ![m.index] = m.bytes]
        /\ from' = [from EXCEPT ![m.index] = m.call]
        /\ UNCHANGED <<sending, index, hashed, sends>>
        /\ chunks \in [Indices -> Bytes] /\ from \in [Indices -> Nat]
    BY <1>1, <1>9 DEF TakeChunk, TypeOK, Chunk, Eof
  <2>2. m.call \in 1..sends /\ m.bytes = sent[m.call][m.index]
    BY <1>0, <1>1, <2>1 DEF CallInv, SentInv, Holds
  <2>3. CallInv'
    BY <1>1, <2>1, <2>2 DEF CallInv
  <2>4. SentInv(sent)'
    BY <1>0, <2>1, <2>2 DEF SentInv
  <2> QED BY <2>3, <2>4 DEF ArriveInv
<1>10. CASE NewReceiver
  <2>1. /\ chunks' = [i \in Indices |-> <<>>] /\ from' = [i \in Indices |-> 0]
        /\ UNCHANGED <<net, sending, index, hashed, sends>>
    BY <1>10 DEF NewReceiver
  <2>2. CallInv' /\ SentInv(sent)'
    BY <1>0, <1>1, <2>1 DEF CallInv, SentInv
  <2> QED BY <2>2 DEF ArriveInv
<1> QED BY <1>3, <1>4, <1>5, <1>6, <1>7, <1>8, <1>9, <1>10 DEF Next

\* A transfer that has arrived is accepted, whatever the order of its frames and
\* whatever earlier calls have left (on_message, assemble).
THEOREM Arrived == Spec => []ArrivedIsAccepted
<1>1. Spec => []ArriveInv
  BY Invariant, ArriveInit, ArriveStep, PTL DEF Spec
<1>2. Inv /\ ArriveInv => ArrivedIsAccepted
  <2> SUFFICES ASSUME TypeOK, ArriveInv, NEW m \in net, m.kind = "eof",
                      \A i \in Indices : IF i < m.index THEN from[i] = m.call
                                                        ELSE chunks[i] = <<>>
               PROVE  Assembled = m.bytes
    BY DEF Inv, ArrivedIsAccepted
  <2>1. PICK sent : SentInv(sent)
    BY DEF ArriveInv
  <2>2. /\ m.index \in 0..MaxLen /\ MaxLen \in Nat /\ sends \in Nat /\ m.call \in 1..sends
        /\ m.bytes = Joined(sent[m.call], m.index) /\ sent[m.call] \in [Nat -> Bytes]
    BY <2>1, FileAssumption DEF TypeOK, Chunk, Eof, ArriveInv, CallInv, SentInv, Holds
  <2>3. \A i \in 0..(m.index - 1) : i \in Indices /\ chunks[i] = sent[m.call][i]
    BY <2>1, <2>2 DEF Indices, SentInv
  <2>4. Joined(chunks, m.index) = m.bytes
    BY <2>2, <2>3, JoinedSame
  <2>5. m.bytes \in Bytes
    BY <2>2, JoinedBytes
  <2>6. \A i \in m.index..(MaxLen - 1) : chunks[i] = <<>>
    BY <2>2 DEF Indices
  <2>7. Joined(chunks, MaxLen) = Joined(chunks, m.index)
    BY <2>2, <2>4, <2>5, <2>6, JoinedTail
  <2> QED BY <2>4, <2>7 DEF Assembled
<1> QED BY <1>1, <1>2, Invariant, PTL
=============================================================================
