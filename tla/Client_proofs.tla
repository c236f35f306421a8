--------------------------- MODULE Client_proofs ----------------------------
(***************************************************************************)
(* What the client gets: the bytes of a media file (MediaStream), and what *)
(* My Library shows and keeps (LibraryPage).                               *)
(*                                                                         *)
(* MediaStream: the range parser against RFC 9110, the cutting of chunks,  *)
(* and what a player receives, for files, chunks and headers of any size.  *)
(*                                                                         *)
(* LibraryPage: the invariant is in four parts.  Channels holds whatever   *)
(* happens: requests, the line of answers, orders and mail match each      *)
(* other.  Talking is about the dialogue of a user who waits for answers,  *)
(* and Copying about the copies on the device when these come in order;    *)
(* Catching is about the list of a page to which they do.                  *)
(***************************************************************************)
EXTENDS MediaStream, LibraryPage, SequenceTheorems, TLAPS

(* The quotient rounds down.                                                *)
LEMMA Quotient ==
  ASSUME NEW x \in Nat, NEW c \in Nat \ {0}
  PROVE  /\ x \div c \in Nat
         /\ (x \div c) * c <= x
         /\ x < (x \div c) * c + c
  OBVIOUS

(* A product with a larger factor is larger by a chunk at least.            *)
LEMMA Further ==
  ASSUME NEW i \in Nat, NEW j \in Nat, NEW c \in Nat \ {0}, i < j
  PROVE  i * c + c <= j * c
<1> DEFINE d == j - i
<1>1. d \in Nat \ {0} /\ j = i + d
  OBVIOUS
<1>2. d * c >= c
  BY <1>1
<1>3. j * c = i * c + d * c
  BY <1>1
<1>4. i * c \in Nat /\ d * c \in Nat /\ j * c \in Nat
  BY <1>1
<1> QED BY <1>2, <1>3, <1>4

(* parseRange answers with the bytes that RFC 9110 says the header selects, *)
(* and refuses it if there are none: the numeric edges of both copies of it. *)
THEOREM ParserAgrees ==
  ASSUME size \in Nat, head \in Heads, head.kind \in {"range", "several"}
  PROVE  /\ Parses => /\ First \in 0..(size - 1)
                      /\ Smaller(Last, size - 1) \in First..(size - 1)
                      /\ First..Smaller(Last, size - 1) = Asked
         /\ ~Parses => Asked = {}
<1>1. /\ head.first \in Nat \cup {NaN} /\ head.last \in Nat \cup {NaN} /\ NaN \notin Nat
  BY MediaAssumption
<1>2. CASE head.first = NaN /\ head.last = NaN
  BY <1>2 DEF Parses, Asked
<1>3. CASE head.first = NaN /\ head.last # NaN
  BY <1>1, <1>3 DEF Parses, Asked, First, Last, Smaller
<1>4. CASE head.first # NaN /\ head.last = NaN
  BY <1>1, <1>4 DEF Parses, Asked, First, Last, Smaller
<1>5. CASE head.first # NaN /\ head.last # NaN
  BY <1>1, <1>5 DEF Parses, Asked, First, Last, Smaller
<1> QED BY <1>2, <1>3, <1>4, <1>5

-----------------------------------------------------------------------------
(* What an answer under way promises: a range within the file, exactly what *)
(* was asked if that selects something, the whole file otherwise.           *)
Promised ==
  pc \in Answering =>
    /\ from \in Nat /\ to \in Int /\ from <= to + 1 /\ to < size
    /\ head.kind = "range" /\ Asked # {} => from..to = Asked

(* Where it has come to.  A chunk to be sent starts where the last one ended. *)
Sent ==
  /\ pc = "chunk" =>
       /\ from <= to
       /\ from \div chunkSize <= idx /\ idx <= to \div chunkSize
       /\ next = IF idx = from \div chunkSize THEN from ELSE ChunkStart
  /\ pc = "open" => next = from
  /\ pc = "done" => next = to + 1
  /\ pc = "cut" => next \in from..(to + 1)

Refused == pc = "refused" /\ head.kind = "range" => Asked = {}

(* Metadata exist only for files that have bytes.                           *)
IInv == TypeOK /\ (meta => size > 0) /\ Promised /\ Sent /\ Refused

LEMMA InitOK == Init => IInv
<1> SUFFICES ASSUME Init PROVE IInv
  OBVIOUS
<1>1. Chunks \subseteq Nat
  BY MediaAssumption DEF Init, Chunks
<1> QED BY <1>1, MediaAssumption DEF Init, IInv, TypeOK, Promised, Sent, Refused, Answering

(* What lies in an interval.                                                *)
LEMMA Between == \A a, b \in Int : \A x \in a..(b + 1) : a <= b + 1
  OBVIOUS

(* A later byte is in no earlier chunk.                                     *)
LEMMA Monotone ==
  ASSUME NEW x \in Nat, NEW y \in Nat, NEW c \in Nat \ {0}, x <= y
  PROVE  x \div c <= y \div c
<1> SUFFICES ASSUME y \div c < x \div c PROVE FALSE
  BY Quotient
<1>1. (y \div c) * c + c <= (x \div c) * c
  BY Quotient, Further
<1>2. (y \div c) * c \in Nat /\ (x \div c) * c \in Nat
  BY Quotient
<1> QED BY <1>1, <1>2, Quotient

(* What a range selects has no gap.                                         *)
LEMMA AskedConvex ==
  ASSUME size \in Nat, head \in Heads, NEW a \in Asked, NEW b \in Asked
  PROVE  a..b \subseteq Asked
<1>1. /\ head.first \in Nat \cup {NaN} /\ head.last \in Nat \cup {NaN} /\ NaN \notin Nat
  BY MediaAssumption
<1> QED BY <1>1 DEF Asked

(* An answer by the parsed range, or by the whole file if there is none,    *)
(* keeps its promise.                                                       *)
LEMMA PromiseKept ==
  ASSUME IInv, Promise(Parses), pc' \in Answering, UNCHANGED <<size, head>>
  PROVE  /\ Promised' /\ from' \in Nat /\ to' \in Int /\ next' = from'
         /\ size > 0 => from' <= to'
<1>1. size \in Nat /\ head \in Heads
  BY MediaAssumption DEF IInv, TypeOK
<1>2. Asked' = Asked
  BY DEF Asked
<1>3. CASE Parses
  <2>1. head.kind \in {"range", "several"}
    BY <1>3 DEF Parses
  <2>2. /\ First \in 0..(size - 1)
        /\ Smaller(Last, size - 1) \in First..(size - 1)
        /\ First..Smaller(Last, size - 1) = Asked
    BY <1>1, <1>3, <2>1, ParserAgrees
  <2>3. from' = First /\ to' = Smaller(Last, size - 1) /\ next' = from'
    BY <1>3 DEF Promise
  <2> QED BY <1>1, <1>2, <2>2, <2>3 DEF Promised
<1>4. CASE ~Parses
  <2>1. head.kind = "range" => Asked = {}
    BY <1>1, <1>4, ParserAgrees
  <2>2. from' = 0 /\ to' = size - 1 /\ next' = from'
    BY <1>4 DEF Promise
  <2> QED BY <1>1, <1>2, <2>1, <2>2 DEF Promised
<1> QED BY <1>3, <1>4

(* An action that ends in a state where nothing is promised yet, or refuses *)
(* because nothing is asked for.                                            *)
LEMMA EndsOK ==
  ASSUME IInv, NEW how \in {"meta", "find", "stat", "bookdarr", "failed", "refused"},
         Ends(how), UNCHANGED <<size, chunkSize, copies, head>>,
         how = "refused" /\ head.kind = "range" => Asked = {}
  PROVE  IInv'
<1>1. pc' = how /\ Asked' = Asked
  BY DEF Ends, Asked
<1>2. TypeOK'
  BY <1>1 DEF IInv, TypeOK, Ends, copies, Answering
<1>3. Promised' /\ Sent' /\ Refused'
  BY <1>1 DEF Promised, Sent, Refused, Answering
<1> QED BY <1>2, <1>3 DEF IInv, copies

(* The chunks of an answer under way: where the next one starts, and what   *)
(* has been sent when it is missing.                                        *)
LEMMA ChunkBounds ==
  ASSUME IInv, pc = "chunk"
  PROVE  /\ ChunkStart \in Nat /\ ChunkStart <= to /\ to < size
         /\ from \in Nat /\ to \in Nat /\ size \in Nat /\ chunkSize \in Nat \ {0} /\ idx \in Nat
         /\ next = IF idx = from \div chunkSize THEN from ELSE ChunkStart
         /\ idx # from \div chunkSize => from < ChunkStart
         /\ idx = from \div chunkSize => ChunkStart <= from
         /\ idx < to \div chunkSize => ChunkStart + chunkSize <= to
<1>1. /\ from \in Nat /\ to \in Int /\ from <= to /\ to < size
      /\ from \div chunkSize <= idx /\ idx <= to \div chunkSize
      /\ next = IF idx = from \div chunkSize THEN from ELSE ChunkStart
      /\ size \in Nat /\ chunkSize \in Nat \ {0} /\ idx \in Nat
  BY MediaAssumption DEF IInv, TypeOK, Promised, Sent, Answering
<1>2. to \in Nat /\ ChunkStart \in Nat
  BY <1>1 DEF ChunkStart
<1> DEFINE q == to \div chunkSize
           p == from \div chunkSize
<1>3. /\ q \in Nat /\ p \in Nat /\ q * chunkSize \in Nat /\ p * chunkSize \in Nat
      /\ q * chunkSize <= to /\ p * chunkSize <= from /\ from < p * chunkSize + chunkSize
  BY <1>1, <1>2, Quotient
<1>4. idx < q => idx * chunkSize + chunkSize <= q * chunkSize
  BY <1>1, <1>3, Further
<1>5. p < idx => p * chunkSize + chunkSize <= idx * chunkSize
  BY <1>1, <1>3, Further
<1>6. ChunkStart <= to
  BY <1>1, <1>2, <1>3, <1>4 DEF ChunkStart
<1>7. idx < q => ChunkStart + chunkSize <= to
  BY <1>1, <1>2, <1>3, <1>4 DEF ChunkStart
<1>8. idx # p => from < ChunkStart
  BY <1>1, <1>2, <1>3, <1>5 DEF ChunkStart
<1>9. idx = p => ChunkStart <= from
  BY <1>3 DEF ChunkStart
<1> HIDE DEF q, p
<1> QED BY <1>1, <1>2, <1>6, <1>7, <1>8, <1>9 DEF q, p

-----------------------------------------------------------------------------
LEMMA MatchOK == IInv /\ Match => IInv'
<1> SUFFICES ASSUME IInv, Match PROVE IInv'
  OBVIOUS
<1>0. size \in Nat /\ head \in Heads /\ UNCHANGED <<size, chunkSize, copies, head>> /\ Asked' = Asked
  BY MediaAssumption DEF IInv, TypeOK, Match, Asked
<1>1. CASE whole /\ (head.kind = "none" \/ Parses) /\ pc' = "done"
  <2>1. /\ from' = IF Parses THEN First ELSE 0
        /\ to' = IF Parses THEN Smaller(Last, size - 1) ELSE size - 1
        /\ next' = to' + 1 /\ UNCHANGED idx
    BY <1>1 DEF Match, Ends
  <2>2. Parses => /\ First \in 0..(size - 1)
                  /\ Smaller(Last, size - 1) \in First..(size - 1)
                  /\ First..Smaller(Last, size - 1) = Asked
    BY <1>0, ParserAgrees DEF Parses
  <2>3. from' \in Nat /\ to' \in Int /\ next' \in Nat /\ from' <= to' + 1 /\ to' < size
    BY <1>0, <2>1, <2>2
  <2>4. head.kind = "range" => from'..to' = Asked
    BY <1>1, <2>1, <2>2
  <2>5. TypeOK'
    BY <1>0, <1>1, <2>1, <2>3 DEF IInv, TypeOK, Answering, copies
  <2>6. Promised' /\ Sent' /\ Refused'
    BY <1>0, <1>1, <2>1, <2>3, <2>4 DEF Promised, Sent, Refused, Answering
  <2> QED BY <1>0, <2>5, <2>6 DEF IInv, copies
<1>2. CASE whole /\ head.kind # "none" /\ ~Parses /\ Ends("refused")
  BY <1>0, <1>2, ParserAgrees, EndsOK
<1>3. CASE ~whole /\ Ends("meta")
  BY <1>0, <1>3, EndsOK
<1> QED BY <1>1, <1>2, <1>3 DEF Match

LEMMA ReadMetaOK == IInv /\ ReadMeta => IInv'
<1> SUFFICES ASSUME IInv, ReadMeta PROVE IInv'
  OBVIOUS
<1>0. UNCHANGED <<size, chunkSize, copies, head>> /\ Asked' = Asked
  BY DEF ReadMeta, Asked
<1>1. CASE meta /\ Promise(Parses) /\ idx' = from' \div chunkSize /\ pc' = "chunk"
  <2>1. Promised' /\ from' \in Nat /\ to' \in Int /\ next' = from' /\ from' <= to'
    BY <1>0, <1>1, PromiseKept DEF IInv, Answering
  <2>2. chunkSize \in Nat \ {0} /\ chunkSize' = chunkSize /\ to' \in Nat
    BY <1>0, <2>1, MediaAssumption DEF IInv, TypeOK
  <2>3. idx' \in Nat /\ idx' <= to' \div chunkSize
    BY <1>1, <2>1, <2>2, Quotient, Monotone
  <2>4. TypeOK'
    BY <1>0, <1>1, <2>1, <2>3 DEF IInv, TypeOK, Answering, copies
  <2>5. Sent'
    <3>1. from' \div chunkSize' = idx' /\ to' \div chunkSize' = to' \div chunkSize
      BY <1>1, <2>2
    <3>2. from' \div chunkSize' <= idx' /\ idx' <= to' \div chunkSize'
      BY <2>3, <3>1
    <3> QED BY <1>1, <2>1, <3>1, <3>2 DEF Sent
  <2>6. Refused'
    BY <1>1 DEF Refused
  <2> QED BY <1>0, <2>1, <2>4, <2>5, <2>6 DEF IInv, copies
<1>2. CASE Ends("find")
  BY <1>0, <1>2, EndsOK
<1> QED BY <1>1, <1>2 DEF ReadMeta

LEMMA SendChunkOK == IInv /\ SendChunk => IInv'
<1> SUFFICES ASSUME IInv, SendChunk PROVE IInv'
  OBVIOUS
<1>0. /\ pc = "chunk" /\ Asked' = Asked
      /\ UNCHANGED <<size, chunkSize, cached, whole, meta, chunks, head, from, to>>
  BY DEF SendChunk, Asked, copies, Ends
<1>1. /\ ChunkStart \in Nat /\ ChunkStart <= to /\ to < size
      /\ from \in Nat /\ to \in Nat /\ size \in Nat /\ chunkSize \in Nat \ {0} /\ idx \in Nat
      /\ next = IF idx = from \div chunkSize THEN from ELSE ChunkStart
      /\ idx # from \div chunkSize => from < ChunkStart
      /\ idx = from \div chunkSize => ChunkStart <= from
      /\ idx < to \div chunkSize => ChunkStart + chunkSize <= to
  BY <1>0, ChunkBounds
<1>2. /\ from \div chunkSize <= idx /\ idx <= to \div chunkSize /\ from <= to
      /\ from \div chunkSize \in Nat /\ to \div chunkSize \in Nat
  BY <1>0, <1>1, Quotient DEF IInv, Sent
<1>3. pc' \in Answering => Promised'
  BY <1>0, <1>1, <1>2 DEF IInv, Promised, Answering
<1>4. Refused' /\ pc' \in Answering
  BY DEF SendChunk, Ends, Refused, Answering
<1>5. CASE idx \in chunks /\ idx' = idx + 1
  <2>1. /\ next' = IF ChunkStart + CutFrom = next THEN ChunkStart + CutTo + 1 ELSE -1
        /\ pc' = IF idx < to \div chunkSize THEN "chunk" ELSE "done"
    BY <1>5, <1>1 DEF SendChunk, Ends
  <2>2. next' = ChunkStart + CutTo + 1
    BY <1>1, <2>1 DEF CutFrom
  <2>3. CASE idx < to \div chunkSize
    <3>1. idx # to \div chunkSize
      BY <1>1, <1>2, <2>3
    <3>2. CutTo = ChunkStart + chunkSize - 1 - ChunkStart
      BY <1>1, <2>3, <3>1 DEF CutTo, ChunkEnd, Smaller
    <3>3. next' = ChunkStart + chunkSize
      BY <1>1, <2>2, <3>2
    <3>4. ChunkStart + chunkSize = idx' * chunkSize
      BY <1>1, <1>5 DEF ChunkStart
    <3>5. /\ idx' \in Nat /\ idx' # from \div chunkSize
          /\ from \div chunkSize <= idx' /\ idx' <= to \div chunkSize
      BY <1>1, <1>2, <1>5, <2>3
    <3>6. Sent'
      BY <1>0, <1>2, <2>1, <2>3, <3>3, <3>4, <3>5 DEF Sent, ChunkStart
    <3>7. TypeOK'
      BY <1>0, <1>1, <1>4, <3>3, <3>5 DEF IInv, TypeOK
    <3> QED BY <1>0, <1>3, <1>4, <3>6, <3>7 DEF IInv
  <2>4. CASE ~(idx < to \div chunkSize)
    <3>1. idx = to \div chunkSize
      BY <1>1, <1>2, <2>4
    <3>2. next' = to + 1
      BY <1>1, <2>2, <3>1 DEF CutTo
    <3>3. pc' = "done" /\ Sent'
      BY <1>0, <2>1, <2>4, <3>2 DEF Sent
    <3>4. TypeOK'
      BY <1>0, <1>1, <1>4, <1>5, <3>2 DEF IInv, TypeOK
    <3> QED BY <1>0, <1>3, <1>4, <3>3, <3>4 DEF IInv
  <2> QED BY <2>3, <2>4
<1>6. CASE Ends("cut")
  <2>1. pc' = "cut" /\ UNCHANGED <<idx, next>>
    BY <1>6 DEF Ends
  <2>2. next \in from..(to + 1)
    BY <1>1, <1>2
  <2>3. Sent'
    BY <1>0, <2>1, <2>2 DEF Sent
  <2>4. TypeOK'
    BY <1>0, <1>4, <2>1 DEF IInv, TypeOK
  <2> QED BY <1>0, <1>3, <1>4, <2>3, <2>4 DEF IInv
<1> QED BY <1>5, <1>6 DEF SendChunk

LEMMA FindCachedOK == IInv /\ FindCached => IInv'
<1> SUFFICES ASSUME IInv, FindCached PROVE IInv'
  OBVIOUS
<1> DEFINE how == IF cached THEN "stat" ELSE "bookdarr"
<1>1. /\ how \in {"stat", "bookdarr"} /\ Ends(how)
      /\ UNCHANGED <<size, chunkSize, copies, head>>
  BY DEF FindCached
<1> HIDE DEF how
<1> QED BY <1>1, EndsOK

LEMMA StatOK == IInv /\ Stat => IInv'
<1> SUFFICES ASSUME IInv, Stat PROVE IInv'
  OBVIOUS
<1>0. /\ UNCHANGED <<size, chunkSize, copies, head>> /\ Asked' = Asked
      /\ size \in Nat /\ head \in Heads
  BY MediaAssumption DEF IInv, TypeOK, Stat, Asked
<1>1. CASE Promise(Parses) /\ pc' = "open" /\ UNCHANGED idx
  <2>1. Promised' /\ from' \in Nat /\ to' \in Int /\ next' = from'
    BY <1>0, <1>1, PromiseKept DEF Answering
  <2>2. TypeOK'
    BY <1>0, <1>1, <2>1 DEF IInv, TypeOK, Answering, copies
  <2>3. Sent' /\ Refused'
    BY <1>1, <2>1 DEF Sent, Refused
  <2> QED BY <1>0, <2>1, <2>2, <2>3 DEF IInv, copies
<1>2. CASE head.kind # "none" /\ ~Parses /\ Ends("refused")
  BY <1>0, <1>2, ParserAgrees, EndsOK
<1>3. CASE Ends("failed")
  BY <1>0, <1>3, EndsOK
<1> QED BY <1>1, <1>2, <1>3 DEF Stat

LEMMA OpenFileOK == IInv /\ OpenFile => IInv'
<1> SUFFICES ASSUME IInv, OpenFile PROVE IInv'
  OBVIOUS
<1>0. /\ UNCHANGED <<size, chunkSize, cached, whole, meta, chunks, head, from, to, idx>>
      /\ Asked' = Asked /\ pc = "open"
  BY DEF OpenFile, Ends, Asked, copies
<1>1. from \in Nat /\ to \in Int /\ from <= to + 1 /\ next = from
  BY <1>0 DEF IInv, Promised, Sent, Answering
<1>2. \/ pc' = "done" /\ next' = to + 1
      \/ pc' = "cut" /\ next' = next
  BY DEF OpenFile, Ends
<1>3. TypeOK'
  BY <1>0, <1>1, <1>2 DEF IInv, TypeOK, Answering
<1>4. Sent' /\ Refused'
  BY <1>0, <1>1, <1>2 DEF Sent, Refused
<1>5. Promised'
  BY <1>0 DEF IInv, Promised, Answering
<1> QED BY <1>0, <1>3, <1>4, <1>5 DEF IInv

LEMMA BookdarrOK == IInv /\ Bookdarr => IInv'
<1> SUFFICES ASSUME IInv, Bookdarr PROVE IInv'
  OBVIOUS
<1>0. /\ UNCHANGED <<size, chunkSize, copies, head>> /\ Asked' = Asked
      /\ size \in Nat /\ head \in Heads
  BY MediaAssumption DEF IInv, TypeOK, Bookdarr, Asked
<1>1. CASE /\ \/ /\ head.kind = "range" /\ from' \in Asked /\ to' \in Asked
                 /\ Asked \subseteq from'..to'
              \/ head.kind # "range" /\ from' = 0 /\ to' = size - 1
           /\ next' \in from'..(to' + 1)
           /\ pc' = (IF next' = to' + 1 THEN "done" ELSE "cut") /\ UNCHANGED idx
  <2>1. head.kind = "range" => from'..to' = Asked
    BY <1>0, <1>1, AskedConvex
  <2>2. from' \in Nat /\ to' \in Int /\ to' < size /\ from' <= to' + 1
    <3>1. CASE head.kind = "range"
      <4>1. from' \in 0..(size - 1) /\ to' \in 0..(size - 1)
        BY <1>1, <3>1 DEF Asked
      <4>2. next' \in from'..(to' + 1)
        BY <1>1
      <4>3. from' \in Nat /\ from' \in Int /\ to' \in Int /\ to' < size
        BY <1>0, <4>1
      <4>4. from' <= to' + 1
        BY <4>2, <4>3, Between, Zenon
      <4> QED BY <4>3, <4>4, Zenon
    <3>2. CASE head.kind # "range"
      BY <1>0, <1>1, <3>2
    <3> QED BY <3>1, <3>2
  <2>3. TypeOK'
    BY <1>0, <1>1, <2>2 DEF IInv, TypeOK, Answering, copies
  <2>4. Promised' /\ Sent' /\ Refused'
    BY <1>0, <1>1, <2>1, <2>2 DEF Promised, Sent, Refused
  <2> QED BY <1>0, <2>3, <2>4 DEF IInv, copies
<1>2. CASE Asked = {} /\ Ends("refused")
  BY <1>0, <1>2, EndsOK
<1>3. CASE Ends("failed")
  BY <1>0, <1>3, EndsOK
<1> QED BY <1>1, <1>2, <1>3 DEF Bookdarr

LEMMA CopiesOK == IInv /\ (ServerCopy \/ DeviceCopy) /\ UNCHANGED request => IInv'
<1> SUFFICES ASSUME IInv, ServerCopy \/ DeviceCopy, UNCHANGED request PROVE IInv'
  OBVIOUS
<1>1. Asked' = Asked
  BY DEF Asked, request
<1>2. Chunks \subseteq Nat
  BY MediaAssumption DEF IInv, TypeOK, Chunks
<1>3. /\ cached' \in BOOLEAN /\ whole' \in BOOLEAN /\ meta' \in BOOLEAN
      /\ chunks' \subseteq Nat /\ (meta' => size > 0)
  <2>1. CASE ServerCopy
    BY <2>1, Zenon DEF IInv, TypeOK, ServerCopy
  <2>2. CASE ~meta /\ whole' = ~whole /\ UNCHANGED <<cached, meta, chunks>>
    BY <2>2 DEF IInv, TypeOK
  <2>3. CASE size > 0 /\ meta' = ~meta /\ UNCHANGED <<cached, whole, chunks>>
    <3>1. meta' \in BOOLEAN
      BY <2>3, Zenon
    <3> QED BY <2>3, <3>1 DEF IInv, TypeOK
  <2>4. ASSUME NEW k \in Chunks, chunks' \in {chunks \cup {k}, chunks \ {k}},
               UNCHANGED <<cached, whole, meta>>
        PROVE  /\ cached' \in BOOLEAN /\ whole' \in BOOLEAN /\ meta' \in BOOLEAN
               /\ chunks' \subseteq Nat /\ (meta' => size > 0)
    BY <1>2, <2>4 DEF IInv, TypeOK
  <2> QED BY <2>1, <2>2, <2>3, <2>4 DEF DeviceCopy
<1>4. TypeOK' /\ (meta' => size' > 0)
  BY <1>3 DEF IInv, TypeOK, request, Answering
<1>5. Promised' /\ Sent' /\ Refused'
  BY <1>1 DEF IInv, Promised, Sent, Refused, request, ChunkStart
<1> QED BY <1>4, <1>5 DEF IInv

LEMMA NextOK == IInv /\ [Next]_vars => IInv'
<1> SUFFICES ASSUME IInv, [Next]_vars PROVE IInv'
  OBVIOUS
<1>1. CASE Next
  BY <1>1, MatchOK, ReadMetaOK, SendChunkOK, FindCachedOK, StatOK, OpenFileOK, BookdarrOK,
     CopiesOK DEF Next
<1>2. CASE UNCHANGED vars
  BY <1>2 DEF vars, copies, IInv, TypeOK, Promised, Sent, Refused, Asked, ChunkStart
<1> QED BY <1>1, <1>2

LEMMA Inductive == Spec => []IInv
<1> QED BY InitOK, NextOK, PTL DEF Spec

(* The state of a request is what the handlers expect, whatever the sizes:  *)
(* in particular no piece reaches the player out of its place.              *)
THEOREM TypeCorrect == Spec => []TypeOK
<1>1. IInv => TypeOK
  BY DEF IInv
<1> QED BY <1>1, Inductive, PTL

(* Chunks of any size are cut and joined without a gap or a repetition, in  *)
(* answers for any range, though they come and go meanwhile.                *)
THEOREM AlwaysInOrder == Spec => []InOrder
<1>1. IInv => InOrder
  <2> SUFFICES ASSUME IInv PROVE InOrder
    OBVIOUS
  <2>1. pc \in Answering => from \in Nat /\ to \in Int /\ from <= to + 1 /\ next \in Nat
    BY DEF IInv, Promised, TypeOK
  <2>2. CASE pc = "chunk"
    <3>1. next \in from..(to + 1)
      BY <2>1, <2>2, ChunkBounds DEF Answering
    <3> QED BY <2>2, <3>1 DEF InOrder
  <2>3. CASE pc # "chunk"
    BY <2>1, <2>3 DEF IInv, Sent, InOrder, Answering
  <2> QED BY <2>2, <2>3
<1> QED BY <1>1, Inductive, PTL

(* Worker, server and Bookdarr answer a range with the same bytes, those    *)
(* RFC 9110 names, and refuse only what selects none.                       *)
THEOREM AlwaysAsAsked == Spec => []AsAsked
<1>1. IInv => AsAsked
  BY DEF IInv, Promised, Refused, AsAsked
<1> QED BY <1>1, Inductive, PTL

-----------------------------------------------------------------------------
(* Sequences: what was put at the end of one, or taken off its front.       *)
LEMMA Appended ==
  ASSUME NEW S, NEW s \in Seq(S), NEW e \in S
  PROVE  /\ Append(s, e) \in Seq(S) /\ Len(s) \in Nat /\ DOMAIN s = 1..Len(s)
         /\ DOMAIN Append(s, e) = 1..(Len(s) + 1)
         /\ \A i \in 1..Len(s) : Append(s, e)[i] = s[i]
         /\ Append(s, e)[Len(s) + 1] = e
BY AppendProperties, LenProperties

(* What was taken off the front of one.                                     *)
LEMMA Tailed ==
  ASSUME NEW S, NEW s \in Seq(S), s # <<>>
  PROVE  /\ Tail(s) \in Seq(S) /\ Len(s) \in Nat /\ DOMAIN s = 1..Len(s) /\ 1 \in DOMAIN s
         /\ Head(s) = s[1] /\ Head(s) \in S
         /\ DOMAIN Tail(s) = 1..(Len(s) - 1)
         /\ \A i \in 1..(Len(s) - 1) : Tail(s)[i] = s[i + 1]
<1>1. Len(s) \in Nat /\ DOMAIN s = 1..Len(s) /\ Len(s) # 0
  BY LenProperties, EmptySeq
<1>2. Tail(s) \in Seq(S) /\ Len(Tail(s)) = Len(s) - 1 /\ \A i \in 1..Len(Tail(s)) : Tail(s)[i] = s[i + 1]
  BY <1>1, HeadTailProperties
<1>3. Head(s) = s[1] /\ s[1] \in S
  BY <1>1, HeadTailProperties, ElementOfSeq
<1> QED
  BY <1>1, <1>2, <1>3, LenProperties

(* The line without one of its places.                                      *)
LEMMA LineLeft ==
  ASSUME NEW i \in DOMAIN line, line \in Seq(Requests), Leaves(i)
  PROVE  /\ line' \in Seq(Requests) /\ Len(line) \in Nat /\ DOMAIN line = 1..Len(line)
         /\ DOMAIN line' = 1..(Len(line) - 1)
         /\ \A k \in 1..(Len(line) - 1) : line'[k] = IF k < i THEN line[k] ELSE line[k + 1]
<1>1. Len(line) \in Nat /\ DOMAIN line = 1..Len(line) /\ i \in 1..Len(line)
  BY LenProperties
<1> DEFINE at(k) == IF k < i THEN line[k] ELSE line[k + 1]
<1>2. line' = [k \in 1..(Len(line) - 1) |-> at(k)]
  BY DEF Leaves
<1>3. Len(line) - 1 \in Nat
  BY <1>1
<1>4. \A k \in 1..(Len(line) - 1) : at(k) \in Requests
  BY <1>1, ElementOfSeq
<1> HIDE DEF at
<1>5. line' \in Seq(Requests)
  BY <1>2, <1>3, <1>4, IsASeq
<1>6. DOMAIN line' = 1..(Len(line) - 1) /\ \A k \in 1..(Len(line) - 1) : line'[k] = at(k)
  BY <1>2
<1> QED
  BY <1>1, <1>5, <1>6 DEF at

-----------------------------------------------------------------------------
(* Types                                                                    *)

Talks  == {"detail", "again", "refresh", "read", "checkout", "return"}
Waits  == {"again", "copies"}
Kinds  == {"free", "detail", "again", "refresh", "read", "checkout", "return", "list", "copies", "manifest"}
Calls  == [kind : Kinds, book : Books \cup {None}, body : [Books -> Status]]
Orders ==
  [kind : {"cache", "clear"}, books : {{b} : b \in Books}, query : {None}]
  \cup [kind : {"query"}, books : SUBSET Books, query : Requests]
Mails ==
  {m \in [books : SUBSET Books, there : SUBSET Books, query : Requests \cup {None}] : m.there \subseteq m.books}

(* The types, and which requests are about a book.                          *)
Typed ==
  /\ status \in [Books -> Status] /\ list \in [Books -> Status] /\ poll \in BOOLEAN
  /\ modal \in Books \cup {None} /\ detail \in [book : Books \cup {None}, status : Status]
  /\ kept \in SUBSET Books /\ refused \in SUBSET Books /\ device \in SUBSET Books
  /\ bookQueue \in SUBSET Books /\ activeBookId \in Books \cup {None}
  /\ req \in [Requests -> Calls] /\ line \in Seq(Requests)
  /\ orders \in Seq(Orders) /\ mail \in Seq(Mails)
  /\ detail.status # "in" => detail.book \in Books
  /\ \A q \in Requests :
       /\ req[q].kind \in Talks \cup {"manifest"} => req[q].book \in Books
       /\ req[q].kind \in Talks => modal # None

(* A request and its answer.                                                *)
LEMMA BodyTyped ==
  ASSUME Typed, NEW q \in Requests
  PROVE  /\ req[q] \in Calls /\ req[q].kind \in Kinds /\ req[q].body \in [Books -> Status]
         /\ req[q].kind \in Talks \cup {"manifest"} => req[q].book \in Books /\ req[q].body[req[q].book] \in Status
BY DEF Typed, Calls

(* What may become of a request.                                            *)
LEMMA CallTyped ==
  /\ Free \in Calls /\ Call("list", None) \in Calls
  /\ \A kind \in Kinds, b \in Books : Call(kind, b) \in Calls
<1>1. AllIn \in [Books -> Status]
  BY DEF AllIn, Status
<1> QED
  BY <1>1 DEF Free, Call, Calls, Kinds

(* Sending a request, or ending one, or letting it go on.                   *)
Sets(q, x) == q \in Requests /\ x \in Calls /\ req' = [req EXCEPT ![q] = x]

(* It concerns no other request.                                            *)
LEMMA SetsIs ==
  ASSUME Typed, NEW q, NEW x, Sets(q, x)
  PROVE  /\ req' \in [Requests -> Calls] /\ req'[q] = x
         /\ \A r \in Requests : r # q => req'[r] = req[r]
BY DEF Typed, Sets

(* Sending takes a free request.                                            *)
LEMMA SentIs ==
  ASSUME Typed, NEW kind \in Kinds, NEW b \in Books \cup {None}, Send(kind, b), b \in Books \/ kind = "list"
  PROVE  \E q \in Requests : Sets(q, Call(kind, b)) /\ req[q].kind = "free"
<1> DEFINE free == InFlight({"free"}, {None})
           q == CHOOSE q \in free : TRUE
<1>1. free # {} /\ req' = [req EXCEPT ![q] = Call(kind, b)]
  BY DEF Send
<1>2. q \in free
  BY <1>1
<1>3. q \in Requests /\ req[q].kind = "free"
  BY <1>2 DEF InFlight
<1>4. Call(kind, b) \in Calls
  BY CallTyped
<1> QED
  BY <1>1, <1>3, <1>4 DEF Sets

(* An answer comes in.                                                      *)
LEMMA ArrivesIs ==
  ASSUME Typed, NEW q \in Requests, NEW kinds, NEW then \in Calls, Arrives(q, kinds, then)
  PROVE  /\ Sets(q, then) /\ req[q].kind \in kinds /\ Answered(q) /\ line' \in Seq(Requests)
         /\ \E i \in DOMAIN line : line[i] = q /\ (Ordered => i = 1) /\ Leaves(i)
<1>1. PICK i \in DOMAIN line : line[i] = q /\ (Ordered => i = 1) /\ Leaves(i)
  BY DEF Arrives
<1>2. line' \in Seq(Requests)
  BY <1>1, LineLeft DEF Typed
<1> QED
  BY <1>1, <1>2 DEF Arrives, Sets, Answered

(* A request that is to wait for the worker.                                *)
LEMMA WaitIs ==
  ASSUME Typed, NEW q \in Requests, NEW kind \in Waits
  PROVE  /\ [req[q] EXCEPT !.kind = kind] \in Calls /\ [req[q] EXCEPT !.kind = kind].kind = kind
         /\ [req[q] EXCEPT !.kind = kind].book = req[q].book
         /\ [req[q] EXCEPT !.kind = kind].body = req[q].body
BY BodyTyped DEF Calls, Kinds, Waits

(* A list that comes in may wait for the worker.                            *)
LEMMA ListThen ==
  ASSUME Typed, NEW q \in Requests, ListArrives(q)
  PROVE  \E x \in Calls :
           /\ Arrives(q, {"list"}, x) /\ x.kind \in {"free", "copies"}
           /\ UNCHANGED orders \/ (x.kind = "copies" /\ Tell("query", Listed(req[q].body), q))
<1> DEFINE books == Listed(req[q].body)
           x == IF books = {} THEN Free ELSE [req[q] EXCEPT !.kind = "copies"]
<1>1. Arrives(q, {"list"}, x)
  BY DEF ListArrives
<1>2. x \in Calls /\ x.kind \in {"free", "copies"} /\ (books # {} => x.kind = "copies")
  <2>1. "copies" \in Waits
    BY DEF Waits
  <2> HIDE DEF books
  <2> QED
    BY <2>1, WaitIs, CallTyped DEF Free
<1>3. IF books = {} THEN UNCHANGED orders ELSE Tell("query", books, q)
  BY DEF ListArrives
<1> QED
  BY <1>1, <1>2, <1>3

(* What is rendered is of a book.                                           *)
LEMMA RenderTyped ==
  ASSUME Typed, NEW q \in Requests, req[q].kind \in Talks, Render(q)
  PROVE  /\ detail' \in [book : Books \cup {None}, status : Status] /\ detail'.book \in Books
         /\ detail' # NoDetail
BY BodyTyped, PageAssumption DEF Render, NoDetail

(* An order is about one book, or asks about several.                       *)
Order(kind, books, q) ==
  \/ kind \in {"cache", "clear"} /\ (\E b \in Books : books = {b}) /\ q = None
  \/ kind = "query" /\ books \in SUBSET Books /\ q \in Requests

(* So it is typed,                                                          *)
LEMMA OrderTyped ==
  ASSUME NEW kind, NEW books, NEW q, Order(kind, books, q)
  PROVE  [kind |-> kind, books |-> books, query |-> q] \in Orders
BY DEF Order, Orders

(* and back.                                                                *)
LEMMA OrderIs ==
  ASSUME NEW o \in Orders
  PROVE  Order(o.kind, o.books, o.query) /\ o.books \in SUBSET Books /\ o.query \in Requests \cup {None}
BY DEF Order, Orders

(* The page tells the worker of books,                                      *)
LEMMA TellTyped ==
  ASSUME Typed, NEW kind, NEW books, NEW q, Order(kind, books, q), Tell(kind, books, q)
  PROVE  orders' \in Seq(Orders)
<1>1. [kind |-> kind, books |-> books, query |-> q] \in Orders
  BY OrderTyped
<1> QED
  BY <1>1, Appended DEF Tell, Typed

(* and the worker the page.                                                 *)
LEMMA ReportTyped ==
  ASSUME Typed, NEW books \in SUBSET Books, NEW there \in SUBSET Books, NEW q \in Requests \cup {None},
         there \subseteq books, Report(books, there, q)
  PROVE  mail' \in Seq(Mails)
<1>1. [books |-> books, there |-> there, query |-> q] \in Mails
  BY DEF Mails
<1> QED
  BY <1>1, Appended DEF Report, Typed

(* What the worker obeys.                                                   *)
LEMMA Obeys ==
  ASSUME Typed, Obey
  PROVE  \E o \in Orders :
           /\ o = Head(orders) /\ o = orders[1] /\ orders' \in Seq(Orders)
           /\ \/ o.kind = "cache" /\ \E b \in Books : o.books = {b} /\ o.query = None /\ ObeyCache(b)
              \/ o.kind = "clear" /\ \E b \in Books : o.books = {b} /\ o.query = None /\ ObeyClear(b)
              \/ o.kind = "query" /\ o.query \in Requests /\ ObeyQuery(o.books, o.query)
<1> DEFINE o == Head(orders)
<1>1. o \in Orders /\ o = orders[1] /\ orders' \in Seq(Orders)
  BY Tailed DEF Obey, Typed
<1>2. Order(o.kind, o.books, o.query)
  BY <1>1, OrderIs
<1>3. \/ o.kind = "cache" /\ \E b \in o.books : ObeyCache(b)
      \/ o.kind = "clear" /\ \E b \in o.books : ObeyClear(b)
      \/ o.kind = "query" /\ ObeyQuery(o.books, o.query)
  BY DEF Obey
<1>4. o = Head(orders)
  OBVIOUS
<1> HIDE DEF o
<1>5. CASE o.kind = "cache" /\ \E b \in o.books : ObeyCache(b)
  BY <1>1, <1>2, <1>4, <1>5 DEF Order
<1>6. CASE o.kind = "clear" /\ \E b \in o.books : ObeyClear(b)
  BY <1>1, <1>2, <1>4, <1>6 DEF Order
<1>7. CASE o.kind = "query" /\ ObeyQuery(o.books, o.query)
  BY <1>1, <1>2, <1>4, <1>7 DEF Order
<1> QED
  BY <1>3, <1>5, <1>6, <1>7

(* It then says how it stands with the books of the order, and with the     *)
(* others it stands as before.                                              *)
LEMMA ObeyReports ==
  ASSUME Typed, Obey
  PROVE  \E o \in Orders, there \in SUBSET Books :
           /\ o = Head(orders) /\ o = orders[1] /\ Report(o.books, there, o.query) /\ there \subseteq o.books
           /\ \A c \in o.books \ {activeBookId} : c \in there <=> c \in device'
           /\ \A c \in Books \ o.books : (c \in device' <=> c \in device) /\ (c \in spared' <=> c \in spared)
<1>1. PICK o \in Orders :
        /\ o = Head(orders) /\ o = orders[1]
        /\ \/ o.kind = "cache" /\ \E b \in Books : o.books = {b} /\ o.query = None /\ ObeyCache(b)
           \/ o.kind = "clear" /\ \E b \in Books : o.books = {b} /\ o.query = None /\ ObeyClear(b)
           \/ o.kind = "query" /\ o.query \in Requests /\ ObeyQuery(o.books, o.query)
  BY Obeys
<1>2. ASSUME NEW b \in Books, o.books = {b}, o.query = None, ObeyCache(b)
      PROVE  \E there \in SUBSET Books :
               /\ Report(o.books, there, o.query) /\ there \subseteq o.books
               /\ \A c \in o.books \ {activeBookId} : c \in there <=> c \in device'
               /\ \A c \in Books \ o.books : (c \in device' <=> c \in device) /\ (c \in spared' <=> c \in spared)
  <2>1. Report(o.books, {b}, o.query) /\ device' = device \cup {b} /\ spared' = spared \ {b}
    BY <1>2 DEF ObeyCache
  <2> WITNESS {b} \in SUBSET Books
  <2> QED
    BY <1>2, <2>1
<1>3. ASSUME NEW b \in Books, o.books = {b}, o.query = None, ObeyClear(b)
      PROVE  \E there \in SUBSET Books :
               /\ Report(o.books, there, o.query) /\ there \subseteq o.books
               /\ \A c \in o.books \ {activeBookId} : c \in there <=> c \in device'
               /\ \A c \in Books \ o.books : (c \in device' <=> c \in device) /\ (c \in spared' <=> c \in spared)
  <2>1. Report(o.books, {}, o.query) /\ device' = device \ {b} /\ spared' \in {spared \cup {b}, spared \ {b}}
    BY <1>3 DEF ObeyClear
  <2> WITNESS {} \in SUBSET Books
  <2> QED
    BY <1>3, <2>1
<1>4. ASSUME ObeyQuery(o.books, o.query)
      PROVE  \E there \in SUBSET Books :
               /\ Report(o.books, there, o.query) /\ there \subseteq o.books
               /\ \A c \in o.books \ {activeBookId} : c \in there <=> c \in device'
               /\ \A c \in Books \ o.books : (c \in device' <=> c \in device) /\ (c \in spared' <=> c \in spared)
  <2>1. PICK there \in SUBSET o.books :
          there \ {activeBookId} = (device \cap o.books) \ {activeBookId} /\ Report(o.books, there, o.query)
    BY <1>4 DEF ObeyQuery
  <2>2. there \in SUBSET Books /\ UNCHANGED <<device, spared>>
    BY <1>4, <2>1, OrderIs DEF ObeyQuery
  <2> QED
    BY <2>1, <2>2
<1> QED
  BY <1>1, <1>2, <1>3, <1>4

(* Types hold at first.                                                     *)
LEMMA InitTyped == PageInit => Typed
<1> SUFFICES ASSUME PageInit PROVE Typed
  OBVIOUS
<1>1. req \in [Requests -> Calls] /\ \A q \in Requests : req[q].kind = "free"
  BY CallTyped DEF PageInit, Free
<1>2. NoDetail \in [book : Books \cup {None}, status : Status] /\ NoDetail.status = "in"
  BY DEF NoDetail, Status
<1>3. status \in [Books -> Status]
  BY DEF PageInit, Status
<1>4. orders \in Seq(Orders) /\ mail \in Seq(Mails) /\ line \in Seq(Requests)
  BY DEF PageInit
<1> QED
  BY <1>1, <1>2, <1>3, <1>4 DEF PageInit, Typed, Talks

-----------------------------------------------------------------------------
(* Requests, answers, orders and mail                                       *)

(* The books of which the worker has a record, or will have one again, and  *)
(* that are not spared.                                                     *)
Held == {b \in Books \ spared : b \in device \cup bookQueue \/ b = activeBookId}

(* The orders that do something to b, and whether it is held once they are  *)
(* obeyed.                                                                  *)
Effective(b) == {i \in DOMAIN orders : b \in orders[i].books /\ orders[i].kind # "query"}
Will(b) ==
  \/ Effective(b) = {} /\ b \in Held
  \/ \E i \in Effective(b) : orders[i].kind = "cache" /\ \A j \in Effective(b) : j <= i

(* The messages about b.                                                    *)
About(s, b) == {i \in DOMAIN s : b \in s[i].books}

(* Each request that waits for the worker does so for one order, or, once   *)
(* it is obeyed, for one mail.                                              *)
Queries ==
  /\ \A i \in DOMAIN orders : orders[i].query # None =>
       /\ orders[i].query \in Requests /\ orders[i].kind = "query"
       /\ req[orders[i].query].kind \in Waits
       /\ \A j \in DOMAIN orders : orders[j].query = orders[i].query => j = i
       /\ \A j \in DOMAIN mail : mail[j].query # orders[i].query
  /\ \A i \in DOMAIN mail : mail[i].query # None =>
       /\ mail[i].query \in Requests
       /\ req[mail[i].query].kind \in Waits
       /\ \A j \in DOMAIN mail : mail[j].query = mail[i].query => j = i

(* A request is in the line once, and is in flight.                         *)
InLine ==
  /\ \A i, j \in DOMAIN line : line[i] = line[j] => i = j
  /\ \A i \in DOMAIN line : req[line[i]].kind \notin Waits \cup {"free"}

(* The last mail about a book that is not being fetched tells how the       *)
(* device has it.                                                           *)
Mailed ==
  \A b \in Books : \A i \in About(mail, b) :
    b # activeBookId /\ (\A j \in About(mail, b) : j <= i) => (b \in mail[i].there <=> b \in device)

(* The part of Typed about requests.                                        *)
Booked == \A q \in Requests :
            /\ req[q].kind \in Talks \cup {"manifest"} => req[q].book \in Books
            /\ req[q].kind \in Talks => modal # None

(* Requests keep their types                                                *)
LEMMA SetsTyped ==
  ASSUME Typed, NEW q, NEW x, Sets(q, x), modal # None => modal' # None,
         x.kind \in Talks \cup {"manifest"} => x.book \in Books,
         x.kind \in Talks => modal' # None
  PROVE  req' \in [Requests -> Calls] /\ Booked'
BY SetsIs DEF Booked, Typed

(* when one ends,                                                           *)
LEMMA SetsOver ==
  ASSUME Typed, NEW q, NEW x, Sets(q, x), modal' = modal, x.kind \notin Talks, x.kind # "manifest" \/ x.book \in Books
  PROVE  req' \in [Requests -> Calls] /\ Booked'
BY SetsTyped

(* and when one is sent.                                                    *)
LEMMA SentTyped ==
  ASSUME Typed, NEW kind \in Kinds, NEW b \in Books \cup {None}, Send(kind, b), b \in Books \/ kind = "list",
         modal # None => modal' # None, kind \in Talks => modal' # None
  PROVE  req' \in [Requests -> Calls] /\ Booked'
<1>1. PICK q \in Requests : Sets(q, Call(kind, b))
  BY SentIs
<1>2. Call(kind, b).kind = kind /\ Call(kind, b).book = b /\ "list" \notin Talks \cup {"manifest"}
  BY DEF Call, Talks
<1> QED
  BY <1>1, <1>2, SetsTyped

(* The line has requests only.                                              *)
LEMMA LineTyped ==
  ASSUME Typed, NEW q \in Requests, Serve(q)
  PROVE  line' \in Seq(Requests)
BY Appended DEF Serve, Typed

(* Every step keeps the types: above all, what an answer or a message of    *)
(* the worker renders is of a book, since its request is.                   *)
LEMMA TypedStep ==
  ASSUME Typed, Queries, [PageNext]_pageVars
  PROVE  Typed'
<1>0. Booked
  BY DEF Typed, Booked
<1>1. ASSUME NEW b \in Books, Open(b) PROVE Typed'
  <2>1. req' \in [Requests -> Calls] /\ Booked'
    <3>1. modal' # None
      BY <1>1, PageAssumption DEF Open
    <3> QED
      BY <1>1, <3>1, SentTyped DEF Open, Kinds
  <2>2. NoDetail \in [book : Books \cup {None}, status : Status] /\ NoDetail.status = "in"
    BY DEF NoDetail, Status
  <2> QED
    BY <1>1, <2>1, <2>2 DEF Open, Typed, Booked, worker, loop
<1>2. ASSUME NEW b \in Books, Downloaded(b) PROVE Typed'
  <2>1. status' \in [Books -> Status]
    BY <1>2 DEF Downloaded, Typed, Status
  <2> QED
    BY <1>2, <2>1 DEF Downloaded, Typed, page, worker, loop
<1>3. ASSUME NEW b \in Books, Take(b) \/ Fetching(b) \/ Fetched(b) PROVE Typed'
  <2>1. mail' \in Seq(Mails)
    <3>1. CASE UNCHANGED mail
      BY <3>1 DEF Typed
    <3>2. ASSUME NEW there \in SUBSET {b}, Report({b}, there, None) PROVE mail' \in Seq(Mails)
      BY <3>2, ReportTyped
    <3> QED
      BY <1>3, <3>1, <3>2 DEF Take, Fetching, Fetched
  <2>2. /\ device' \in SUBSET Books /\ bookQueue' \in SUBSET Books /\ activeBookId' \in Books \cup {None}
        /\ UNCHANGED <<status, page, orders, req, line>>
    BY <1>3 DEF Take, Fetching, Fetched, Typed, loop
  <2> QED
    BY <2>1, <2>2 DEF Typed, page
<1>4. CASE Obey
  <2>1. PICK o \in Orders :
          /\ orders' \in Seq(Orders)
          /\ \/ o.kind = "cache" /\ \E b \in Books : o.books = {b} /\ o.query = None /\ ObeyCache(b)
             \/ o.kind = "clear" /\ \E b \in Books : o.books = {b} /\ o.query = None /\ ObeyClear(b)
             \/ o.kind = "query" /\ o.query \in Requests /\ ObeyQuery(o.books, o.query)
    BY <1>4, Obeys
  <2>2. device' \in SUBSET Books /\ bookQueue' \in SUBSET Books /\ activeBookId' = activeBookId
    BY <2>1 DEF ObeyCache, ObeyClear, ObeyQuery, Typed, loop
  <2>3. mail' \in Seq(Mails)
    <3>1. PICK p \in Orders, there \in SUBSET Books : Report(p.books, there, p.query) /\ there \subseteq p.books
      BY <1>4, ObeyReports
    <3> QED
      BY <3>1, OrderIs, ReportTyped
  <2> QED
    BY <1>4, <2>1, <2>2, <2>3 DEF Obey, Typed, page
<1>5. CASE MailArrives
  <2> DEFINE m == Head(mail)
  <2>1. m \in Mails /\ mail' \in Seq(Mails)
    BY <1>5, Tailed DEF MailArrives, Typed
  <2>2. kept' \in SUBSET Books
    BY <1>5, <2>1 DEF MailArrives, Typed, Mails
  <2>3. CASE m.query = None
    <3>1. UNCHANGED <<detail, req>>
      BY <1>5, <2>3 DEF MailArrives
    <3> QED
      BY <1>5, <2>1, <2>2, <3>1 DEF MailArrives, Typed, loop
  <2>4. CASE m.query # None
    <3>0. req' = [req EXCEPT ![m.query] = Free]
      BY <1>5, <2>4 DEF MailArrives
    <3>1. m.query \in Requests
      BY <1>5, <2>4, Tailed DEF MailArrives, Typed, Queries
    <3>2. /\ detail' \in [book : Books \cup {None}, status : Status]
          /\ detail'.status # "in" => detail'.book \in Books
      <4>1. CASE req[m.query].kind = "again"
        <5>1. Render(m.query) /\ req[m.query].kind \in Talks
          BY <1>5, <2>4, <4>1 DEF MailArrives, Talks
        <5> QED
          BY <3>1, <5>1, RenderTyped
      <4>2. CASE UNCHANGED detail
        BY <4>2 DEF Typed
      <4> QED
        BY <1>5, <2>4, <4>1, <4>2 DEF MailArrives
    <3>3. Sets(m.query, Free)
      BY <3>0, <3>1, CallTyped DEF Sets
    <3>4. req' \in [Requests -> Calls] /\ Booked'
      BY <1>5, <3>3, SetsOver DEF MailArrives, Free, Talks
    <3> QED
      BY <1>5, <2>1, <2>2, <3>2, <3>4 DEF MailArrives, Typed, Booked, loop
  <2> QED
    BY <2>3, <2>4
<1>6. CASE RefreshDetail \/ ToggleRead
  <2>1. req' \in [Requests -> Calls] /\ Booked'
    <3>1. PICK kind \in {"refresh", "read"} : Send(kind, modal)
      BY <1>6 DEF RefreshDetail, ToggleRead
    <3>2. modal \in Books /\ modal' = modal
      BY <1>6 DEF RefreshDetail, ToggleRead, Typed, page
    <3> QED
      BY <3>1, <3>2, SentTyped, PageAssumption DEF Kinds, Typed
  <2> QED
    BY <1>6, <2>1 DEF RefreshDetail, ToggleRead, Typed, Booked, page, worker, loop
<1>7. CASE ToggleCheckout
  <2>1. req' \in [Requests -> Calls] /\ Booked'
    <3>1. Action \in Kinds
      BY DEF Action, Kinds
    <3> QED
      BY <1>7, <3>1, SentTyped DEF ToggleCheckout, Typed, page
  <2> QED
    BY <1>7, <2>1 DEF ToggleCheckout, Typed, Booked, page, worker, loop
<1>8. CASE ToggleDevice
  <2>0. detail.book \in Books
    BY <1>8 DEF ToggleDevice, Typed
  <2>1. CASE StartDevice(detail.book)
    <3>1. req' \in [Requests -> Calls] /\ Booked'
      <4>1. CASE Send("manifest", detail.book)
        BY <1>8, <2>0, <4>1, SentTyped DEF ToggleDevice, Kinds, Talks
      <4>2. CASE UNCHANGED req
        BY <1>0, <1>8, <4>2 DEF ToggleDevice, Booked, Typed
      <4> QED
        BY <2>1, <4>1, <4>2 DEF StartDevice
    <3> QED
      BY <1>8, <2>0, <2>1, <3>1 DEF ToggleDevice, StartDevice, Typed, Booked, loop
  <2>2. CASE ClearDevice(detail.book)
    <3>1. orders' \in Seq(Orders)
      BY <2>0, <2>2, TellTyped DEF ClearDevice, Order
    <3> QED
      BY <1>8, <2>0, <2>2, <3>1 DEF ToggleDevice, ClearDevice, Typed, loop
  <2> QED
    BY <1>8, <2>1, <2>2 DEF ToggleDevice
<1>9. CASE Poll
  <2>1. req' \in [Requests -> Calls] /\ Booked'
    BY <1>9, SentTyped DEF Poll, Kinds, Talks, page
  <2> QED
    BY <1>9, <2>1 DEF Poll, Typed, Booked, page, worker, loop
<1>10. ASSUME NEW q \in Requests, Serve(q) PROVE Typed'
  <2>1. status' \in [Books -> Status]
    <3>1. CASE UNCHANGED status
      BY <3>1 DEF Typed
    <3>2. ASSUME NEW b, NEW x \in Status, status' = [status EXCEPT ![b] = x] PROVE status' \in [Books -> Status]
      BY <3>2 DEF Typed
    <3>3. CASE CheckOut(q)
      BY <3>3 DEF CheckOut, Typed, Status
    <3>4. CASE TakeBack(q)
      BY <3>4 DEF TakeBack, Typed, Status
    <3> QED
      BY <1>10, <3>1, <3>3, <3>4 DEF Serve, Look
  <2> DEFINE x == [req[q] EXCEPT !.body = status']
  <2>2. x \in Calls /\ x.kind = req[q].kind /\ x.book = req[q].book
    BY <2>1, BodyTyped DEF Calls
  <2>3. Sets(q, x) /\ modal' = modal
    BY <1>10, <2>2 DEF Serve, Sets, page
  <2>4. req' \in [Requests -> Calls] /\ Booked'
    <3> HIDE DEF x
    <3> QED
      BY <1>0, <2>2, <2>3, SetsTyped DEF Booked
  <2> HIDE DEF x
  <2> QED
    BY <1>10, <2>1, <2>4, LineTyped DEF Serve, Typed, Booked, page, worker, loop
<1>11. ASSUME NEW q \in Requests, DetailArrives(q) PROVE Typed'
  <2> DEFINE x == IF req[q].body[req[q].book] # "in" THEN [req[q] EXCEPT !.kind = "again"] ELSE Free
  <2>1. x \in Calls /\ (x.kind \in Talks => x.kind = "again" /\ x.book = req[q].book) /\ x.kind # "manifest"
    <3>1. "again" \in Waits
      BY DEF Waits
    <3> QED
      BY <3>1, WaitIs, CallTyped DEF Free, Talks
  <2>2. Arrives(q, {"detail"}, x)
    BY <1>11 DEF DetailArrives
  <2> HIDE DEF x
  <2>3. Sets(q, x) /\ req[q].kind = "detail" /\ line' \in Seq(Requests)
    BY <2>1, <2>2, ArrivesIs
  <2>4. req[q].book \in Books /\ modal # None /\ req[q].kind \in Talks
    BY <2>3 DEF Typed, Talks
  <2>5. req' \in [Requests -> Calls] /\ Booked'
    BY <1>11, <2>1, <2>3, <2>4, SetsTyped DEF DetailArrives
  <2>6. detail' \in [book : Books \cup {None}, status : Status] /\ detail'.book \in Books
    BY <1>11, <2>4, RenderTyped DEF DetailArrives
  <2>7. orders' \in Seq(Orders)
    <3>1. CASE Tell("query", {req[q].book}, q)
      BY <2>4, <3>1, TellTyped DEF Order
    <3> QED
      BY <1>11, <3>1 DEF DetailArrives, Typed
  <2> QED
    BY <1>11, <2>3, <2>5, <2>6, <2>7 DEF DetailArrives, Typed, Booked, loop
<1>12. ASSUME NEW q \in Requests, Refreshed(q) PROVE Typed'
  <2>1. Sets(q, Free) /\ req[q].kind \in Talks /\ line' \in Seq(Requests)
    BY <1>12, CallTyped, ArrivesIs DEF Refreshed, Talks
  <2>2. detail' \in [book : Books \cup {None}, status : Status] /\ detail'.book \in Books
    BY <1>12, <2>1, RenderTyped DEF Refreshed
  <2>3. req' \in [Requests -> Calls] /\ Booked'
    BY <1>12, <2>1, SetsOver DEF Refreshed, Free, Talks
  <2> QED
    BY <1>12, <2>1, <2>2, <2>3 DEF Refreshed, Typed, Booked, worker, loop
<1>13. ASSUME NEW q \in Requests, CheckoutArrives(q) PROVE Typed'
  <2>0. Call("list", None) \in Calls /\ Call("list", None).kind = "list"
    BY CallTyped DEF Call
  <2>1. Sets(q, Call("list", None)) /\ req[q].kind = "checkout" /\ line' \in Seq(Requests)
    BY <1>13, <2>0, ArrivesIs DEF CheckoutArrives
  <2>2. req[q].book \in Books /\ modal # None /\ req[q].kind \in Talks /\ req[q].body[req[q].book] \in Status
    BY <2>1, BodyTyped DEF Typed, Talks
  <2>3. detail' \in [book : Books \cup {None}, status : Status] /\ detail'.book \in Books
    BY <1>13, <2>2, RenderTyped DEF CheckoutArrives
  <2>4. req' \in [Requests -> Calls] /\ Booked'
    BY <1>13, <2>0, <2>1, SetsOver DEF CheckoutArrives, Talks
  <2>5. list' \in [Books -> Status]
    BY <1>13, <2>2 DEF CheckoutArrives, Typed, Status
  <2> QED
    BY <1>13, <2>1, <2>2, <2>3, <2>4, <2>5 DEF CheckoutArrives, Typed, Booked, worker, loop
<1>14. ASSUME NEW q \in Requests, ReturnArrives(q) PROVE Typed'
  <2>0. Call("list", None) \in Calls /\ Call("list", None).kind = "list"
    BY CallTyped DEF Call
  <2>1. Sets(q, Call("list", None)) /\ req[q].kind = "return" /\ line' \in Seq(Requests)
    BY <1>14, <2>0, ArrivesIs DEF ReturnArrives
  <2>2. req[q].book \in Books /\ modal # None /\ req[q].kind \in Talks /\ req[q].body[req[q].book] \in Status
    BY <2>1, BodyTyped DEF Typed, Talks
  <2>3. detail' \in [book : Books \cup {None}, status : Status] /\ detail'.book \in Books
    BY <1>14, <2>2, RenderTyped DEF ReturnArrives
  <2>4. req' \in [Requests -> Calls] /\ Booked'
    BY <1>14, <2>0, <2>1, SetsOver DEF ReturnArrives, Talks
  <2>5. list' \in [Books -> Status]
    BY <1>14, <2>2 DEF ReturnArrives, Typed, Status
  <2>6. orders' \in Seq(Orders)
    <3>1. modal \in Books
      BY <2>2 DEF Typed
    <3> QED
      BY <1>14, <3>1, TellTyped DEF ReturnArrives, Order
  <2> QED
    BY <1>14, <2>1, <2>2, <2>3, <2>4, <2>5, <2>6 DEF ReturnArrives, Typed, Booked, loop
<1>15. ASSUME NEW q \in Requests, ListArrives(q) PROVE Typed'
  <2>1. PICK x \in Calls : Arrives(q, {"list"}, x) /\ x.kind \in {"free", "copies"}
    BY <1>15, ListThen
  <2>2. Sets(q, x) /\ line' \in Seq(Requests)
    BY <2>1, ArrivesIs
  <2>3. req' \in [Requests -> Calls] /\ Booked'
    BY <1>15, <2>1, <2>2, SetsOver DEF ListArrives, Talks
  <2>4. list' \in [Books -> Status] /\ poll' \in BOOLEAN
    BY <1>15, BodyTyped DEF ListArrives, Active
  <2>5. orders' \in Seq(Orders)
    <3>1. CASE Tell("query", Listed(req[q].body), q)
      BY <3>1, TellTyped DEF Order, Listed
    <3> QED
      BY <1>15, <3>1 DEF ListArrives, Typed
  <2> QED
    BY <1>15, <2>2, <2>3, <2>4, <2>5 DEF ListArrives, Typed, Booked, loop
<1>16. ASSUME NEW q \in Requests, ManifestArrives(q) PROVE Typed'
  <2>1. Sets(q, Free) /\ req[q].kind = "manifest" /\ line' \in Seq(Requests)
    BY <1>16, CallTyped, ArrivesIs DEF ManifestArrives
  <2>2. req[q].book \in Books
    BY <2>1 DEF Typed
  <2>3. req' \in [Requests -> Calls] /\ Booked'
    BY <1>16, <2>1, SetsOver DEF ManifestArrives, Free, Talks
  <2>4. orders' \in Seq(Orders) /\ kept' \in SUBSET Books
    <3>1. CASE Tell("cache", {req[q].book}, None) /\ UNCHANGED kept
      BY <2>2, <3>1, TellTyped DEF Typed, Order
    <3> QED
      BY <1>16, <3>1 DEF ManifestArrives, Typed
  <2> QED
    BY <1>16, <2>1, <2>3, <2>4 DEF ManifestArrives, Typed, Booked, loop
<1>19. ASSUME NEW q \in Requests, MarkArrives(q) PROVE Typed'
  <2>0. Call("list", None) \in Calls /\ Call("list", None).kind = "list"
    BY CallTyped DEF Call
  <2>1. Sets(q, Call("list", None)) /\ req[q].kind = "read" /\ line' \in Seq(Requests)
    BY <1>19, <2>0, ArrivesIs DEF MarkArrives
  <2>2. detail' \in [book : Books \cup {None}, status : Status] /\ detail'.book \in Books
    BY <1>19, <2>1, RenderTyped DEF MarkArrives, Talks
  <2>3. req' \in [Requests -> Calls] /\ Booked'
    BY <1>19, <2>0, <2>1, SetsOver DEF MarkArrives, Talks
  <2> QED
    BY <1>19, <2>1, <2>2, <2>3 DEF MarkArrives, Typed, Booked, worker, loop
<1>17. ASSUME NEW q \in Requests, ErrorArrives(q) PROVE Typed'
  <2>1. Sets(q, Free) /\ modal' = modal
    BY <1>17, CallTyped DEF ErrorArrives, Sets
  <2>2. req' \in [Requests -> Calls] /\ Booked'
    BY <2>1, SetsOver DEF Free, Talks
  <2>3. line' \in Seq(Requests)
    <3>1. CASE Answered(q)
      BY <1>17, <3>1, LineLeft DEF ErrorArrives, Typed
    <3> QED
      BY <1>17, <3>1 DEF ErrorArrives, Typed
  <2>4. list' \in [Books -> Status] /\ poll' \in BOOLEAN /\ kept' \in SUBSET Books
    BY <1>17 DEF ErrorArrives, Typed, AllIn, Status
  <2> QED
    BY <1>17, <2>2, <2>3, <2>4 DEF ErrorArrives, Typed, Booked, worker, loop
<1>18. CASE UNCHANGED pageVars
  BY <1>18 DEF pageVars, page, worker, hist, loop, Typed
<1> QED
  BY <1>1, <1>2, <1>3, <1>4, <1>5, <1>6, <1>7, <1>8, <1>9, <1>10, <1>11, <1>12, <1>13, <1>14, <1>15,
     <1>16, <1>17, <1>18, <1>19 DEF PageNext, Answer

-----------------------------------------------------------------------------
(* The line of answers                                                      *)

(* Where the others of the line come to be.                                 *)
LEMMA LeftIs ==
  ASSUME Typed, NEW i \in DOMAIN line, Leaves(i)
  PROVE  \A k \in DOMAIN line' :
           /\ k \in Nat /\ i \in Nat
           /\ k < i => k \in DOMAIN line /\ line'[k] = line[k]
           /\ k >= i => k + 1 \in DOMAIN line /\ line'[k] = line[k + 1]
<1>1. /\ Len(line) \in Nat /\ DOMAIN line = 1..Len(line) /\ DOMAIN line' = 1..(Len(line) - 1)
      /\ \A k \in 1..(Len(line) - 1) : line'[k] = IF k < i THEN line[k] ELSE line[k + 1]
  BY LineLeft DEF Typed
<1>2. i \in 1..Len(line)
  BY <1>1
<1> QED
  BY <1>1, <1>2

(* The line stays, and with it what is in it.                               *)
LEMMA InLineSame ==
  ASSUME Typed, InLine, UNCHANGED line,
         \A r \in Requests : req[r].kind \notin Waits \cup {"free"} => req'[r].kind = req[r].kind
  PROVE  InLine'
<1>1. \A i \in DOMAIN line : line[i] \in Requests
  BY ElementOfSeq, LenProperties DEF Typed
<1> QED
  BY <1>1 DEF InLine

(* One leaves it,                                                           *)
LEMMA InLineLeft ==
  ASSUME Typed, InLine, NEW q \in Requests, NEW i \in DOMAIN line, line[i] = q, Leaves(i),
         \A r \in Requests \ {q} : req'[r] = req[r]
  PROVE  InLine'
<1>1. \A k \in DOMAIN line : line[k] \in Requests
  BY ElementOfSeq, LenProperties DEF Typed
<1>2. ASSUME NEW k \in DOMAIN line', NEW l \in DOMAIN line', line'[k] = line'[l] PROVE k = l
  BY <1>2, LeftIs DEF InLine
<1>3. ASSUME NEW k \in DOMAIN line' PROVE req'[line'[k]].kind \notin Waits \cup {"free"}
  <2>1. PICK j \in DOMAIN line : j # i /\ line'[k] = line[j]
    BY LeftIs
  <2>2. line[j] # q
    BY <2>1 DEF InLine
  <2> QED
    BY <1>1, <2>1, <2>2 DEF InLine
<1> QED
  BY <1>2, <1>3 DEF InLine

(* for its answer has come.                                                 *)
LEMMA InLineArrives ==
  ASSUME Typed, InLine, NEW q \in Requests, NEW kinds, NEW then \in Calls, Arrives(q, kinds, then)
  PROVE  InLine'
<1>1. PICK i \in DOMAIN line : line[i] = q /\ Leaves(i)
  BY ArrivesIs
<1>2. Sets(q, then)
  BY ArrivesIs
<1> QED
  BY <1>1, <1>2, SetsIs, InLineLeft

(* A request that is sent is not in the line yet,                           *)
LEMMA InLineSends ==
  ASSUME Typed, InLine, NEW kind \in Kinds, NEW b \in Books \cup {None}, Send(kind, b), b \in Books \/ kind = "list",
         UNCHANGED line
  PROVE  InLine'
<1>1. PICK q \in Requests : Sets(q, Call(kind, b)) /\ req[q].kind = "free"
  BY SentIs
<1> QED
  BY <1>1, SetsIs, InLineSame DEF Waits

(* until the server has answered it.                                        *)
LEMMA InLineServe ==
  ASSUME Typed, InLine, NEW q \in Requests, Serve(q)
  PROVE  InLine'
<1>1. \A k \in DOMAIN line : line[k] \in Requests /\ line[k] # q
  BY ElementOfSeq, LenProperties DEF Typed, Serve, Answered
<1>2. /\ Len(line) \in Nat /\ DOMAIN line = 1..Len(line) /\ DOMAIN line' = 1..(Len(line) + 1)
      /\ \A i \in 1..Len(line) : line'[i] = line[i]
      /\ line'[Len(line) + 1] = q
  BY Appended DEF Serve, Typed
<1>3. \A r \in Requests : req'[r].kind = req[r].kind
  BY BodyTyped DEF Serve, Typed, Calls
<1>4. req[q].kind \notin Waits \cup {"free"}
  BY DEF Serve, Look, CheckOut, TakeBack, Waits
<1> QED
  BY <1>1, <1>2, <1>3, <1>4 DEF InLine

(* A request is in the line once, and not after its answer has come.        *)
LEMMA InLineStep ==
  ASSUME Typed, Queries, InLine, [PageNext]_pageVars
  PROVE  InLine'
<1>1. ASSUME NEW b \in Books, Open(b) PROVE InLine'
  BY <1>1, InLineSends DEF Open, Kinds
<1>2. ASSUME NEW b \in Books, Downloaded(b) \/ Take(b) \/ Fetching(b) \/ Fetched(b) PROVE InLine'
  BY <1>2, InLineSame DEF Downloaded, Take, Fetching, Fetched
<1>4. CASE Obey
  BY <1>4, InLineSame DEF Obey
<1>5. CASE MailArrives
  <2> DEFINE m == Head(mail)
  <2>1. CASE UNCHANGED req
    BY <1>5, <2>1, InLineSame DEF MailArrives
  <2>2. CASE m.query # None /\ req' = [req EXCEPT ![m.query] = Free]
    <3>1. m.query \in Requests /\ req[m.query].kind \in Waits
      BY <1>5, <2>2, Tailed DEF MailArrives, Typed, Queries
    <3> QED
      BY <1>5, <2>2, <3>1, InLineSame DEF MailArrives, Typed
  <2> QED
    BY <1>5, <2>1, <2>2 DEF MailArrives
<1>6. CASE RefreshDetail \/ ToggleRead
  BY <1>6, InLineSends DEF RefreshDetail, ToggleRead, Kinds, Typed
<1>7. CASE ToggleCheckout
  <2>1. Action \in Kinds
    BY DEF Action, Kinds
  <2> QED
    BY <1>7, <2>1, InLineSends DEF ToggleCheckout, Typed
<1>8. CASE ToggleDevice
  <2>1. detail.book \in Books
    BY <1>8 DEF ToggleDevice, Typed
  <2>2. CASE Send("manifest", detail.book)
    BY <1>8, <2>1, <2>2, InLineSends DEF ToggleDevice, Kinds
  <2>3. CASE UNCHANGED req
    BY <1>8, <2>3, InLineSame DEF ToggleDevice
  <2> QED
    BY <1>8, <2>2, <2>3 DEF ToggleDevice, StartDevice, ClearDevice
<1>9. CASE Poll
  BY <1>9, InLineSends DEF Poll, Kinds
<1>10. ASSUME NEW q \in Requests, Answer(q) PROVE InLine'
  <2>1. ASSUME DetailArrives(q) PROVE InLine'
    <3> DEFINE x == IF req[q].body[req[q].book] # "in" THEN [req[q] EXCEPT !.kind = "again"] ELSE Free
    <3>1. x \in Calls
      BY WaitIs, CallTyped DEF Waits
    <3>2. Arrives(q, {"detail"}, x)
      BY <2>1 DEF DetailArrives
    <3> HIDE DEF x
    <3> QED
      BY <3>1, <3>2, InLineArrives
  <2>2. ASSUME ListArrives(q) PROVE InLine'
    BY <2>2, ListThen, InLineArrives
  <2> QED
    BY <1>10, <2>1, <2>2, CallTyped, InLineArrives
       DEF Answer, Refreshed, MarkArrives, CheckoutArrives, ReturnArrives, ManifestArrives
<1>11. ASSUME NEW q \in Requests, ErrorArrives(q) PROVE InLine'
  <2>1. \A r \in Requests \ {q} : req'[r] = req[r]
    BY <1>11 DEF ErrorArrives, Typed
  <2>2. CASE Answered(q)
    BY <1>11, <2>1, <2>2, InLineLeft DEF ErrorArrives
  <2>3. CASE ~Answered(q)
    <3>1. \A k \in DOMAIN line : line[k] \in Requests \ {q}
      BY <2>3, ElementOfSeq, LenProperties DEF Typed, Answered
    <3> QED
      BY <1>11, <2>1, <2>3, <3>1 DEF ErrorArrives, InLine
  <2> QED
    BY <2>2, <2>3
<1>12. ASSUME NEW q \in Requests, Serve(q) PROVE InLine'
  BY <1>12, InLineServe
<1>13. CASE UNCHANGED pageVars
  BY <1>13, InLineSame DEF pageVars
<1> QED
  BY <1>1, <1>2, <1>4, <1>5, <1>6, <1>7, <1>8, <1>9, <1>10, <1>11, <1>12, <1>13 DEF PageNext

-----------------------------------------------------------------------------
(* The requests that wait for the worker                                    *)

(* The orders and the mail stay, with the requests they answer.             *)
LEMMA QueriesSame ==
  ASSUME Typed, Queries, UNCHANGED <<orders, mail>>,
         \A r \in Requests : req[r].kind \in Waits => req'[r].kind \in Waits
  PROVE  Queries'
BY DEF Queries

(* What is told of a book and is no question.                               *)
LEMMA QueriesTold ==
  ASSUME Typed, Queries, UNCHANGED mail, NEW kind \in {"cache", "clear"}, NEW b \in Books, Tell(kind, {b}, None),
         \A r \in Requests : req[r].kind \in Waits => req'[r].kind \in Waits
  PROVE  Queries'
<1> DEFINE e == [kind |-> kind, books |-> {b}, query |-> None]
<1>1. e \in Orders /\ e.query = None
  BY OrderTyped DEF Order
<1>2. /\ Len(orders) \in Nat /\ DOMAIN orders = 1..Len(orders) /\ DOMAIN orders' = 1..(Len(orders) + 1)
      /\ \A i \in 1..Len(orders) : orders'[i] = orders[i]
      /\ orders'[Len(orders) + 1] = e
  BY <1>1, Appended DEF Tell, Typed
<1> HIDE DEF e
<1>3. \A i \in DOMAIN orders' : orders'[i].query # None => i \in DOMAIN orders /\ orders'[i] = orders[i]
  BY <1>1, <1>2
<1> QED
  BY <1>3 DEF Queries

(* The page asks about the book it is to render, or about those it lists.   *)
LEMMA QueriesAsked ==
  ASSUME Typed, Queries, NEW q \in Requests, req[q].kind \notin Waits, NEW books \in SUBSET Books,
         Tell("query", books, q), UNCHANGED mail, req'[q].kind \in Waits,
         \A r \in Requests \ {q} : req'[r] = req[r]
  PROVE  Queries'
<1> DEFINE e == [kind |-> "query", books |-> books, query |-> q]
<1>1. e \in Orders /\ e.query = q /\ e.kind = "query"
  BY OrderTyped DEF Order
<1>2. /\ Len(orders) \in Nat /\ DOMAIN orders = 1..Len(orders) /\ DOMAIN orders' = 1..(Len(orders) + 1)
      /\ \A i \in 1..Len(orders) : orders'[i] = orders[i]
      /\ orders'[Len(orders) + 1] = e
  BY <1>1, Appended DEF Tell, Typed
<1> HIDE DEF e
<1>3. /\ \A i \in DOMAIN orders : orders[i].query # q
      /\ \A i \in DOMAIN mail : mail[i].query # q
      /\ q # None
  BY PageAssumption DEF Queries
<1>4. \A i \in DOMAIN orders' :
        \/ i \in DOMAIN orders /\ orders'[i] = orders[i]
        \/ i = Len(orders) + 1 /\ orders'[i] = e
  BY <1>2
<1>5. ASSUME NEW i \in DOMAIN orders', orders'[i].query # None
      PROVE /\ orders'[i].query \in Requests /\ orders'[i].kind = "query"
            /\ req'[orders'[i].query].kind \in Waits
            /\ \A j \in DOMAIN orders' : orders'[j].query = orders'[i].query => j = i
            /\ \A j \in DOMAIN mail' : mail'[j].query # orders'[i].query
  <2>1. CASE i \in DOMAIN orders /\ orders'[i] = orders[i]
    <3>1. orders[i].query \in Requests \ {q}
      BY <1>3, <1>5, <2>1 DEF Queries
    <3>2. \A j \in DOMAIN orders' : orders'[j].query = orders'[i].query => j = i
      BY <1>1, <1>4, <1>5, <2>1, <3>1 DEF Queries
    <3> QED
      BY <1>5, <2>1, <3>1, <3>2 DEF Queries
  <2>2. CASE i = Len(orders) + 1 /\ orders'[i] = e
    <3>1. \A j \in DOMAIN orders' : orders'[j].query = q => j = i
      BY <1>1, <1>3, <1>4, <2>2
    <3> QED
      BY <1>1, <1>3, <2>2, <3>1
  <2> QED
    BY <1>4, <2>1, <2>2
<1>6. ASSUME NEW i \in DOMAIN mail', mail'[i].query # None
      PROVE /\ mail'[i].query \in Requests
            /\ req'[mail'[i].query].kind \in Waits
            /\ \A j \in DOMAIN mail' : mail'[j].query = mail'[i].query => j = i
  BY <1>3, <1>6 DEF Queries
<1> QED
  BY <1>5, <1>6 DEF Queries

(* What the worker says of its own.                                         *)
LEMMA QueriesReported ==
  ASSUME Typed, Queries, UNCHANGED <<req, orders>>, NEW b \in Books, NEW there \in SUBSET Books,
         there \subseteq {b}, Report({b}, there, None)
  PROVE  Queries'
<1> DEFINE e == [books |-> {b}, there |-> there, query |-> None]
<1>1. e \in Mails /\ e.query = None
  BY DEF Mails
<1>2. /\ Len(mail) \in Nat /\ DOMAIN mail = 1..Len(mail) /\ DOMAIN mail' = 1..(Len(mail) + 1)
      /\ \A i \in 1..Len(mail) : mail'[i] = mail[i]
      /\ mail'[Len(mail) + 1] = e
  BY <1>1, Appended DEF Report, Typed
<1> HIDE DEF e
<1>3. \A i \in DOMAIN mail' : mail'[i].query # None => i \in DOMAIN mail /\ mail'[i] = mail[i]
  BY <1>1, <1>2
<1>4. \A i \in DOMAIN orders : orders[i].query # None => \A j \in DOMAIN mail' : mail'[j].query # orders[i].query
  BY <1>3 DEF Queries
<1> QED
  BY <1>3, <1>4 DEF Queries

(* What it has obeyed.                                                      *)
LEMMA QueriesObeyed ==
  ASSUME Typed, Queries, UNCHANGED req, orders # <<>>, orders' = Tail(orders), NEW there \in SUBSET Books,
         there \subseteq orders[1].books, Report(orders[1].books, there, orders[1].query)
  PROVE  Queries'
<1> DEFINE e == [books |-> orders[1].books, there |-> there, query |-> orders[1].query]
<1>1. /\ Len(orders) \in Nat /\ DOMAIN orders = 1..Len(orders) /\ 1 \in DOMAIN orders /\ orders[1] \in Orders
      /\ DOMAIN orders' = 1..(Len(orders) - 1)
      /\ \A i \in 1..(Len(orders) - 1) : orders'[i] = orders[i + 1]
  BY Tailed DEF Typed
<1>2. e \in Mails /\ e.query = orders[1].query
  BY <1>1, OrderIs DEF Mails
<1>3. /\ Len(mail) \in Nat /\ DOMAIN mail = 1..Len(mail) /\ DOMAIN mail' = 1..(Len(mail) + 1)
      /\ \A i \in 1..Len(mail) : mail'[i] = mail[i]
      /\ mail'[Len(mail) + 1] = e
  BY <1>2, Appended DEF Report, Typed
<1> HIDE DEF e
<1>4. \A i \in DOMAIN orders' : i + 1 \in DOMAIN orders /\ i + 1 # 1 /\ i \in Nat /\ orders'[i] = orders[i + 1]
  BY <1>1
<1>5. \A i \in DOMAIN mail' :
        \/ i \in DOMAIN mail /\ mail'[i] = mail[i]
        \/ i = Len(mail) + 1 /\ mail'[i] = e
  BY <1>3
<1>6. ASSUME NEW i \in DOMAIN orders', orders'[i].query # None
      PROVE /\ orders'[i].query \in Requests /\ orders'[i].kind = "query"
            /\ req'[orders'[i].query].kind \in Waits
            /\ \A j \in DOMAIN orders' : orders'[j].query = orders'[i].query => j = i
            /\ \A j \in DOMAIN mail' : mail'[j].query # orders'[i].query
  <2>1. \A j \in DOMAIN orders' : orders'[j].query = orders'[i].query => j + 1 = i + 1
    BY <1>4, <1>6 DEF Queries
  <2>2. \A j \in DOMAIN mail' : mail'[j].query # orders'[i].query
    BY <1>1, <1>2, <1>4, <1>5, <1>6 DEF Queries
  <2> QED
    BY <1>4, <1>6, <2>1, <2>2 DEF Queries
<1>7. ASSUME NEW i \in DOMAIN mail', mail'[i].query # None
      PROVE /\ mail'[i].query \in Requests
            /\ req'[mail'[i].query].kind \in Waits
            /\ \A j \in DOMAIN mail' : mail'[j].query = mail'[i].query => j = i
  BY <1>1, <1>2, <1>5, <1>7 DEF Queries
<1> QED
  BY <1>6, <1>7 DEF Queries

(* What the page has read.                                                  *)
LEMMA QueriesRead ==
  ASSUME Typed, Queries, UNCHANGED orders, mail # <<>>, mail' = Tail(mail),
         \/ UNCHANGED req
         \/ mail[1].query # None /\ req' = [req EXCEPT ![mail[1].query] = Free]
  PROVE  Queries'
<1>1. /\ Len(mail) \in Nat /\ DOMAIN mail = 1..Len(mail) /\ 1 \in DOMAIN mail
      /\ DOMAIN mail' = 1..(Len(mail) - 1)
      /\ \A i \in 1..(Len(mail) - 1) : mail'[i] = mail[i + 1]
  BY Tailed DEF Typed
<1>2. \A i \in DOMAIN mail' : i + 1 \in DOMAIN mail /\ i + 1 # 1 /\ i \in Nat /\ mail'[i] = mail[i + 1]
  BY <1>1
<1>3. \A r \in Requests : req[r].kind \in Waits /\ (mail[1].query = None \/ r # mail[1].query) => req'[r] = req[r]
  BY <1>1 DEF Typed, Queries
<1>4. ASSUME NEW i \in DOMAIN orders, orders[i].query # None
      PROVE /\ req'[orders[i].query] = req[orders[i].query]
            /\ \A j \in DOMAIN mail' : mail'[j].query # orders[i].query
  BY <1>1, <1>2, <1>3, <1>4 DEF Queries
<1>5. ASSUME NEW i \in DOMAIN mail', mail'[i].query # None
      PROVE /\ mail'[i].query \in Requests
            /\ req'[mail'[i].query].kind \in Waits
            /\ \A j \in DOMAIN mail' : mail'[j].query = mail'[i].query => j = i
  <2>1. mail'[i] = mail[i + 1] /\ i + 1 \in DOMAIN mail /\ i + 1 # 1 /\ i \in Nat
    BY <1>2
  <2>2. mail[i + 1].query # mail[1].query
    BY <1>1, <1>5, <2>1 DEF Queries
  <2>3. req'[mail[i + 1].query] = req[mail[i + 1].query] /\ mail[i + 1].query \in Requests
    BY <1>3, <1>5, <2>1, <2>2 DEF Queries
  <2>4. \A j \in DOMAIN mail' : mail'[j].query = mail'[i].query => j + 1 = i + 1 /\ j \in Nat
    BY <1>2, <1>5, <2>1 DEF Queries
  <2> QED
    BY <1>5, <2>1, <2>3, <2>4 DEF Queries
<1> QED
  BY <1>4, <1>5 DEF Queries

(* A request that is sent is none that waits for the worker,                *)
LEMMA QueriesSends ==
  ASSUME Typed, Queries, NEW kind \in Kinds, NEW b \in Books \cup {None}, Send(kind, b), b \in Books \/ kind = "list",
         UNCHANGED <<orders, mail>>
  PROVE  Queries'
<1>1. PICK q \in Requests : Sets(q, Call(kind, b)) /\ req[q].kind = "free"
  BY SentIs
<1> QED
  BY <1>1, SetsIs, QueriesSame DEF Waits

(* nor is one whose answer comes.                                           *)
LEMMA QueriesArrives ==
  ASSUME Typed, Queries, NEW q \in Requests, NEW kinds, NEW then \in Calls, Arrives(q, kinds, then),
         kinds \cap Waits = {}
  PROVE  \A r \in Requests : req[r].kind \in Waits => req'[r] = req[r]
BY ArrivesIs, SetsIs

(* Each request that waits for the worker does so for one message, on its   *)
(* way to it or back.                                                       *)
LEMMA QueriesStep ==
  ASSUME Typed, Queries, [PageNext]_pageVars
  PROVE  Queries'
<1>1. ASSUME NEW b \in Books, Open(b) PROVE Queries'
  BY <1>1, QueriesSends DEF Open, Kinds, worker
<1>2. ASSUME NEW b \in Books, Downloaded(b) PROVE Queries'
  BY <1>2, QueriesSame DEF Downloaded, worker
<1>3. ASSUME NEW b \in Books, Take(b) \/ Fetching(b) \/ Fetched(b) PROVE Queries'
  <2>1. CASE Take(b)
    BY <2>1, QueriesSame DEF Take
  <2>2. ASSUME UNCHANGED <<req, orders>>, NEW there \in SUBSET {b}, Report({b}, there, None) PROVE Queries'
    BY <2>2, QueriesReported
  <2>3. CASE Fetching(b)
    BY <2>2, <2>3 DEF Fetching
  <2>4. CASE Fetched(b)
    BY <2>2, <2>4 DEF Fetched
  <2> QED
    BY <1>3, <2>1, <2>3, <2>4
<1>4. CASE Obey
  <2>1. PICK o \in Orders, there \in SUBSET Books :
          o = orders[1] /\ Report(o.books, there, o.query) /\ there \subseteq o.books
    BY <1>4, ObeyReports
  <2> QED
    BY <1>4, <2>1, QueriesObeyed DEF Obey
<1>5. CASE MailArrives
  <2>1. Head(mail) = mail[1]
    BY <1>5, Tailed DEF MailArrives, Typed
  <2> QED
    BY <1>5, <2>1, QueriesRead DEF MailArrives
<1>6. CASE RefreshDetail \/ ToggleRead
  BY <1>6, QueriesSends DEF RefreshDetail, ToggleRead, Kinds, Typed, worker
<1>7. CASE ToggleCheckout
  <2>1. Action \in Kinds
    BY DEF Action, Kinds
  <2> QED
    BY <1>7, <2>1, QueriesSends DEF ToggleCheckout, Typed, worker
<1>8. CASE ToggleDevice
  <2>1. detail.book \in Books
    BY <1>8 DEF ToggleDevice, Typed
  <2>2. CASE StartDevice(detail.book)
    <3>1. CASE Send("manifest", detail.book)
      BY <1>8, <2>1, <2>2, <3>1, QueriesSends DEF ToggleDevice, StartDevice, Kinds
    <3>2. CASE UNCHANGED req
      BY <1>8, <2>2, <3>2, QueriesSame DEF ToggleDevice, StartDevice
    <3> QED
      BY <2>2, <3>1, <3>2 DEF StartDevice
  <2>3. CASE ClearDevice(detail.book)
    BY <1>8, <2>1, <2>3, QueriesTold DEF ToggleDevice, ClearDevice
  <2> QED
    BY <1>8, <2>2, <2>3 DEF ToggleDevice
<1>9. CASE Poll
  BY <1>9, QueriesSends DEF Poll, Kinds, worker
<1>10. ASSUME NEW q \in Requests, DetailArrives(q) PROVE Queries'
  <2> DEFINE x == IF req[q].body[req[q].book] # "in" THEN [req[q] EXCEPT !.kind = "again"] ELSE Free
  <2>1. x \in Calls
    BY WaitIs, CallTyped DEF Waits
  <2>2. Arrives(q, {"detail"}, x)
    BY <1>10 DEF DetailArrives
  <2>3. req[q].body[req[q].book] # "in" => x.kind \in Waits
    BY WaitIs DEF Waits
  <2> HIDE DEF x
  <2>4. Sets(q, x) /\ req[q].kind = "detail"
    BY <2>1, <2>2, ArrivesIs
  <2>5. req'[q] = x /\ \A r \in Requests \ {q} : req'[r] = req[r]
    BY <2>4, SetsIs
  <2>6. CASE req[q].body[req[q].book] # "in"
    <3>1. Tell("query", {req[q].book}, q) /\ {req[q].book} \in SUBSET Books
      BY <1>10, <2>4, <2>6 DEF DetailArrives, Typed, Talks
    <3> QED
      BY <1>10, <2>3, <2>4, <2>5, <2>6, <3>1, QueriesAsked DEF DetailArrives, Waits
  <2>7. CASE req[q].body[req[q].book] = "in"
    BY <1>10, <2>4, <2>5, <2>7, QueriesSame DEF DetailArrives, Waits
  <2> QED
    BY <2>6, <2>7
<1>11. ASSUME NEW q \in Requests, Refreshed(q) PROVE Queries'
  BY <1>11, CallTyped, QueriesArrives, QueriesSame DEF Refreshed, worker, Waits
<1>12. ASSUME NEW q \in Requests, CheckoutArrives(q) PROVE Queries'
  BY <1>12, CallTyped, QueriesArrives, QueriesSame DEF CheckoutArrives, worker, Waits
<1>13. ASSUME NEW q \in Requests, ReturnArrives(q) PROVE Queries'
  <2>1. \A r \in Requests : req[r].kind \in Waits => req'[r] = req[r]
    BY <1>13, CallTyped, QueriesArrives DEF ReturnArrives, Waits
  <2>2. modal \in Books
    BY <1>13 DEF ReturnArrives, Arrives, Typed, Talks
  <2> QED
    BY <1>13, <2>1, <2>2, QueriesTold DEF ReturnArrives
<1>14. ASSUME NEW q \in Requests, ListArrives(q) PROVE Queries'
  <2>1. PICK x \in Calls : /\ Arrives(q, {"list"}, x)
                           /\ UNCHANGED orders \/ (x.kind = "copies" /\ Tell("query", Listed(req[q].body), q))
    BY <1>14, ListThen
  <2>2. /\ Sets(q, x) /\ req[q].kind = "list" /\ UNCHANGED mail
        /\ \A r \in Requests : req[r].kind \in Waits => req'[r] = req[r]
    BY <1>14, <2>1, ArrivesIs, QueriesArrives DEF ListArrives, Waits
  <2>3. CASE UNCHANGED orders
    BY <2>2, <2>3, QueriesSame
  <2>4. CASE x.kind = "copies" /\ Tell("query", Listed(req[q].body), q)
    <3>1. Listed(req[q].body) \in SUBSET Books
      BY DEF Listed
    <3> QED
      BY <2>2, <2>4, <3>1, SetsIs, QueriesAsked DEF Waits
  <2> QED
    BY <2>1, <2>3, <2>4
<1>15. ASSUME NEW q \in Requests, ManifestArrives(q) PROVE Queries'
  <2>1. \A r \in Requests : req[r].kind \in Waits => req'[r] = req[r]
    BY <1>15, CallTyped, QueriesArrives DEF ManifestArrives, Waits
  <2>2. req[q].book \in Books
    BY <1>15 DEF ManifestArrives, Arrives, Typed
  <2>3. CASE Tell("cache", {req[q].book}, None)
    BY <1>15, <2>1, <2>2, <2>3, QueriesTold DEF ManifestArrives
  <2>4. CASE UNCHANGED orders
    BY <1>15, <2>1, <2>4, QueriesSame DEF ManifestArrives
  <2> QED
    BY <1>15, <2>3, <2>4 DEF ManifestArrives
<1>16. ASSUME NEW q \in Requests, ErrorArrives(q) PROVE Queries'
  <2>1. req[q].kind \notin Waits /\ \A r \in Requests \ {q} : req'[r] = req[r]
    BY <1>16 DEF ErrorArrives, Typed, Waits
  <2> QED
    BY <1>16, <2>1, QueriesSame DEF ErrorArrives, worker
<1>17. ASSUME NEW q \in Requests, Serve(q) PROVE Queries'
  <2>1. \A r \in Requests : req'[r].kind = req[r].kind /\ req'[r].book = req[r].book
    BY <1>17, BodyTyped DEF Serve, Typed, Calls
  <2> QED
    BY <1>17, <2>1, QueriesSame DEF Serve, worker
<1>19. ASSUME NEW q \in Requests, MarkArrives(q) PROVE Queries'
  BY <1>19, CallTyped, QueriesArrives, QueriesSame DEF MarkArrives, worker, Waits
<1>18. CASE UNCHANGED pageVars
  BY <1>18, QueriesSame DEF pageVars, worker
<1> QED
  BY <1>1, <1>2, <1>3, <1>4, <1>5, <1>6, <1>7, <1>8, <1>9, <1>10, <1>11, <1>12, <1>13, <1>14, <1>15,
     <1>16, <1>17, <1>18, <1>19 DEF PageNext, Answer

-----------------------------------------------------------------------------
(* The worker says how it stands with some books.                           *)
LEMMA MailedReport ==
  ASSUME Typed, Mailed, NEW books \in SUBSET Books, NEW there \in SUBSET Books, NEW q \in Requests \cup {None},
         there \subseteq books, Report(books, there, q),
         \A c \in books : c # activeBookId' => (c \in there <=> c \in device'),
         \A c \in Books \ books : (c \in device' <=> c \in device) /\ (c = activeBookId => c = activeBookId')
  PROVE  Mailed'
<1> DEFINE e == [books |-> books, there |-> there, query |-> q]
           n == Len(mail) + 1
<1>1. e \in Mails /\ e.books = books /\ e.there = there
  BY DEF Mails
<1>2. /\ Len(mail) \in Nat /\ DOMAIN mail = 1..Len(mail) /\ DOMAIN mail' = 1..n
      /\ \A i \in 1..Len(mail) : mail'[i] = mail[i]
      /\ mail'[n] = e
  BY <1>1, Appended DEF Report, Typed
<1>3. \A i \in DOMAIN mail' : (i = n /\ mail'[i] = e) \/ (i \in DOMAIN mail /\ mail'[i] = mail[i] /\ i < n /\ i \in Nat)
  BY <1>2
<1>4. \A i \in DOMAIN mail : i \in DOMAIN mail' /\ mail'[i] = mail[i]
  BY <1>2
<1>5. n \in DOMAIN mail' /\ mail'[n] = e /\ n \in Nat
  BY <1>2
<1> HIDE DEF e, n
<1>6. ASSUME NEW c \in Books, NEW i \in About(mail, c)', c # activeBookId', \A j \in About(mail, c)' : j <= i
      PROVE c \in mail'[i].there <=> c \in device'
  <2>1. i \in DOMAIN mail' /\ c \in mail'[i].books /\ \A j \in DOMAIN mail' : c \in mail'[j].books => j <= i
    BY <1>6 DEF About
  <2>2. CASE c \in books
    <3>1. i = n
      BY <1>1, <1>3, <1>5, <2>1, <2>2
    <3> QED
      BY <1>1, <1>5, <1>6, <2>2, <3>1
  <2>3. CASE c \notin books
    <3>1. i \in DOMAIN mail /\ mail'[i] = mail[i]
      BY <1>1, <1>3, <2>1, <2>3
    <3>2. \A j \in DOMAIN mail : c \in mail[j].books => j <= i
      BY <1>4, <2>1
    <3>3. i \in About(mail, c) /\ \A j \in About(mail, c) : j <= i
      BY <2>1, <3>1, <3>2 DEF About
    <3>4. c \in mail[i].there <=> c \in device
      BY <1>6, <2>3, <3>3 DEF Mailed
    <3> QED
      BY <2>3, <3>1, <3>4
  <2> QED
    BY <2>2, <2>3
<1> QED
  BY <1>6 DEF Mailed

(* What is read may be forgotten.                                           *)
LEMMA MailedRead ==
  ASSUME Typed, Mailed, UNCHANGED <<device, activeBookId>>, mail # <<>>, mail' = Tail(mail)
  PROVE  Mailed'
<1>1. /\ Len(mail) \in Nat /\ DOMAIN mail = 1..Len(mail) /\ 1 \in DOMAIN mail
      /\ DOMAIN mail' = 1..(Len(mail) - 1)
      /\ \A i \in 1..(Len(mail) - 1) : mail'[i] = mail[i + 1]
  BY Tailed DEF Typed
<1>2. \A i \in DOMAIN mail' : i + 1 \in DOMAIN mail /\ i \in Nat /\ i # 0 /\ mail'[i] = mail[i + 1]
  BY <1>1
<1>3. \A j \in DOMAIN mail : j \in Nat /\ (j = 1 \/ (j - 1 \in DOMAIN mail' /\ mail'[j - 1] = mail[j]))
  BY <1>1
<1>4. ASSUME NEW c \in Books, NEW i \in About(mail, c)', c # activeBookId', \A j \in About(mail, c)' : j <= i
      PROVE c \in mail'[i].there <=> c \in device'
  <2>1. i \in DOMAIN mail' /\ c \in mail'[i].books /\ \A j \in DOMAIN mail' : c \in mail'[j].books => j <= i
    BY <1>4 DEF About
  <2>2. i + 1 \in DOMAIN mail /\ c \in mail[i + 1].books /\ mail[i + 1] = mail'[i]
    BY <1>2, <2>1
  <2>3. ASSUME NEW j \in DOMAIN mail, c \in mail[j].books PROVE j <= i + 1
    <3>1. CASE j = 1
      BY <1>2, <2>1, <3>1
    <3>2. CASE j - 1 \in DOMAIN mail' /\ mail'[j - 1] = mail[j]
      <4>1. j - 1 <= i
        BY <2>1, <2>3, <3>2
      <4> QED
        BY <1>2, <1>3, <2>1, <4>1
    <3> QED
      BY <1>3, <3>1, <3>2
  <2>4. i + 1 \in About(mail, c) /\ \A j \in About(mail, c) : j <= i + 1
    BY <2>2, <2>3 DEF About
  <2> QED
    BY <1>4, <2>2, <2>4 DEF Mailed
<1> QED
  BY <1>4 DEF Mailed

(* The last message about a book is true.                                   *)
LEMMA MailedStep ==
  ASSUME Typed, Mailed, [PageNext]_pageVars
  PROVE  Mailed'
<1>1. ASSUME UNCHANGED <<device, activeBookId, mail>> PROVE Mailed'
  BY <1>1 DEF Mailed, About
<1>2. ASSUME NEW b \in Books, Take(b) \/ Fetching(b) \/ Fetched(b) PROVE Mailed'
  <2>1. CASE Take(b)
    BY <2>1, PageAssumption DEF Take, Mailed, About
  <2>2. CASE Fetching(b)
    <3>1. PICK there \in SUBSET {b} : Report({b}, there, None)
      BY <2>2 DEF Fetching
    <3>2. UNCHANGED <<device, activeBookId>> /\ activeBookId = b
      BY <2>2 DEF Fetching, loop
    <3>3. there \in SUBSET Books /\ {b} \in SUBSET Books
      BY <3>1
    <3> QED
      BY <3>1, <3>2, <3>3, MailedReport
  <2>3. CASE Fetched(b)
    <3>1. /\ activeBookId = b /\ device' \in {device \cup {b}, device \ {b}}
          /\ Report({b}, device' \cap {b}, None)
      BY <2>3 DEF Fetched
    <3> DEFINE there == device' \cap {b}
    <3>2. there \in SUBSET Books /\ there \subseteq {b} /\ {b} \in SUBSET Books /\ \A c \in {b} : c \in there <=> c \in device'
      OBVIOUS
    <3>3. Report({b}, there, None)
      BY <3>1
    <3> HIDE DEF there
    <3> QED
      BY <3>1, <3>2, <3>3, MailedReport
  <2> QED
    BY <1>2, <2>1, <2>2, <2>3
<1>3. CASE Obey
  <2>1. PICK o \in Orders, there \in SUBSET Books :
          /\ Report(o.books, there, o.query) /\ there \subseteq o.books
          /\ \A c \in o.books \ {activeBookId} : c \in there <=> c \in device'
          /\ \A c \in Books \ o.books : c \in device' <=> c \in device
    BY <1>3, ObeyReports
  <2>2. activeBookId' = activeBookId
    BY <1>3 DEF Obey, ObeyCache, ObeyClear, ObeyQuery, loop
  <2>3. o.books \in SUBSET Books /\ o.query \in Requests \cup {None}
    BY OrderIs
  <2> QED
    BY <2>1, <2>2, <2>3, MailedReport
<1>4. CASE MailArrives
  BY <1>4, MailedRead DEF MailArrives, loop
<1>5. ASSUME NEW q \in Requests, Answer(q) PROVE UNCHANGED <<device, activeBookId, mail>>
  BY <1>5 DEF Answer, DetailArrives, Refreshed, MarkArrives, CheckoutArrives, ReturnArrives, ListArrives,
              ManifestArrives, worker, loop
<1>6. ASSUME NEW q \in Requests, Serve(q) \/ ErrorArrives(q) PROVE UNCHANGED <<device, activeBookId, mail>>
  BY <1>6 DEF Serve, ErrorArrives, worker, loop
<1>7. ASSUME NEW b \in Books, Open(b) \/ Downloaded(b) PROVE UNCHANGED <<device, activeBookId, mail>>
  BY <1>7 DEF Open, Downloaded, worker, loop
<1>8. ASSUME \/ RefreshDetail \/ ToggleRead \/ ToggleCheckout \/ ToggleDevice \/ Poll
             \/ UNCHANGED pageVars
      PROVE UNCHANGED <<device, activeBookId, mail>>
  BY <1>8 DEF RefreshDetail, ToggleRead, ToggleCheckout, ToggleDevice, Poll, worker, loop, pageVars
<1> QED
  BY <1>1, <1>2, <1>3, <1>4, <1>5, <1>6, <1>7, <1>8 DEF PageNext

(* What holds of them whatever happens.                                     *)
Channels == Typed /\ Queries /\ InLine /\ Mailed

(* All that at first,                                                       *)
LEMMA ChannelsInit == PageInit => Channels
<1> SUFFICES ASSUME PageInit PROVE Channels
  OBVIOUS
<1>1. DOMAIN orders = {} /\ DOMAIN mail = {} /\ DOMAIN line = {}
  BY DEF PageInit
<1> QED
  BY <1>1, InitTyped DEF Channels, Queries, InLine, Mailed, About

(* and after every step.                                                    *)
LEMMA ChannelsStep == Channels /\ [PageNext]_pageVars => Channels'
BY TypedStep, QueriesStep, InLineStep, MailedStep DEF Channels

(* Whatever happens, requests, answers and messages match each other.       *)
THEOREM AlwaysChannels == PageSpec => []Channels
BY ChannelsInit, ChannelsStep, PTL DEF PageSpec

-----------------------------------------------------------------------------
(* The dialogue                                                             *)

(* The dialogue of a user who waits: one request at a time, about the book  *)
(* of the modal, and its answer is how things are.                          *)
OneTalk ==
  \A q \in Requests : req[q].kind \in Talks =>
    /\ req[q].book = modal
    /\ \A r \in Requests : req[r].kind \in Talks => r = q
    /\ Answered(q) \/ req[q].kind = "again" => (req[q].body[modal] = "in" <=> status[modal] = "in")
    /\ req[q].kind = "detail" => detail = NoDetail

(* What the modal shows is so, or the answer that says more is on its way.  *)
Shown ==
  detail # NoDetail =>
    /\ detail.book = modal
    /\ \/ detail.status = "in" <=> status[modal] = "in"
       \/ \E q \in Requests : req[q].kind \in {"checkout", "return"} /\ Answered(q)

(* All that of a user who waits, while no request fails.                    *)
Talking == waited /\ good => OneTalk /\ Shown

(* An answer that comes in leaves the others where they are.                *)
LEMMA AnsweredArrives ==
  ASSUME Typed, InLine, NEW q \in Requests, NEW i \in DOMAIN line, line[i] = q, Leaves(i),
         NEW r \in Requests \ {q}
  PROVE  Answered(r)' <=> Answered(r)
<1>1. /\ Len(line) \in Nat /\ DOMAIN line = 1..Len(line) /\ DOMAIN line' = 1..(Len(line) - 1)
      /\ \A k \in 1..(Len(line) - 1) : line'[k] = IF k < i THEN line[k] ELSE line[k + 1]
  BY LineLeft DEF Typed
<1>2. ASSUME NEW k \in DOMAIN line, line[k] = r PROVE \E l \in DOMAIN line' : line'[l] = r
  <2>1. k # i /\ k \in 1..Len(line) /\ i \in 1..Len(line)
    BY <1>1, <1>2
  <2>2. CASE k < i
    BY <1>1, <1>2, <2>1, <2>2
  <2>3. CASE k > i
    <3>1. k - 1 \in 1..(Len(line) - 1) /\ ~(k - 1 < i) /\ (k - 1) + 1 = k
      BY <1>1, <2>1, <2>3
    <3> QED
      BY <1>1, <1>2, <3>1
  <2> QED
    BY <2>1, <2>2, <2>3
<1>3. ASSUME NEW l \in DOMAIN line', line'[l] = r PROVE \E k \in DOMAIN line : line[k] = r
  BY <1>3, LeftIs
<1> QED
  BY <1>2, <1>3 DEF Answered

(* What is answered is that, and what was.                                  *)
LEMMA AnsweredServe ==
  ASSUME Typed, NEW q \in Requests, Serve(q), NEW r \in Requests
  PROVE  Answered(r)' <=> r = q \/ Answered(r)
<1>1. /\ Len(line) \in Nat /\ DOMAIN line = 1..Len(line) /\ DOMAIN line' = 1..(Len(line) + 1)
      /\ \A i \in 1..Len(line) : line'[i] = line[i]
      /\ line'[Len(line) + 1] = q
  BY Appended DEF Serve, Typed
<1>2. \A i \in DOMAIN line' : line'[i] = q \/ (i \in DOMAIN line /\ line'[i] = line[i])
  BY <1>1
<1>3. \A i \in DOMAIN line : i \in DOMAIN line' /\ line'[i] = line[i]
  BY <1>1
<1>4. Len(line) + 1 \in DOMAIN line'
  BY <1>1
<1> QED
  BY <1>1, <1>2, <1>3, <1>4 DEF Answered

(* A step that leaves the dialogue as it is.                                *)
LEMMA TalkSame ==
  ASSUME OneTalk, Shown, UNCHANGED <<modal, detail>>,
         status'[modal] = "in" <=> status[modal] = "in",
         \A r \in Requests : req[r].kind \in Talks \/ req'[r].kind \in Talks =>
           req'[r] = req[r] /\ (Answered(r)' <=> Answered(r))
  PROVE  OneTalk' /\ Shown'
<1>1. OneTalk'
  BY DEF OneTalk
<1>2. Shown'
  BY DEF Shown, Talks
<1> QED
  BY <1>1, <1>2

(* One that begins it.                                                      *)
LEMMA TalkStarts ==
  ASSUME Typed, InLine, Shown, Dialogue = {}, NEW kind \in Talks \ {"again"}, NEW b \in Books, Send(kind, b),
         UNCHANGED <<status, line>>, modal' = b, detail' = NoDetail \/ (kind # "detail" /\ UNCHANGED <<modal, detail>>)
  PROVE  OneTalk' /\ Shown'
<1>1. PICK q \in Requests : Sets(q, Call(kind, b)) /\ req[q].kind = "free"
  BY SentIs DEF Kinds, Talks
<1>2. \A r \in Requests : req[r].kind \notin Talks
  BY DEF Dialogue, InFlight, Typed, Talks
<1>3. req'[q].kind = kind /\ req'[q].book = b /\ \A r \in Requests \ {q} : req'[r] = req[r]
  BY <1>1, SetsIs DEF Call
<1>4. ~Answered(q)'
  BY <1>1 DEF Answered, InLine
<1>5. OneTalk'
  BY <1>2, <1>3, <1>4 DEF OneTalk
<1>6. Shown'
  <2>1. CASE detail' = NoDetail
    BY <2>1 DEF Shown, NoDetail
  <2>2. CASE UNCHANGED <<modal, detail>>
    BY <1>2, <2>2 DEF Shown, Talks
  <2> QED
    BY <2>1, <2>2
<1> QED
  BY <1>5, <1>6

(* One that ends it, or has it wait for the worker.                         *)
LEMMA TalkRendered ==
  ASSUME Typed, OneTalk, NEW q \in Requests, req[q].kind \in Talks, Answered(q) \/ req[q].kind = "again",
         Render(q), UNCHANGED <<status, modal>>, NEW x \in Calls, Sets(q, x),
         x.kind \notin Talks \/ (x.kind = "again" /\ x.book = req[q].book /\ x.body = req[q].body)
  PROVE  OneTalk' /\ Shown'
<1>1. req[q].book = modal /\ (req[q].body[modal] = "in" <=> status[modal] = "in")
  BY DEF OneTalk
<1>2. \A r \in Requests \ {q} : req'[r] = req[r] /\ req[r].kind \notin Talks
  BY SetsIs DEF OneTalk
<1>3. req'[q] = x
  BY SetsIs
<1>4. OneTalk'
  BY <1>1, <1>2, <1>3 DEF OneTalk
<1>5. detail'.book = modal /\ detail'.status = req[q].body[modal]
  BY <1>1 DEF Render
<1>6. Shown'
  BY <1>1, <1>5 DEF Shown
<1> QED
  BY <1>4, <1>6

(* One that answers it.                                                     *)
LEMMA TalkServed ==
  ASSUME Typed, InLine, OneTalk, Shown, NEW q \in Requests, Serve(q)
  PROVE  OneTalk' /\ Shown'
<1>1. /\ req' = [req EXCEPT ![q].body = status'] /\ UNCHANGED <<modal, detail>>
      /\ \A r \in Requests \ {q} : req'[r] = req[r]
      /\ req'[q].kind = req[q].kind /\ req'[q].book = req[q].book /\ req'[q].body = status'
  BY BodyTyped DEF Serve, page, Typed, Calls
<1>2. CASE req[q].kind \notin Talks
  <2>1. UNCHANGED status
    BY <1>1, <1>2 DEF Serve, CheckOut, TakeBack, Look, Talks
  <2>2. \A r \in Requests : req[r].kind \in Talks \/ req'[r].kind \in Talks =>
           req'[r] = req[r] /\ (Answered(r)' <=> Answered(r))
    BY <1>1, <1>2, AnsweredServe
  <2> QED
    BY <1>1, <2>1, <2>2, TalkSame
<1>3. CASE req[q].kind \in Talks
  <2>1. req[q].book = modal /\ \A r \in Requests \ {q} : req[r].kind \notin Talks
    BY <1>3 DEF OneTalk
  <2>2. OneTalk'
    BY <1>1, <1>3, <2>1 DEF OneTalk
  <2>3. CASE req[q].kind \in {"checkout", "return"}
    <3>1. Answered(q)'
      BY AnsweredServe
    <3>2. Shown'
      BY <1>1, <2>3, <3>1 DEF Shown
    <3> QED
      BY <2>2, <3>2
  <2>4. CASE req[q].kind \notin {"checkout", "return"}
    <3>1. UNCHANGED status
      BY <2>4 DEF Serve, CheckOut, TakeBack, Look
    <3>2. \A r \in Requests : req[r].kind \notin {"checkout", "return"}
      BY <2>1, <2>4 DEF Talks
    <3>3. Shown'
      BY <1>1, <3>1, <3>2 DEF Shown
    <3> QED
      BY <2>2, <3>3
  <2> QED
    BY <2>3, <2>4
<1> QED
  BY <1>2, <1>3

(* Nobody talks at first.                                                   *)
LEMMA TalkingInit == PageInit => Talking
<1> SUFFICES ASSUME PageInit PROVE Talking
  OBVIOUS
<1>1. \A q \in Requests : req[q].kind \notin Talks
  BY DEF PageInit, Free, Talks
<1>2. detail = NoDetail
  BY DEF PageInit
<1> QED
  BY <1>1, <1>2 DEF Talking, OneTalk, Shown

(* An answer of which nothing is rendered.                                  *)
LEMMA TalkPassed ==
  ASSUME Typed, InLine, OneTalk, Shown, NEW q \in Requests, req[q].kind \notin Talks, NEW kinds,
         NEW x \in Calls, x.kind \notin Talks, Arrives(q, kinds, x), UNCHANGED <<status, modal, detail>>
  PROVE  OneTalk' /\ Shown'
<1>1. Sets(q, x)
  BY ArrivesIs
<1>2. PICK i \in DOMAIN line : line[i] = q /\ Leaves(i)
  BY ArrivesIs
<1>3. req'[q].kind \notin Talks /\ \A r \in Requests \ {q} : req'[r] = req[r]
  BY <1>1, SetsIs
<1> QED
  BY <1>2, <1>3, AnsweredArrives, TalkSame

(* A request outside the dialogue is sent.                                  *)
LEMMA TalkBeside ==
  ASSUME Typed, OneTalk, Shown, NEW kind \in Kinds \ Talks, NEW b \in Books \cup {None}, Send(kind, b),
         b \in Books \/ kind = "list", UNCHANGED <<status, modal, detail, line>>
  PROVE  OneTalk' /\ Shown'
<1>1. PICK q \in Requests : Sets(q, Call(kind, b)) /\ req[q].kind = "free"
  BY SentIs
<1>2. \A r \in Requests \ {q} : req'[r] = req[r]
  BY <1>1, SetsIs
<1>3. req'[q].kind \notin Talks /\ req[q].kind \notin Talks
  BY <1>1, SetsIs DEF Call, Talks
<1>4. \A r \in Requests : Answered(r)' <=> Answered(r)
  BY DEF Answered
<1> QED
  BY <1>2, <1>3, <1>4, TalkSame

(* A user who waits for each answer sees how it stands with the book.       *)
LEMMA TalkingStep ==
  ASSUME Channels, Talking, [PageNext]_pageVars
  PROVE  Talking'
<1>0. Typed /\ Queries /\ InLine
  BY DEF Channels
<1> SUFFICES ASSUME waited', good' PROVE OneTalk' /\ Shown'
  BY DEF Talking
<1>a. ASSUME waited, good PROVE OneTalk /\ Shown
  BY <1>a DEF Talking
<1>1. ASSUME NEW b \in Books, Open(b) PROVE OneTalk' /\ Shown'
  <2>1. OneTalk /\ Shown /\ Dialogue = {}
    BY <1>1, <1>a DEF Open
  <2> QED
    BY <1>0, <1>1, <2>1, TalkStarts DEF Open, Talks
<1>2. ASSUME NEW b \in Books, Downloaded(b) PROVE OneTalk' /\ Shown'
  <2>1. OneTalk /\ Shown /\ UNCHANGED <<modal, detail, req, line>>
    BY <1>2, <1>a DEF Downloaded, page, hist
  <2>2. status'[modal] = "in" <=> status[modal] = "in"
    BY <1>0, <1>2 DEF Downloaded, Typed
  <2> QED
    BY <2>1, <2>2, TalkSame DEF Answered
<1>3. ASSUME (\E b \in Books : Take(b) \/ Fetching(b) \/ Fetched(b)) \/ Obey PROVE OneTalk' /\ Shown'
  <2>1. OneTalk /\ Shown /\ UNCHANGED <<status, modal, detail, req, line>>
    BY <1>3, <1>a DEF Take, Fetching, Fetched, Obey, page, hist
  <2> QED
    BY <2>1, TalkSame DEF Answered
<1>5. CASE MailArrives
  <2> DEFINE m == Head(mail)
  <2>1. OneTalk /\ Shown /\ UNCHANGED <<status, modal, line>>
    BY <1>5, <1>a DEF MailArrives, hist
  <2>2. CASE m.query = None
    <3>1. UNCHANGED <<detail, req>>
      BY <1>5, <2>2 DEF MailArrives
    <3> QED
      BY <2>1, <3>1, TalkSame DEF Answered
  <2>3. CASE m.query # None
    <3>0. req' = [req EXCEPT ![m.query] = Free]
      BY <1>5, <2>3 DEF MailArrives
    <3>1. m.query \in Requests /\ req[m.query].kind \in Waits
      BY <1>0, <1>5, <2>3, Tailed DEF MailArrives, Typed, Queries
    <3>2. Sets(m.query, Free) /\ Free \in Calls /\ Free.kind \notin Talks
      BY <3>0, <3>1, CallTyped DEF Sets, Free, Talks
    <3>3. CASE req[m.query].kind = "again"
      <4>1. Render(m.query) /\ req[m.query].kind \in Talks
        BY <1>5, <2>3, <3>3 DEF MailArrives, Talks
      <4> HIDE DEF m
      <4> QED
        BY <1>0, <2>1, <3>1, <3>2, <3>3, <4>1, TalkRendered
    <3>4. CASE req[m.query].kind = "copies"
      <4>1. UNCHANGED detail /\ req[m.query].kind \notin Talks
        BY <1>5, <3>4 DEF MailArrives, Talks
      <4>2. \A r \in Requests : r # m.query => req'[r] = req[r]
        BY <1>0, <3>2, SetsIs
      <4>3. req'[m.query] = Free
        BY <1>0, <3>2, SetsIs
      <4> HIDE DEF m
      <4> QED
        BY <2>1, <3>2, <4>1, <4>2, <4>3, TalkSame DEF Answered
    <3> QED
      BY <3>1, <3>3, <3>4 DEF Waits
  <2> QED
    BY <2>2, <2>3
<1>6. CASE RefreshDetail \/ ToggleRead
  <2>1. OneTalk /\ Shown /\ Dialogue = {} /\ modal \in Books
    BY <1>0, <1>6, <1>a DEF RefreshDetail, ToggleRead, Typed
  <2>2. PICK kind \in {"refresh", "read"} : Send(kind, modal)
    BY <1>6 DEF RefreshDetail, ToggleRead
  <2>3. UNCHANGED <<status, modal, detail, line>>
    BY <1>6 DEF RefreshDetail, ToggleRead, page
  <2> QED
    BY <1>0, <2>1, <2>2, <2>3, TalkStarts DEF Talks
<1>7. CASE ToggleCheckout
  <2>1. OneTalk /\ Shown /\ Dialogue = {} /\ modal \in Books
    BY <1>0, <1>7, <1>a DEF ToggleCheckout, Typed
  <2>2. Action \in Talks \ {"again"} /\ Action # "detail"
    BY DEF Action, Talks
  <2> QED
    BY <1>0, <1>7, <2>1, <2>2, TalkStarts DEF ToggleCheckout, page
<1>8. CASE ToggleDevice
  <2>1. detail.book \in Books /\ UNCHANGED <<status, modal, detail, line>>
    BY <1>0, <1>8 DEF ToggleDevice, Typed
  <2>2. OneTalk /\ Shown
    BY <1>8, <1>a DEF ToggleDevice, StartDevice, ClearDevice
  <2>3. CASE Send("manifest", detail.book)
    BY <1>0, <2>1, <2>2, <2>3, TalkBeside DEF Kinds, Talks
  <2>4. CASE UNCHANGED req
    BY <2>1, <2>2, <2>4, TalkSame DEF Answered
  <2> QED
    BY <1>8, <2>3, <2>4 DEF ToggleDevice, StartDevice, ClearDevice
<1>9. CASE Poll
  <2>1. OneTalk /\ Shown
    BY <1>9, <1>a DEF Poll, hist
  <2> QED
    BY <1>0, <1>9, <2>1, TalkBeside DEF Poll, Kinds, Talks, page
<1>10. ASSUME NEW q \in Requests, Serve(q) PROVE OneTalk' /\ Shown'
  <2>1. OneTalk /\ Shown
    BY <1>10, <1>a DEF Serve, hist
  <2> QED
    BY <1>0, <1>10, <2>1, TalkServed
<1>11. ASSUME NEW q \in Requests, DetailArrives(q) PROVE OneTalk' /\ Shown'
  <2> DEFINE x == IF req[q].body[req[q].book] # "in" THEN [req[q] EXCEPT !.kind = "again"] ELSE Free
  <2>1. x \in Calls /\ (x.kind \in Talks => x.kind = "again" /\ x.book = req[q].book /\ x.body = req[q].body)
    <3>1. "again" \in Waits
      BY DEF Waits
    <3> QED
      BY <1>0, <3>1, WaitIs, CallTyped DEF Free, Talks
  <2>2. Arrives(q, {"detail"}, x)
    BY <1>11 DEF DetailArrives
  <2> HIDE DEF x
  <2>3. Sets(q, x) /\ req[q].kind \in Talks /\ Answered(q)
    BY <1>0, <2>1, <2>2, ArrivesIs DEF Talks
  <2>4. OneTalk /\ Shown /\ UNCHANGED <<status, modal>> /\ Render(q)
    BY <1>11, <1>a DEF DetailArrives, hist
  <2> QED
    BY <1>0, <2>1, <2>3, <2>4, TalkRendered
<1>12. ASSUME NEW q \in Requests, Refreshed(q) \/ MarkArrives(q) \/ CheckoutArrives(q) \/ ReturnArrives(q) PROVE OneTalk' /\ Shown'
  <2>1. OneTalk /\ Shown /\ UNCHANGED <<status, modal>> /\ Render(q)
    BY <1>12, <1>a DEF Refreshed, MarkArrives, CheckoutArrives, ReturnArrives, hist
  <2>2. PICK x \in {Free, Call("list", None)} : Arrives(q, Talks, x)
    BY <1>12 DEF Refreshed, MarkArrives, CheckoutArrives, ReturnArrives, Arrives, Talks
  <2>3. x \in Calls /\ x.kind \notin Talks
    BY CallTyped DEF Free, Call, Talks
  <2>4. Sets(q, x) /\ req[q].kind \in Talks /\ Answered(q)
    BY <1>0, <2>2, <2>3, ArrivesIs
  <2> QED
    BY <1>0, <2>1, <2>3, <2>4, TalkRendered
<1>13. ASSUME NEW q \in Requests, ListArrives(q) \/ ManifestArrives(q) PROVE OneTalk' /\ Shown'
  <2>1. OneTalk /\ Shown /\ UNCHANGED <<status, modal, detail>>
    BY <1>13, <1>a DEF ListArrives, ManifestArrives, hist
  <2>2. PICK x \in Calls : Arrives(q, {"list", "manifest"}, x) /\ x.kind \notin Talks
    <3>1. CASE ListArrives(q)
      BY <1>0, <3>1, ListThen DEF Arrives, Talks
    <3>2. CASE ManifestArrives(q)
      BY <3>2, CallTyped DEF ManifestArrives, Arrives, Free, Talks
    <3> QED
      BY <1>13, <3>1, <3>2
  <2> QED
    BY <1>0, <2>1, <2>2, TalkPassed DEF Arrives, Talks
<1>14. ASSUME NEW q \in Requests, ErrorArrives(q) PROVE OneTalk' /\ Shown'
  BY <1>14 DEF ErrorArrives
<1>15. CASE UNCHANGED pageVars
  <2>1. OneTalk /\ Shown /\ UNCHANGED <<status, modal, detail, req, line>>
    BY <1>15, <1>a DEF pageVars, page, hist
  <2> QED
    BY <2>1, TalkSame DEF Answered
<1> QED
  BY <1>1, <1>2, <1>3, <1>5, <1>6, <1>7, <1>8, <1>9, <1>10, <1>11, <1>12, <1>13, <1>14, <1>15
     DEF PageNext, Answer

(* The type invariant of the model.                                         *)
LEMMA TypedIsOK == Typed /\ InLine => PageTypeOK
<1> SUFFICES ASSUME Typed, InLine PROVE PageTypeOK
  OBVIOUS
<1>1. \A i \in DOMAIN line : req[line[i]] # Free
  BY DEF InLine, Free
<1> QED
  BY <1>1 DEF Typed, PageTypeOK

(* The button of the modal does what it says, to the book that is shown     *)
(* (openBookDetail, toggleCheckoutStatus), for any number of books and of   *)
(* requests, in whichever order the answers come.                           *)
THEOREM ButtonTellsAlways == PageSpec => []ButtonTells
<1>1. Channels /\ Talking => ButtonTells
  <2> SUFFICES ASSUME Channels, Talking PROVE ButtonTells
    OBVIOUS
  <2>1. PageTypeOK
    BY TypedIsOK DEF Channels
  <2>2. ASSUME waited, good, Dialogue = {}, detail # NoDetail
        PROVE  detail.book = modal /\ (detail.status = "in" <=> status[modal] = "in")
    <3>1. \A q \in Requests : req[q].kind \notin {"checkout", "return"}
      BY <2>2 DEF Dialogue, InFlight, Channels, Typed, Talks
    <3> QED
      BY <2>2, <3>1 DEF Talking, Shown
  <2> QED
    BY <2>1, <2>2 DEF ButtonTells
<1>2. PageSpec => []Talking
  <2>1. Channels /\ Channels' /\ Talking /\ [PageNext]_pageVars => Talking'
    BY TalkingStep
  <2> QED
    BY <2>1, TalkingInit, AlwaysChannels, PTL DEF PageSpec
<1> QED
  BY <1>1, <1>2, AlwaysChannels, PTL

-----------------------------------------------------------------------------
(* The copies on the device                                                 *)

(* What is told comes last.                                                 *)
LEMMA ToldIs ==
  ASSUME Typed, NEW kind, NEW books, NEW q, Order(kind, books, q), Tell(kind, books, q)
  PROVE  \E n \in Nat :
           /\ n \in DOMAIN orders' /\ orders'[n].kind = kind /\ orders'[n].books = books
           /\ \A i \in DOMAIN orders : i \in Nat /\ i < n /\ i \in DOMAIN orders' /\ orders'[i] = orders[i]
           /\ \A i \in DOMAIN orders' : i # n => i \in DOMAIN orders
<1> DEFINE e == [kind |-> kind, books |-> books, query |-> q]
<1>1. e \in Orders /\ e.kind = kind /\ e.books = books
  BY OrderTyped
<1>2. /\ Len(orders) \in Nat /\ DOMAIN orders = 1..Len(orders) /\ DOMAIN orders' = 1..(Len(orders) + 1)
      /\ \A i \in 1..Len(orders) : orders'[i] = orders[i]
      /\ orders'[Len(orders) + 1] = e
  BY <1>1, Appended DEF Tell, Typed
<1> HIDE DEF e
<1> WITNESS Len(orders) + 1 \in Nat
<1> QED
  BY <1>1, <1>2

(* What is reported is about the books, and takes nothing away.             *)
LEMMA ReportedIs ==
  ASSUME Typed, NEW books \in SUBSET Books, NEW there \in SUBSET Books, NEW q \in Requests \cup {None},
         there \subseteq books, Report(books, there, q)
  PROVE  /\ \A b \in books : About(mail, b)' # {}
         /\ \A c \in Books : About(mail, c)' = {} => About(mail, c) = {}
<1> DEFINE e == [books |-> books, there |-> there, query |-> q]
<1>1. e \in Mails /\ e.books = books
  BY DEF Mails
<1>2. /\ Len(mail) \in Nat /\ DOMAIN mail = 1..Len(mail) /\ DOMAIN mail' = 1..(Len(mail) + 1)
      /\ \A i \in 1..Len(mail) : mail'[i] = mail[i]
      /\ mail'[Len(mail) + 1] = e
  BY <1>1, Appended DEF Report, Typed
<1>3. Len(mail) + 1 \in DOMAIN mail' /\ \A i \in DOMAIN mail : i \in DOMAIN mail' /\ mail'[i] = mail[i]
  BY <1>2
<1> HIDE DEF e
<1> QED
  BY <1>1, <1>2, <1>3 DEF About

(* Told to clear a book, the worker will; the rest is as it was.            *)
LEMMA WillTold ==
  ASSUME Typed, NEW kind, NEW books, NEW q, Order(kind, books, q), Tell(kind, books, q),
         UNCHANGED <<device, loop, spared>>
  PROVE  /\ kind = "clear" => \A b \in books : ~Will(b)'
         /\ \A c \in Books : c \notin books \/ kind = "query" => (Will(c)' <=> Will(c))
         /\ \A b \in books : About(orders, b)' # {}
         /\ \A c \in Books : About(orders, c)' = {} => About(orders, c) = {}
<1>1. PICK n \in Nat :
           /\ n \in DOMAIN orders' /\ orders'[n].kind = kind /\ orders'[n].books = books
           /\ \A i \in DOMAIN orders : i \in Nat /\ i < n /\ i \in DOMAIN orders' /\ orders'[i] = orders[i]
           /\ \A i \in DOMAIN orders' : i # n => i \in DOMAIN orders
  BY ToldIs
<1>2. ASSUME kind = "clear", NEW b \in books PROVE ~Will(b)'
  <2>1. n \in Effective(b)'
    BY <1>1, <1>2 DEF Effective
  <2>2. \A i \in Effective(b)' : n <= i => i = n
    BY <1>1 DEF Effective
  <2> QED
    BY <1>1, <1>2, <2>1, <2>2 DEF Will
<1>3. ASSUME NEW c \in Books, c \notin books \/ kind = "query" PROVE Will(c)' <=> Will(c)
  <2>1. Effective(c)' = Effective(c) /\ \A i \in Effective(c) : orders'[i] = orders[i]
    BY <1>1, <1>3 DEF Effective
  <2>2. Held' = Held
    BY DEF Held, loop
  <2> QED
    BY <2>1, <2>2 DEF Will
<1>4. (\A b \in books : About(orders, b)' # {}) /\ \A c \in Books : About(orders, c)' = {} => About(orders, c) = {}
  BY <1>1 DEF About
<1> QED
  BY <1>2, <1>3, <1>4

(* Obeying fulfils it.                                                      *)
LEMMA WillObeyed ==
  ASSUME Typed, Obey, NEW c \in Books
  PROVE  Will(c)' <=> Will(c)
<1>1. /\ Len(orders) \in Nat /\ DOMAIN orders = 1..Len(orders) /\ 1 \in DOMAIN orders /\ orders[1] \in Orders
      /\ DOMAIN orders' = 1..(Len(orders) - 1)
      /\ \A i \in 1..(Len(orders) - 1) : orders'[i] = orders[i + 1]
      /\ Head(orders) = orders[1]
  BY Tailed DEF Obey, Typed
<1>2. /\ \A i \in DOMAIN orders' : i + 1 \in DOMAIN orders /\ orders'[i] = orders[i + 1] /\ i \in Nat /\ i # 0
      /\ \A i \in DOMAIN orders : i \in Nat /\ (i # 1 => i - 1 \in DOMAIN orders' /\ orders'[i - 1] = orders[i] /\ i > 1)
  BY <1>1
<1>3. /\ \A i \in Effective(c)' : i \in Nat /\ i # 0 /\ i + 1 \in Effective(c) /\ orders'[i] = orders[i + 1]
      /\ \A i \in Effective(c) : i \in Nat /\ (i # 1 => i - 1 \in Effective(c)' /\ orders'[i - 1] = orders[i] /\ i > 1)
  BY <1>2 DEF Effective
<1>4. /\ 1 \notin Effective(c) => (c \in Held' <=> c \in Held)
      /\ 1 \in Effective(c) => (c \in Held' <=> orders[1].kind = "cache")
  <2>0. PICK o \in Orders :
          /\ o = orders[1]
          /\ \/ o.kind = "cache" /\ \E b \in Books : o.books = {b} /\ o.query = None /\ ObeyCache(b)
             \/ o.kind = "clear" /\ \E b \in Books : o.books = {b} /\ o.query = None /\ ObeyClear(b)
             \/ o.kind = "query" /\ o.query \in Requests /\ ObeyQuery(o.books, o.query)
    BY Obeys
  <2>1. 1 \in Effective(c) <=> c \in o.books /\ o.kind # "query"
    BY <1>1, <2>0 DEF Effective
  <2>2. ASSUME NEW b \in Books, o.books = {b}, o.kind = "cache", ObeyCache(b)
      PROVE /\ 1 \notin Effective(c) => (c \in Held' <=> c \in Held)
            /\ 1 \in Effective(c) => (c \in Held' <=> orders[1].kind = "cache")
    BY <2>0, <2>1, <2>2 DEF ObeyCache, Held
  <2>3. ASSUME NEW b \in Books, o.books = {b}, o.kind = "clear", ObeyClear(b)
      PROVE /\ 1 \notin Effective(c) => (c \in Held' <=> c \in Held)
            /\ 1 \in Effective(c) => (c \in Held' <=> orders[1].kind = "cache")
    BY <2>0, <2>1, <2>3 DEF ObeyClear, Held
  <2>4. ASSUME o.kind = "query", ObeyQuery(o.books, o.query)
      PROVE /\ 1 \notin Effective(c) => (c \in Held' <=> c \in Held)
            /\ 1 \in Effective(c) => (c \in Held' <=> orders[1].kind = "cache")
    BY <2>0, <2>1, <2>4 DEF ObeyQuery, Held, loop
  <2> QED
    BY <2>0, <2>2, <2>3, <2>4
<1>5. CASE Effective(c)' = {}
  <2>1. \A i \in Effective(c) : i = 1
    BY <1>3, <1>5
  <2> QED
    BY <1>4, <1>5, <2>1 DEF Will
<1>6. CASE Effective(c)' # {}
  <2>0. PICK k \in Effective(c)' : TRUE
    BY <1>6
  <2>1. k + 1 \in Effective(c) /\ k + 1 > 1
    BY <1>3
  <2>2. ASSUME Will(c) PROVE Will(c)'
    <3>1. PICK i \in Effective(c) : orders[i].kind = "cache" /\ \A j \in Effective(c) : j <= i
      BY <2>1, <2>2 DEF Will
    <3>2. i # 1 /\ i \in Nat
      BY <1>3, <2>1, <3>1
    <3>3. i - 1 \in Effective(c)' /\ orders'[i - 1].kind = "cache"
      BY <1>3, <3>1, <3>2
    <3>4. \A j \in Effective(c)' : j <= i - 1
      BY <1>3, <3>1, <3>2
    <3> QED
      BY <3>3, <3>4 DEF Will
  <2>3. ASSUME Will(c)' PROVE Will(c)
    <3>1. PICK i \in Effective(c)' : orders'[i].kind = "cache" /\ \A j \in Effective(c)' : j <= i
      BY <1>6, <2>3 DEF Will
    <3>2. i \in Nat /\ i + 1 \in Effective(c) /\ orders[i + 1].kind = "cache"
      BY <1>3, <3>1
    <3>3. ASSUME NEW j \in Effective(c) PROVE j <= i + 1
      <4>1. CASE j = 1
        BY <3>2, <4>1
      <4>2. CASE j # 1
        <5>1. j \in Nat /\ j - 1 \in Effective(c)'
          BY <1>3, <4>2
        <5>2. j - 1 <= i
          BY <3>1, <5>1
        <5> QED
          BY <3>2, <5>1, <5>2
      <4> QED
        BY <4>1, <4>2
    <3> QED
      BY <3>2, <3>3 DEF Will
  <2> QED
    BY <2>2, <2>3
<1> QED
  BY <1>5, <1>6

(* An order that is obeyed was about its books only.                        *)
LEMMA AboutObeyed ==
  ASSUME Typed, Obey, NEW c \in Books, c \notin Head(orders).books, About(orders, c)' = {}
  PROVE  About(orders, c) = {}
<1>1. /\ Len(orders) \in Nat /\ DOMAIN orders = 1..Len(orders)
      /\ DOMAIN orders' = 1..(Len(orders) - 1)
      /\ \A i \in 1..(Len(orders) - 1) : orders'[i] = orders[i + 1]
      /\ Head(orders) = orders[1]
  BY Tailed DEF Obey, Typed
<1>2. \A i \in DOMAIN orders : i # 1 => i - 1 \in DOMAIN orders' /\ orders'[i - 1] = orders[i]
  BY <1>1
<1> QED
  BY <1>1, <1>2 DEF About

(* Once the last mail about a book is read, the page has the book as the    *)
(* worker has it, unless that is fetching it.                               *)
LEMMA AboutRead ==
  ASSUME Typed, Mailed, MailArrives, NEW c \in Books, About(mail, c)' = {}, c # activeBookId
  PROVE  \/ c \notin Head(mail).books /\ About(mail, c) = {}
         \/ c \in Head(mail).books /\ (c \in Head(mail).there <=> c \in device)
<1>1. /\ Len(mail) \in Nat /\ DOMAIN mail = 1..Len(mail) /\ 1 \in DOMAIN mail
      /\ DOMAIN mail' = 1..(Len(mail) - 1)
      /\ \A i \in 1..(Len(mail) - 1) : mail'[i] = mail[i + 1]
      /\ Head(mail) = mail[1]
  BY Tailed DEF MailArrives, Typed
<1>2. \A i \in DOMAIN mail : i # 1 => i - 1 \in DOMAIN mail' /\ mail'[i - 1] = mail[i]
  BY <1>1
<1>3. \A i \in About(mail, c) : i = 1
  BY <1>2 DEF About
<1>4. CASE c \in Head(mail).books
  <2>1. 1 \in About(mail, c) /\ \A j \in About(mail, c) : j <= 1
    BY <1>1, <1>3, <1>4 DEF About
  <2> QED
    BY <1>1, <1>4, <2>1 DEF Mailed
<1>5. CASE c \notin Head(mail).books
  BY <1>1, <1>3, <1>5 DEF About
<1> QED
  BY <1>4, <1>5

(* The places of the returns of b that the page has not learnt of.          *)
Returning(b) == {i \in DOMAIN line : req[line[i]].kind = "return" /\ req[line[i]].book = b}

(* A book has one manifest on its way, and is not refused.                  *)
OneManifest ==
  \A q \in Requests : req[q].kind = "manifest" =>
    /\ req[q].book \notin refused
    /\ \A r \in Requests : req[r].kind = "manifest" /\ req[r].book = req[q].book => r = q

(* A book that will be kept is not refused; it is out, or the page will     *)
(* learn of its return.                                                     *)
Out == \A b \in Books : Will(b) => b \notin refused /\ (status[b] # "in" \/ Returning(b) # {})

(* A manifest that lets a copy be made is of a book that is out, or comes   *)
(* before a return; one that does not finds no copy, or comes after one.    *)
Manifesting ==
  \A i \in DOMAIN line : req[line[i]].kind = "manifest" =>
    LET b == req[line[i]].book IN
    /\ req[line[i]].body[b] # "in" => status[b] # "in" \/ \E j \in Returning(b) : j > i
    /\ req[line[i]].body[b] = "in" => ~Will(b) \/ \E j \in Returning(b) : j < i

(* With nothing under way the page knows of the copy, unless it is spared.  *)
Kept ==
  \A b \in Books \ spared :
    About(orders, b) = {} /\ About(mail, b) = {} /\ InFlight({"manifest"}, {b}) = {} /\ b # activeBookId =>
      (b \in kept <=> b \in device)

(* All that of a user who waits, while no request fails and answers come in *)
(* the order the server gave them.                                          *)
Copies == OneManifest /\ Out /\ Manifesting /\ Kept
Copying == waited /\ good /\ Ordered => Copies

(* The line and its requests stay.                                          *)
Stays == UNCHANGED line /\ \A r \in Requests : req[r].kind \notin Waits \cup {"free"} => req'[r] = req[r]

(* So do the places of the returns.                                         *)
LEMMA StaysIs ==
  ASSUME Typed, InLine, Stays
  PROVE  /\ DOMAIN line' = DOMAIN line
         /\ \A i \in DOMAIN line : line[i] \in Requests /\ req'[line'[i]] = req[line[i]]
         /\ \A b \in Books : Returning(b)' = Returning(b)
<1>1. \A i \in DOMAIN line : line[i] \in Requests /\ req'[line'[i]] = req[line[i]]
  BY ElementOfSeq, LenProperties DEF Typed, InLine, Stays
<1> QED
  BY <1>1 DEF Returning, Stays

(* Then what will be kept stays out, and manifests stay as they are.        *)
LEMMA OutStays ==
  ASSUME Typed, InLine, Stays, Out, Manifesting,
         \A b \in Books :
           /\ Will(b)' => Will(b) /\ (b \in refused' => b \in refused)
           /\ status'[b] = "in" => status[b] = "in"
  PROVE  Out' /\ Manifesting'
<1>1. Out'
  BY StaysIs DEF Out
<1>2. ASSUME NEW i \in DOMAIN line', req'[line'[i]].kind = "manifest", NEW b, b = req'[line'[i]].book
      PROVE  /\ req'[line'[i]].body[b] # "in" => status'[b] # "in" \/ \E j \in Returning(b)' : j > i
             /\ req'[line'[i]].body[b] = "in" => ~Will(b)' \/ \E j \in Returning(b)' : j < i
  <2>1. i \in DOMAIN line /\ req'[line'[i]] = req[line[i]] /\ line[i] \in Requests
    BY StaysIs
  <2>2. b \in Books /\ Returning(b)' = Returning(b)
    BY <1>2, <2>1, StaysIs DEF Typed
  <2> QED
    BY <1>2, <2>1, <2>2 DEF Manifesting
<1> QED
  BY <1>1, <1>2 DEF Manifesting

(* The first in the line leaves it.                                         *)
Leads(q) ==
  /\ 1 \in DOMAIN line /\ line[1] = q /\ Leaves(1)
  /\ \A r \in Requests \ {q} : req'[r] = req[r]

(* All others move up.                                                      *)
LEMMA LeadsIs ==
  ASSUME Typed, InLine, NEW q \in Requests, Leads(q)
  PROVE  /\ \A i \in DOMAIN line' : /\ i \in Nat /\ i # 0 /\ i + 1 \in DOMAIN line /\ line[i + 1] \in Requests \ {q}
                                    /\ req'[line'[i]] = req[line[i + 1]]
         /\ \A b \in Books : \A j \in Returning(b) :
              /\ j \in Nat
              /\ j = 1 => req[q].kind = "return" /\ req[q].book = b
              /\ j # 1 => j > 1 /\ j - 1 \in Returning(b)'
<1>1. /\ Len(line) \in Nat /\ DOMAIN line = 1..Len(line)
      /\ DOMAIN line' = 1..(Len(line) - 1)
      /\ \A k \in 1..(Len(line) - 1) : line'[k] = IF k < 1 THEN line[k] ELSE line[k + 1]
  BY LineLeft DEF Typed, Leads
<1>2. \A k \in DOMAIN line : line[k] \in Requests /\ (k # 1 => line[k] # q)
  BY ElementOfSeq, LenProperties DEF Typed, InLine, Leads
<1>3. \A i \in DOMAIN line' : /\ i \in Nat /\ i # 0 /\ i + 1 \in DOMAIN line /\ line[i + 1] \in Requests \ {q}
                              /\ line'[i] = line[i + 1]
  BY <1>1, <1>2
<1>4. \A i \in DOMAIN line' : req'[line'[i]] = req[line[i + 1]]
  BY <1>3 DEF Leads
<1>5. ASSUME NEW b \in Books, NEW j \in Returning(b)
      PROVE /\ j \in Nat
            /\ j = 1 => req[q].kind = "return" /\ req[q].book = b
            /\ j # 1 => j > 1 /\ j - 1 \in Returning(b)'
  <2>1. j \in 1..Len(line) /\ req[line[j]].kind = "return" /\ req[line[j]].book = b
    BY <1>1 DEF Returning
  <2>2. ASSUME j # 1 PROVE j - 1 \in Returning(b)'
    <3>1. j - 1 \in DOMAIN line' /\ (j - 1) + 1 = j
      BY <1>1, <2>1, <2>2
    <3>2. req'[line'[j - 1]] = req[line[j]]
      BY <1>4, <3>1
    <3> QED
      BY <2>1, <3>1, <3>2 DEF Returning
  <2> QED
    BY <1>1, <2>1, <2>2 DEF Leads
<1> QED
  BY <1>3, <1>4, <1>5

(* What will be kept stays out when the first leaves: if that is a return   *)
(* the copy goes, if a manifest the copy comes, of a book that is out or    *)
(* whose return follows.                                                    *)
LEMMA OutLeft ==
  ASSUME Typed, InLine, NEW q \in Requests, Leads(q), OneManifest, Out, Manifesting, UNCHANGED status,
         refused' \subseteq refused,
         \A b \in Books : req[q].kind = "return" /\ req[q].book = b => ~Will(b)',
         \A b \in Books : Will(b)' =>
           Will(b) \/ (req[q].kind = "manifest" /\ req[q].book = b /\ req[q].body[b] # "in")
  PROVE  Out' /\ Manifesting'
<1>1. ASSUME NEW b \in Books, Will(b)' PROVE b \notin refused' /\ (status'[b] # "in" \/ Returning(b)' # {})
  <2>1. ~(req[q].kind = "return" /\ req[q].book = b)
    BY <1>1
  <2>2. CASE Will(b)
    <3>1. b \notin refused /\ (status[b] # "in" \/ Returning(b) # {})
      BY <2>2 DEF Out
    <3> QED
      BY <2>1, <3>1, LeadsIs
  <2>3. CASE req[q].kind = "manifest" /\ req[q].book = b /\ req[q].body[b] # "in"
    <3>1. b \notin refused
      BY <2>3 DEF OneManifest
    <3>2. status[b] # "in" \/ \E j \in Returning(b) : j > 1
      BY <2>3 DEF Manifesting, Leads
    <3> QED
      BY <3>1, <3>2, LeadsIs
  <2> QED
    BY <1>1, <2>2, <2>3
<1>2. ASSUME NEW i \in DOMAIN line', req'[line'[i]].kind = "manifest", NEW b, b = req'[line'[i]].book
      PROVE  /\ req'[line'[i]].body[b] # "in" => status'[b] # "in" \/ \E j \in Returning(b)' : j > i
             /\ req'[line'[i]].body[b] = "in" => ~Will(b)' \/ \E j \in Returning(b)' : j < i
  <2>1. /\ i \in Nat /\ i # 0 /\ i + 1 \in DOMAIN line /\ line[i + 1] \in Requests \ {q}
        /\ req'[line'[i]] = req[line[i + 1]]
    BY LeadsIs
  <2>2. b \in Books
    BY <1>2, <2>1 DEF Typed
  <2>3. ~(req[q].kind = "manifest" /\ req[q].book = b)
    BY <1>2, <2>1 DEF OneManifest
  <2>4. ASSUME req[line[i + 1]].body[b] # "in" PROVE status'[b] # "in" \/ \E j \in Returning(b)' : j > i
    <3>1. status[b] # "in" \/ \E j \in Returning(b) : j > i + 1
      BY <1>2, <2>1, <2>4 DEF Manifesting
    <3>2. ASSUME NEW j \in Returning(b), j > i + 1 PROVE \E k \in Returning(b)' : k > i
      <4>1. j \in Nat /\ j # 1
        BY <2>1, <2>2, <3>2, LeadsIs
      <4>2. j - 1 \in Returning(b)' /\ j - 1 > i
        BY <2>1, <2>2, <3>2, <4>1, LeadsIs
      <4> QED
        BY <4>2
    <3> QED
      BY <3>1, <3>2
  <2>5. ASSUME req[line[i + 1]].body[b] = "in" PROVE ~Will(b)' \/ \E j \in Returning(b)' : j < i
    <3>1. ~Will(b) \/ \E j \in Returning(b) : j < i + 1
      BY <1>2, <2>1, <2>5 DEF Manifesting
    <3>2. ASSUME NEW j \in Returning(b), j < i + 1 PROVE ~Will(b)' \/ \E k \in Returning(b)' : k < i
      <4>1. CASE j = 1
        BY <2>2, <4>1, LeadsIs
      <4>2. CASE j # 1
        <5>1. j \in Nat /\ j - 1 \in Returning(b)' /\ j - 1 < i
          BY <2>1, <2>2, <3>2, <4>2, LeadsIs
        <5> QED
          BY <5>1
      <4> QED
        BY <4>1, <4>2
    <3>3. ASSUME ~Will(b) PROVE ~Will(b)'
      BY <2>2, <2>3, <3>3
    <3> QED
      BY <3>1, <3>2, <3>3
  <2> QED
    BY <2>1, <2>4, <2>5
<1> QED
  BY <1>1, <1>2 DEF Out, Manifesting

(* One more is answered.                                                    *)
LEMMA ServedIs ==
  ASSUME Typed, InLine, NEW q \in Requests, Serve(q)
  PROVE  \E n \in Nat :
           /\ n \in DOMAIN line' /\ line'[n] = q
           /\ \A i \in DOMAIN line : i \in Nat /\ i < n
           /\ \A i \in DOMAIN line' : i = n \/ (i \in DOMAIN line /\ line[i] \in Requests /\ req'[line'[i]] = req[line[i]])
           /\ \A b \in Books : \A j \in Returning(b) : j \in Nat /\ j < n /\ j \in Returning(b)'
           /\ \A b \in Books : req[q].kind = "return" /\ req[q].book = b => n \in Returning(b)'
<1>1. /\ Len(line) \in Nat /\ DOMAIN line = 1..Len(line) /\ DOMAIN line' = 1..(Len(line) + 1)
      /\ \A i \in 1..Len(line) : line'[i] = line[i]
      /\ line'[Len(line) + 1] = q
  BY Appended DEF Serve, Typed
<1>2. /\ \A r \in Requests \ {q} : req'[r] = req[r]
      /\ req'[q].kind = req[q].kind /\ req'[q].book = req[q].book
  BY BodyTyped DEF Serve, Typed, Calls
<1>3. \A k \in DOMAIN line : line[k] \in Requests \ {q}
  BY ElementOfSeq, LenProperties DEF Typed, Serve, Answered
<1>4. \A i \in DOMAIN line : i \in DOMAIN line' /\ req'[line'[i]] = req[line[i]]
  BY <1>1, <1>2, <1>3
<1> WITNESS Len(line) + 1 \in Nat
<1> QED
  BY <1>1, <1>2, <1>3, <1>4 DEF Returning

(* A manifest is answered while the book is out, or after a return of it    *)
(* that the page will learn of first.                                       *)
LEMMA OutServed ==
  ASSUME Typed, InLine, NEW q \in Requests, Serve(q), Out, Manifesting
  PROVE  Out' /\ Manifesting'
<1>1. PICK n \in Nat :
           /\ n \in DOMAIN line' /\ line'[n] = q
           /\ \A i \in DOMAIN line : i \in Nat /\ i < n
           /\ \A i \in DOMAIN line' : i = n \/ (i \in DOMAIN line /\ line[i] \in Requests /\ req'[line'[i]] = req[line[i]])
           /\ \A b \in Books : \A j \in Returning(b) : j \in Nat /\ j < n /\ j \in Returning(b)'
           /\ \A b \in Books : req[q].kind = "return" /\ req[q].book = b => n \in Returning(b)'
  BY ServedIs
<1>2. \A b \in Books : Will(b)' <=> Will(b)
  BY DEF Serve, worker, hist, loop, Will, Effective, Held
<1>3. \A b \in Books : status'[b] = "in" => status[b] = "in" \/ (req[q].kind = "return" /\ req[q].book = b)
  BY DEF Serve, Look, CheckOut, TakeBack, Typed
<1>4. Out'
  BY <1>1, <1>2, <1>3 DEF Out, Serve, page
<1>5. req'[q].kind = req[q].kind /\ req'[q].book = req[q].book /\ req'[q].body = status'
  BY BodyTyped DEF Serve, Typed, Calls
<1>6. ASSUME NEW i \in DOMAIN line', req'[line'[i]].kind = "manifest", NEW b, b = req'[line'[i]].book
      PROVE  /\ req'[line'[i]].body[b] # "in" => status'[b] # "in" \/ \E j \in Returning(b)' : j > i
             /\ req'[line'[i]].body[b] = "in" => ~Will(b)' \/ \E j \in Returning(b)' : j < i
  <2>1. CASE i = n
    <3>1. b \in Books /\ req'[line'[i]].body = status' /\ req[q].kind = "manifest"
      BY <1>1, <1>5, <1>6, <2>1 DEF Typed
    <3>2. UNCHANGED status
      BY <3>1 DEF Serve, CheckOut, TakeBack, Look
    <3> QED
      BY <1>1, <1>2, <2>1, <3>1, <3>2 DEF Out
  <2>2. CASE i \in DOMAIN line /\ line[i] \in Requests /\ req'[line'[i]] = req[line[i]]
    <3>1. b \in Books
      BY <1>6, <2>2 DEF Typed
    <3>2. /\ req[line[i]].body[b] # "in" => status[b] # "in" \/ \E j \in Returning(b) : j > i
          /\ req[line[i]].body[b] = "in" => ~Will(b) \/ \E j \in Returning(b) : j < i
      BY <1>6, <2>2 DEF Manifesting
    <3> QED
      BY <1>1, <1>2, <1>3, <2>2, <3>1, <3>2
  <2> QED
    BY <1>1, <2>1, <2>2
<1> QED
  BY <1>4, <1>6 DEF Manifesting

(* There is no copy at first.                                               *)
LEMMA CopyingInit == PageInit => Copying
<1> SUFFICES ASSUME PageInit PROVE Copies
  BY DEF Copying
<1>1. /\ DOMAIN orders = {} /\ DOMAIN line = {} /\ device = {} /\ kept = {}
      /\ \A q \in Requests : req[q].kind = "free"
  BY DEF PageInit, Free
<1> QED
  BY <1>1, PageAssumption DEF Copies, OneManifest, Out, Manifesting, Kept, Will, Effective, Held, PageInit

(* The manifests that are awaited stay.                                     *)
LEMMA ManifestsSame ==
  ASSUME OneManifest, UNCHANGED refused,
         \A r \in Requests : req'[r].kind = "manifest" => req[r].kind = "manifest" /\ req'[r].book = req[r].book
  PROVE  OneManifest'
BY DEF OneManifest

(* The page knows of the copies, or a message or a manifest is under way.   *)
LEMMA KeptSame ==
  ASSUME Kept,
         \A b \in Books :
           \/ About(orders, b)' # {} \/ About(mail, b)' # {} \/ InFlight({"manifest"}, {b})' # {}
           \/ /\ b \in spared => b \in spared'
              /\ b = activeBookId => b = activeBookId'
              /\ About(orders, b)' = {} => About(orders, b) = {}
              /\ About(mail, b)' = {} => About(mail, b) = {}
              /\ InFlight({"manifest"}, {b})' = {} => InFlight({"manifest"}, {b}) = {}
              /\ (b \in kept' <=> b \in kept) /\ (b \in device' <=> b \in device)
  PROVE  Kept'
BY DEF Kept

(* A request that is no manifest is sent.                                   *)
LEMMA CopiesBeside ==
  ASSUME Typed, InLine, Copies, NEW kind \in Kinds \ {"manifest"}, NEW b \in Books \cup {None}, Send(kind, b),
         b \in Books \/ kind = "list", UNCHANGED <<status, kept, refused, worker, line, spared>>
  PROVE  Copies'
<1>1. PICK q \in Requests : Sets(q, Call(kind, b)) /\ req[q].kind = "free"
  BY SentIs
<1>2. req'[q].kind # "manifest" /\ \A r \in Requests \ {q} : req'[r] = req[r]
  BY <1>1, SetsIs DEF Call
<1>3. Stays
  BY <1>1, <1>2 DEF Stays
<1>4. \A c \in Books : Will(c)' <=> Will(c)
  BY DEF Will, Effective, Held, worker, loop
<1>5. Out' /\ Manifesting'
  BY <1>3, <1>4, OutStays DEF Copies
<1>6. OneManifest'
  BY <1>2, ManifestsSame DEF Copies
<1>7. Kept'
  <2>1. \A c \in Books : InFlight({"manifest"}, {c})' = InFlight({"manifest"}, {c})
    BY <1>1, <1>2 DEF InFlight
  <2> QED
    BY <2>1, KeptSame DEF Copies, worker, loop, About
<1> QED
  BY <1>5, <1>6, <1>7 DEF Copies

(* In order, it is the first that comes in.                                 *)
LEMMA LeadsArrives ==
  ASSUME Typed, Ordered, NEW q \in Requests, NEW kinds, NEW then \in Calls, Arrives(q, kinds, then)
  PROVE  Leads(q) /\ req[q].kind \in kinds /\ req'[q] = then
<1>1. PICK i \in DOMAIN line : line[i] = q /\ i = 1 /\ Leaves(i)
  BY ArrivesIs
<1>2. Sets(q, then) /\ req[q].kind \in kinds
  BY ArrivesIs
<1> QED
  BY <1>1, <1>2, SetsIs DEF Leads

(* An answer on which the copies do not depend comes in.                    *)
LEMMA CopiesPassed ==
  ASSUME Typed, InLine, Copies, NEW q \in Requests, Leads(q),
         UNCHANGED <<status, kept, refused, device, loop, mail, spared>>, NEW books \in SUBSET Books,
         UNCHANGED orders \/ Tell("query", books, q),
         req[q].kind \notin {"return", "manifest"}, req'[q].kind # "manifest"
  PROVE  Copies'
<1>1. \A c \in Books : (Will(c)' <=> Will(c)) /\ (About(orders, c)' = {} => About(orders, c) = {})
  <2>1. CASE UNCHANGED orders
    BY <2>1 DEF Will, Effective, Held, About, loop
  <2>2. CASE Tell("query", books, q)
    BY <2>2, WillTold DEF Order
  <2> QED
    BY <2>1, <2>2
<1>2. Out' /\ Manifesting'
  BY <1>1, OutLeft DEF Copies
<1>3. OneManifest'
  BY ManifestsSame DEF Copies, Leads
<1>4. Kept'
  <2>1. \A c \in Books : InFlight({"manifest"}, {c})' = InFlight({"manifest"}, {c})
    BY DEF InFlight, Leads
  <2> QED
    BY <1>1, <2>1, KeptSame DEF Copies, About, loop
<1> QED
  BY <1>2, <1>3, <1>4 DEF Copies

(* The copy that a return clears is that of the book returned, since the    *)
(* user has waited for the answer.                                          *)
LEMMA CopiesReturned ==
  ASSUME Typed, InLine, OneTalk, Ordered, Copies, NEW q \in Requests, ReturnArrives(q)
  PROVE  Copies'
<1>1. Leads(q) /\ req[q].kind = "return" /\ req'[q].kind = "list"
  BY CallTyped, LeadsArrives DEF ReturnArrives, Call
<1>2. PICK b \in Books : b = modal /\ b = req[q].book
  BY <1>1 DEF OneTalk, Typed, Talks
<1>3. /\ Tell("clear", {b}, None) /\ UNCHANGED <<status, device, loop, mail, spared>>
      /\ kept' = kept \ {b} /\ refused' = refused \ {b}
  BY <1>2 DEF ReturnArrives, hist
<1>4. /\ ~Will(b)' /\ \A c \in Books : c # b => (Will(c)' <=> Will(c))
      /\ About(orders, b)' # {} /\ \A c \in Books : About(orders, c)' = {} => About(orders, c) = {}
  BY <1>3, WillTold DEF Order
<1>5. Out' /\ Manifesting'
  BY <1>1, <1>2, <1>3, <1>4, OutLeft DEF Copies
<1>6. OneManifest'
  BY <1>1, <1>3 DEF Copies, Leads, OneManifest
<1>7. Kept'
  <2>1. \A c \in Books : InFlight({"manifest"}, {c})' = InFlight({"manifest"}, {c})
    BY <1>1 DEF InFlight, Leads
  <2> QED
    BY <1>3, <1>4, <2>1, KeptSame DEF Copies, About, loop
<1> QED
  BY <1>5, <1>6, <1>7 DEF Copies

(* A manifest comes: the worker is told to keep the book, or it is in.      *)
LEMMA CopiesFetched ==
  ASSUME Typed, InLine, Ordered, Copies, NEW q \in Requests, ManifestArrives(q)
  PROVE  Copies'
<1>1. Leads(q) /\ req[q].kind = "manifest" /\ req'[q].kind = "free"
  BY CallTyped, LeadsArrives DEF ManifestArrives, Free
<1> DEFINE b == req[q].book
<1>2. b \in Books /\ UNCHANGED <<status, refused, device, loop, mail, spared>>
  BY <1>1 DEF Typed, ManifestArrives, hist
<1>3. OneManifest'
  BY <1>1 DEF Copies, Leads, OneManifest, ManifestArrives
<1>4. \A c \in Books : c # b => InFlight({"manifest"}, {c})' = InFlight({"manifest"}, {c})
  BY <1>1 DEF InFlight, Leads
<1>5. CASE req[q].body[b] # "in" /\ Tell("cache", {b}, None) /\ UNCHANGED kept
  <2>1. PICK a \in Books : a = b
    BY <1>2
  <2>2. Tell("cache", {a}, None) /\ UNCHANGED <<device, loop, spared>>
    BY <1>2, <1>5, <2>1
  <2>3. /\ \A c \in Books : c # a => (Will(c)' <=> Will(c))
        /\ About(orders, a)' # {} /\ \A c \in Books : About(orders, c)' = {} => About(orders, c) = {}
    BY <2>2, WillTold DEF Order
  <2>4. Out' /\ Manifesting'
    BY <1>1, <1>2, <1>5, <2>1, <2>3, OutLeft DEF Copies
  <2>5. Kept'
    BY <1>2, <1>4, <1>5, <2>1, <2>3, KeptSame DEF Copies, About, loop
  <2> QED
    BY <1>3, <2>4, <2>5 DEF Copies
<1>6. CASE req[q].body[b] = "in" /\ kept' = kept \ {b} /\ UNCHANGED orders
  <2>1. \A c \in Books : (Will(c)' <=> Will(c)) /\ About(orders, c)' = About(orders, c) /\ About(mail, c)' = About(mail, c)
    BY <1>2, <1>6 DEF Will, Effective, Held, About, loop
  <2>2. Out' /\ Manifesting'
    BY <1>1, <1>2, <2>1, OutLeft DEF Copies
  <2>3. ~Will(b) \/ \E j \in Returning(b) : j < 1
    BY <1>1, <1>6 DEF Copies, Manifesting, Leads
  <2>4. ~Will(b)
    BY <1>1, <1>2, <2>3, LeadsIs
  <2>5. About(orders, b) = {} => b \notin device \/ b \in spared
    BY <1>2, <2>4 DEF Will, Effective, Held, About
  <2>6. Kept'
    <3>1. ASSUME NEW c \in Books, c \notin spared', About(orders, c)' = {}, About(mail, c)' = {},
                 InFlight({"manifest"}, {c})' = {}, c # activeBookId'
          PROVE  c \in kept' <=> c \in device'
      <4>1. CASE c = b
        BY <1>2, <1>6, <2>1, <2>5, <3>1, <4>1
      <4>2. CASE c # b
        BY <1>2, <1>4, <1>6, <2>1, <3>1, <4>2 DEF Copies, Kept, loop
      <4> QED
        BY <4>1, <4>2
    <3> QED
      BY <3>1 DEF Kept
  <2> QED
    BY <1>3, <2>2, <2>6 DEF Copies
<1> QED
  BY <1>5, <1>6 DEF ManifestArrives

(* The user asks for a copy, or refuses it when no manifest is awaited.     *)
LEMMA CopiesToggled ==
  ASSUME Typed, InLine, Copies, ToggleDevice, waited'
  PROVE  Copies'
<1>0. PICK b \in Books : b = detail.book
  BY DEF ToggleDevice, Typed
<1>1. UNCHANGED <<status, device, loop, mail, line, spared>>
  BY DEF ToggleDevice
<1>2. CASE StartDevice(b)
  <2>1. refused' = refused \ {b} /\ UNCHANGED orders
    BY <1>2 DEF StartDevice
  <2>2. \A c \in Books : (Will(c)' <=> Will(c)) /\ About(orders, c)' = About(orders, c) /\ About(mail, c)' = About(mail, c)
    BY <1>1, <2>1 DEF Will, Effective, Held, About, loop
  <2>3. CASE InFlight({"manifest"}, {b}) = {} /\ kept' = kept \cup {b} /\ Send("manifest", b)
    <3>1. PICK q \in Requests : Sets(q, Call("manifest", b)) /\ req[q].kind = "free"
      BY <2>3, SentIs DEF Kinds
    <3>2. req'[q].kind = "manifest" /\ req'[q].book = b /\ \A r \in Requests \ {q} : req'[r] = req[r]
      BY <3>1, SetsIs DEF Call
    <3>3. Stays
      BY <1>1, <3>1, <3>2 DEF Stays
    <3>4. Out' /\ Manifesting'
      BY <1>1, <2>1, <2>2, <3>3, OutStays DEF Copies
    <3>5. OneManifest'
      BY <2>1, <2>3, <3>2 DEF Copies, OneManifest, InFlight
    <3>6. Kept'
      <4>1. \A c \in Books : c # b => InFlight({"manifest"}, {c})' = InFlight({"manifest"}, {c})
        BY <3>1, <3>2 DEF InFlight
      <4>2. InFlight({"manifest"}, {b})' # {}
        BY <3>2 DEF InFlight
      <4>3. \A c \in Books : c # b => (c \in kept' <=> c \in kept) /\ (c \in device' <=> c \in device)
        BY <1>1, <2>3
      <4> QED
        BY <1>1, <2>2, <4>1, <4>2, <4>3, KeptSame DEF Copies, loop
    <3> QED
      BY <3>4, <3>5, <3>6 DEF Copies
  <2>4. CASE InFlight({"manifest"}, {b}) # {} /\ UNCHANGED <<kept, req>>
    <3>1. Out' /\ Manifesting'
      BY <1>1, <2>1, <2>2, <2>4, OutStays DEF Copies, Stays
    <3>2. OneManifest'
      BY <2>1, <2>4 DEF Copies, OneManifest
    <3>3. Kept'
      BY <1>1, <2>2, <2>4, KeptSame DEF Copies, InFlight, loop
    <3> QED
      BY <3>1, <3>2, <3>3 DEF Copies
  <2> QED
    BY <1>2, <2>3, <2>4 DEF StartDevice
<1>3. CASE ClearDevice(b)
  <2>1. /\ refused' = refused \cup {b} /\ kept' = kept \ {b} /\ Tell("clear", {b}, None) /\ UNCHANGED req
        /\ InFlight({"manifest"}, {b}) = {}
    BY <1>3 DEF ClearDevice
  <2>2. /\ ~Will(b)' /\ (\A c \in Books : c # b => (Will(c)' <=> Will(c)))
        /\ About(orders, b)' # {} /\ \A c \in Books : About(orders, c)' = {} => About(orders, c) = {}
    BY <1>1, <2>1, WillTold DEF Order
  <2>3. Out' /\ Manifesting'
    BY <1>1, <2>1, <2>2, OutStays DEF Copies, Stays
  <2>4. OneManifest'
    BY <2>1 DEF Copies, OneManifest, InFlight
  <2>5. Kept'
    BY <1>1, <2>1, <2>2, KeptSame DEF Copies, InFlight, About, loop
  <2> QED
    BY <2>3, <2>4, <2>5 DEF Copies
<1> QED
  BY <1>0, <1>2, <1>3 DEF ToggleDevice

(* The server answers a request.                                            *)
LEMMA CopiesServed ==
  ASSUME Typed, InLine, Copies, NEW q \in Requests, Serve(q)
  PROVE  Copies'
<1>1. Out' /\ Manifesting'
  BY OutServed DEF Copies
<1>2. \A r \in Requests : req'[r].kind = req[r].kind /\ req'[r].book = req[r].book
  BY BodyTyped DEF Serve, Typed, Calls
<1>3. OneManifest'
  BY <1>2, ManifestsSame DEF Copies, Serve, page
<1>4. Kept'
  BY <1>2, KeptSame DEF Copies, Serve, page, worker, hist, loop, About, InFlight
<1> QED
  BY <1>1, <1>3, <1>4 DEF Copies

(* The requests and the line stay, with what the page has; the worker has   *)
(* no book it did not have, or will keep.                                   *)
LEMMA CopiesWorked ==
  ASSUME Typed, InLine, Copies, UNCHANGED <<req, line, kept, refused>>,
         \A b \in Books : Will(b)' => Will(b),
         \A b \in Books : status'[b] = "in" => status[b] = "in",
         \A b \in Books :
           \/ About(mail, b)' # {}
           \/ /\ b \in spared => b \in spared'
              /\ b = activeBookId => b = activeBookId'
              /\ About(orders, b)' = {} => About(orders, b) = {}
              /\ About(mail, b)' = {} => About(mail, b) = {}
              /\ b \in device' <=> b \in device
  PROVE  Copies'
<1>1. Out' /\ Manifesting'
  BY OutStays DEF Copies, Stays
<1>2. OneManifest'
  BY ManifestsSame DEF Copies
<1>3. Kept'
  BY KeptSame DEF Copies, InFlight
<1> QED
  BY <1>1, <1>2, <1>3 DEF Copies

(* The worker does what it was told.                                        *)
LEMMA CopiesObeyed ==
  ASSUME Typed, InLine, Copies, Obey
  PROVE  Copies'
<1>1. PICK o \in Orders, there \in SUBSET Books :
        /\ o = Head(orders) /\ Report(o.books, there, o.query) /\ there \subseteq o.books
        /\ \A c \in Books \ o.books : (c \in device' <=> c \in device) /\ (c \in spared' <=> c \in spared)
  BY ObeyReports
<1>2. o.books \in SUBSET Books /\ o.query \in Requests \cup {None}
  BY OrderIs
<1>3. (\A b \in o.books : About(mail, b)' # {}) /\ \A c \in Books : About(mail, c)' = {} => About(mail, c) = {}
  BY <1>1, <1>2, ReportedIs
<1>4. UNCHANGED <<status, req, line, kept, refused, activeBookId>>
  BY DEF Obey, ObeyCache, ObeyClear, ObeyQuery, page, loop
<1>5. \A c \in Books : c \notin o.books /\ About(orders, c)' = {} => About(orders, c) = {}
  BY <1>1, AboutObeyed
<1>6. \A c \in Books : Will(c)' => Will(c)
  BY WillObeyed
<1> QED
  BY <1>1, <1>3, <1>4, <1>5, <1>6, CopiesWorked

(* The worker goes on with its queue.                                       *)
LEMMA CopiesWorkedOn ==
  ASSUME Typed, InLine, Copies, NEW b \in Books, Take(b) \/ Fetching(b) \/ Fetched(b)
  PROVE  Copies'
<1>1. UNCHANGED <<status, req, line, kept, refused, orders, spared>>
  BY DEF Take, Fetching, Fetched, page, hist
<1>2. Held' \subseteq Held
  BY PageAssumption DEF Take, Fetching, Fetched, Held, hist, loop
<1>3. \A c \in Books : Will(c)' => Will(c)
  BY <1>1, <1>2 DEF Will, Effective
<1>4. CASE Take(b)
  <2>1. UNCHANGED <<device, mail>> /\ activeBookId = None
    BY <1>4 DEF Take
  <2>2. \A c \in Books : c # activeBookId
    BY <2>1, PageAssumption
  <2> QED
    BY <1>1, <1>3, <2>1, <2>2, CopiesWorked DEF About
<1>5. ASSUME NEW there \in SUBSET {b}, Report({b}, there, None), activeBookId = b,
             \A c \in Books \ {b} : c \in device' <=> c \in device
      PROVE  Copies'
  <2>1. About(mail, b)' # {} /\ \A c \in Books : About(mail, c)' = {} => About(mail, c) = {}
    BY <1>5, ReportedIs
  <2> QED
    BY <1>1, <1>3, <1>5, <2>1, CopiesWorked DEF About
<1>6. CASE Fetching(b)
  BY <1>5, <1>6 DEF Fetching
<1>7. CASE Fetched(b)
  <2>1. /\ activeBookId = b /\ device' \in {device \cup {b}, device \ {b}}
        /\ Report({b}, device' \cap {b}, None)
    BY <1>7 DEF Fetched
  <2> DEFINE there == device' \cap {b}
  <2>2. there \in SUBSET {b} /\ Report({b}, there, None)
    BY <2>1
  <2> HIDE DEF there
  <2> QED
    BY <1>5, <2>1, <2>2
<1> QED
  BY <1>4, <1>6, <1>7

(* The page reads what the worker says.                                     *)
LEMMA CopiesRead ==
  ASSUME Channels, Copies, MailArrives
  PROVE  Copies'
<1>0. Typed /\ Queries /\ InLine /\ Mailed
  BY DEF Channels
<1> DEFINE m == Head(mail)
<1>1. UNCHANGED <<status, refused, device, loop, orders, line, spared>>
  BY DEF MailArrives, hist
<1>2. \A r \in Requests : req[r].kind \notin Waits => req'[r] = req[r]
  BY <1>0, Tailed DEF MailArrives, Typed, Queries
<1>3. \A r \in Requests : req'[r] = req[r] \/ req'[r] = Free
  BY <1>0 DEF MailArrives, Typed
<1>4. Out' /\ Manifesting'
  <2>1. \A c \in Books : Will(c)' <=> Will(c)
    BY <1>1 DEF Will, Effective, Held, loop
  <2> QED
    BY <1>0, <1>1, <1>2, <2>1, OutStays DEF Copies, Stays
<1>5. OneManifest'
  BY <1>1, <1>3, ManifestsSame DEF Copies, Free
<1>6. Kept'
  <2>1. ASSUME NEW c \in Books, c \notin spared', About(orders, c)' = {}, About(mail, c)' = {},
               InFlight({"manifest"}, {c})' = {}, c # activeBookId'
        PROVE  c \in kept' <=> c \in device'
    <3>1. /\ About(orders, c) = {} /\ InFlight({"manifest"}, {c}) = {}
          /\ c \notin spared /\ c # activeBookId
      BY <1>1, <1>2, <2>1 DEF About, InFlight, loop, Waits
    <3>2. CASE c \notin m.books /\ About(mail, c) = {}
      <4>1. c \in kept <=> c \in device
        BY <3>1, <3>2 DEF Copies, Kept
      <4>2. m.there \subseteq m.books
        BY <1>0, Tailed DEF MailArrives, Typed, Mails
      <4> QED
        BY <1>1, <3>2, <4>1, <4>2 DEF MailArrives
    <3>3. CASE c \in m.books /\ (c \in m.there <=> c \in device)
      BY <1>1, <3>3 DEF MailArrives
    <3> QED
      BY <1>0, <2>1, <3>1, <3>2, <3>3, AboutRead
  <2> QED
    BY <2>1 DEF Kept
<1> QED
  BY <1>4, <1>5, <1>6 DEF Copies

(* Every step keeps the copies as they should be.                           *)
LEMMA CopyingStep ==
  ASSUME Channels, Talking, Copying, [PageNext]_pageVars
  PROVE  Copying'
<1>0. Typed /\ Queries /\ InLine
  BY DEF Channels
<1> SUFFICES ASSUME waited', good', Ordered PROVE Copies'
  BY DEF Copying
<1>a. ASSUME waited, good PROVE Copies /\ OneTalk
  BY <1>a DEF Copying, Talking
<1>1. ASSUME NEW b \in Books, Open(b) PROVE Copies'
  BY <1>0, <1>1, <1>a, CopiesBeside DEF Open, Kinds
<1>2. ASSUME NEW b \in Books, Downloaded(b) PROVE Copies'
  <2>1. Copies /\ UNCHANGED <<req, line, kept, refused, device, loop, orders, mail, spared>>
    BY <1>2, <1>a DEF Downloaded, page, worker, hist, loop
  <2>2. \A c \in Books : status'[c] = "in" => status[c] = "in"
    BY <1>0, <1>2 DEF Downloaded, Typed
  <2> QED
    BY <1>0, <2>1, <2>2, CopiesWorked DEF Will, Effective, Held, About, loop
<1>3. ASSUME NEW b \in Books, Take(b) \/ Fetching(b) \/ Fetched(b) PROVE Copies'
  BY <1>0, <1>3, <1>a, CopiesWorkedOn DEF Take, Fetching, Fetched, hist
<1>4. CASE Obey
  BY <1>0, <1>4, <1>a, CopiesObeyed DEF Obey, hist
<1>5. CASE MailArrives
  BY <1>5, <1>a, CopiesRead DEF MailArrives, hist
<1>6. CASE RefreshDetail \/ ToggleRead
  <2>1. modal \in Books
    BY <1>0, <1>6 DEF RefreshDetail, ToggleRead, Typed
  <2> QED
    BY <1>0, <1>6, <1>a, <2>1, CopiesBeside DEF RefreshDetail, ToggleRead, Kinds, page
<1>7. CASE ToggleCheckout
  <2>1. modal \in Books /\ Action \in Kinds \ {"manifest"}
    BY <1>0, <1>7 DEF ToggleCheckout, Typed, Action, Kinds
  <2> QED
    BY <1>0, <1>7, <1>a, <2>1, CopiesBeside DEF ToggleCheckout, page
<1>8. CASE ToggleDevice
  BY <1>0, <1>8, <1>a, CopiesToggled DEF ToggleDevice, StartDevice, ClearDevice
<1>9. CASE Poll
  BY <1>0, <1>9, <1>a, CopiesBeside DEF Poll, Kinds, page, hist
<1>10. ASSUME NEW q \in Requests, Serve(q) PROVE Copies'
  BY <1>0, <1>10, <1>a, CopiesServed DEF Serve, hist
<1>11. ASSUME NEW q \in Requests, DetailArrives(q) PROVE Copies'
  <2> DEFINE x == IF req[q].body[req[q].book] # "in" THEN [req[q] EXCEPT !.kind = "again"] ELSE Free
  <2>1. x \in Calls /\ x.kind # "manifest"
    <3>1. "again" \in Waits
      BY DEF Waits
    <3> QED
      BY <1>0, <3>1, WaitIs, CallTyped DEF Free
  <2>2. Arrives(q, {"detail"}, x)
    BY <1>11 DEF DetailArrives
  <2> HIDE DEF x
  <2>3. Leads(q) /\ req[q].kind = "detail" /\ req'[q] = x
    BY <1>0, <2>1, <2>2, LeadsArrives
  <2>4. {req[q].book} \in SUBSET Books
    BY <1>0, <2>3 DEF Typed, Talks
  <2> QED
    BY <1>0, <1>11, <1>a, <2>1, <2>3, <2>4, CopiesPassed DEF DetailArrives, hist
<1>12. ASSUME NEW q \in Requests, Refreshed(q) \/ MarkArrives(q) \/ CheckoutArrives(q) PROVE Copies'
  <2>1. PICK x \in {Free, Call("list", None)} : Arrives(q, {"refresh", "read", "checkout"}, x)
    BY <1>12 DEF Refreshed, MarkArrives, CheckoutArrives, Arrives
  <2>2. x \in Calls /\ x.kind # "manifest"
    BY CallTyped DEF Free, Call
  <2>3. Leads(q) /\ req[q].kind \in {"refresh", "read", "checkout"} /\ req'[q] = x
    BY <1>0, <2>1, <2>2, LeadsArrives
  <2>4. Copies /\ UNCHANGED <<status, kept, refused, device, loop, mail, orders, spared>>
    BY <1>12, <1>a DEF Refreshed, MarkArrives, CheckoutArrives, hist, worker
  <2>5. {} \in SUBSET Books
    OBVIOUS
  <2> QED
    BY <1>0, <2>2, <2>3, <2>4, <2>5, CopiesPassed
<1>17. ASSUME NEW q \in Requests, ListArrives(q) PROVE Copies'
  <2>1. PICK x \in Calls : /\ Arrives(q, {"list"}, x) /\ x.kind \in {"free", "copies"}
                           /\ UNCHANGED orders \/ Tell("query", Listed(req[q].body), q)
    BY <1>0, <1>17, ListThen
  <2>2. Leads(q) /\ req[q].kind = "list" /\ req'[q].kind # "manifest"
    BY <1>0, <2>1, LeadsArrives
  <2>3. Copies /\ UNCHANGED <<status, kept, refused, device, loop, mail, spared>>
    BY <1>17, <1>a DEF ListArrives, hist
  <2>4. Listed(req[q].body) \in SUBSET Books
    BY DEF Listed
  <2> QED
    BY <1>0, <2>1, <2>2, <2>3, <2>4, CopiesPassed
<1>13. ASSUME NEW q \in Requests, ReturnArrives(q) PROVE Copies'
  BY <1>0, <1>13, <1>a, CopiesReturned DEF ReturnArrives, hist
<1>14. ASSUME NEW q \in Requests, ManifestArrives(q) PROVE Copies'
  BY <1>0, <1>14, <1>a, CopiesFetched DEF ManifestArrives, hist
<1>15. ASSUME NEW q \in Requests, ErrorArrives(q) PROVE Copies'
  BY <1>15 DEF ErrorArrives
<1>16. CASE UNCHANGED pageVars
  <2>1. Copies /\ UNCHANGED <<status, req, line, kept, refused, device, loop, orders, mail, spared>>
    BY <1>16, <1>a DEF pageVars, page, worker, hist
  <2> QED
    BY <1>0, <2>1, CopiesWorked DEF Will, Effective, Held, About, loop
<1> QED
  BY <1>1, <1>2, <1>3, <1>4, <1>5, <1>6, <1>7, <1>8, <1>9, <1>10, <1>11, <1>12, <1>13, <1>14, <1>15, <1>16,
     <1>17 DEF PageNext, Answer

(* No copy of a returned or a refused book stays on the device, and none is *)
(* missing (startDeviceOfflineCacheForBook, toggleCheckoutStatus, sw.js),   *)
(* for any number of books, requests and clicks, if answers come in the     *)
(* order the server gave them; but for a book that the worker was fetching  *)
(* when it was told to clear it (sw.js:769-786).                            *)
THEOREM CopiesAgreeAlways ==
  ASSUME Ordered
  PROVE  PageSpec => []CopiesAgree
<1>1. Channels /\ Copying => CopiesAgree
  <2> SUFFICES ASSUME Channels, Copying, waited, good, Quiet
               PROVE  \A b \in Books \ spared :
                        /\ b \in device <=> b \in kept
                        /\ b \in device => b \notin refused /\ status[b] # "in"
    BY DEF CopiesAgree
  <2>1. Copies /\ Typed
    BY DEF Copying, Channels
  <2>2. orders = <<>> /\ mail = <<>> /\ \A q \in Requests : req[q].kind = "free"
    BY DEF Quiet, Free
  <2>3. /\ \A b \in Books : About(orders, b) = {} /\ About(mail, b) = {} /\ InFlight({"manifest"}, {b}) = {}
        /\ \A b \in Books \ spared : b \in device => Will(b)
        /\ \A b \in Books : b # activeBookId
    BY <2>2, PageAssumption DEF About, InFlight, Will, Effective, Held, Quiet
  <2>4. \A i \in DOMAIN line : line[i] \in Requests
    BY <2>1, ElementOfSeq, LenProperties DEF Typed
  <2>5. \A b \in Books : Returning(b) = {}
    BY <2>2, <2>4 DEF Returning
  <2> QED
    BY <2>1, <2>3, <2>5 DEF Copies, Kept, Out, Typed
<1>2. PageSpec => []Talking
  <2>1. Channels /\ Channels' /\ Talking /\ [PageNext]_pageVars => Talking'
    BY TalkingStep
  <2> QED
    BY <2>1, TalkingInit, AlwaysChannels, PTL DEF PageSpec
<1>3. PageSpec => []Copying
  <2>1. Channels /\ Talking /\ Copying /\ [PageNext]_pageVars => Copying'
    BY CopyingStep
  <2> QED
    BY <1>2, <2>1, CopyingInit, AlwaysChannels, PTL DEF PageSpec
<1> QED
  BY <1>1, <1>3, AlwaysChannels, PTL

-----------------------------------------------------------------------------
(* The list                                                                 *)

(* The books as they are, but for downloads that have ended meanwhile.      *)
Close(a) == \A b \in Books : a[b] = status[b] \/ (a[b] = "loading" /\ status[b] = "done")

(* The lists in the line.                                                   *)
ListAt == {i \in DOMAIN line : req[line[i]].kind = "list"}

(* A list is still to be asked for or to be answered, or the last one that  *)
(* comes in is close, or the page has it, and polls for what is going on.   *)
Catching ==
  \/ \E q \in Requests : \/ req[q].kind \in {"checkout", "return"}
                         \/ req[q].kind = "list" /\ ~Answered(q)
  \/ \E i \in ListAt : (\A j \in ListAt : j <= i) /\ Close(req[line[i]].body)
  \/ ListAt = {} /\ Close(list) /\ poll = Active(list)

(* The safety half of ListCatchesUp: whatever is amiss, more is to come.    *)
ListTended ==
  good => \/ list = status \/ poll
          \/ \E q \in Requests : req[q].kind \in {"checkout", "return", "list"}

(* Nothing about lists changes but that downloads may end.                  *)
LEMMA CatchingStays ==
  ASSUME Typed, InLine, Stays, Catching, UNCHANGED <<list, poll>>,
         \A b \in Books : status'[b] = status[b] \/ (status[b] = "loading" /\ status'[b] = "done")
  PROVE  Catching'
<1>1. \A a \in [Books -> Status] : Close(a) => Close(a)'
  BY DEF Close
<1>2. DOMAIN line' = DOMAIN line /\ \A i \in DOMAIN line : line[i] \in Requests /\ req'[line'[i]] = req[line[i]]
  BY StaysIs
<1>3. ListAt' = ListAt
  BY <1>2 DEF ListAt
<1>4. ASSUME NEW q \in Requests, req[q].kind \in {"checkout", "return"} \/ (req[q].kind = "list" /\ ~Answered(q))
      PROVE  req'[q].kind \in {"checkout", "return"} \/ (req'[q].kind = "list" /\ ~Answered(q)')
  <2>1. req'[q] = req[q] /\ (Answered(q)' <=> Answered(q))
    BY <1>4 DEF Stays, Answered, Waits
  <2> QED
    BY <1>4, <2>1
<1>5. ASSUME NEW i \in ListAt, \A j \in ListAt : j <= i, Close(req[line[i]].body)
      PROVE  Catching'
  <2>1. i \in DOMAIN line /\ req'[line'[i]] = req[line[i]]
    BY <1>2 DEF ListAt
  <2>2. req[line[i]].body \in [Books -> Status]
    BY <1>2, <2>1, BodyTyped
  <2>3. \A b \in Books : req'[line'[i]].body[b] = status'[b] \/ (req'[line'[i]].body[b] = "loading" /\ status'[b] = "done")
    BY <1>5, <2>1 DEF Close
  <2> QED
    BY <1>3, <1>5, <2>3 DEF Catching, Close
<1>6. ASSUME ListAt = {}, Close(list), poll = Active(list)
      PROVE  Catching'
  <2>1. \A b \in Books : list'[b] = status'[b] \/ (list'[b] = "loading" /\ status'[b] = "done")
    BY <1>6 DEF Close
  <2>2. poll' = Active(list')
    BY <1>6
  <2> QED
    BY <1>3, <1>6, <2>1, <2>2 DEF Catching, Close
<1> QED
  BY <1>4, <1>5, <1>6 DEF Catching

(* The lists move up, too.                                                  *)
LEMMA ListsLeft ==
  ASSUME Typed, InLine, NEW q \in Requests, Leads(q)
  PROVE  /\ \A i \in ListAt' : i \in Nat /\ i # 0 /\ i + 1 \in ListAt
         /\ \A j \in ListAt : /\ j \in Nat
                              /\ j = 1 => req[q].kind = "list"
                              /\ j # 1 => j > 1 /\ j - 1 \in ListAt' /\ req'[line'[j - 1]] = req[line[j]]
<1>1. /\ Len(line) \in Nat /\ DOMAIN line = 1..Len(line)
      /\ DOMAIN line' = 1..(Len(line) - 1)
  BY LineLeft DEF Typed, Leads
<1>2. \A i \in DOMAIN line' : i \in Nat /\ i # 0 /\ i + 1 \in DOMAIN line /\ req'[line'[i]] = req[line[i + 1]]
  BY LeadsIs
<1>3. ASSUME NEW j \in ListAt
      PROVE /\ j \in Nat
            /\ j = 1 => req[q].kind = "list"
            /\ j # 1 => j > 1 /\ j - 1 \in ListAt' /\ req'[line'[j - 1]] = req[line[j]]
  <2>1. j \in 1..Len(line) /\ req[line[j]].kind = "list"
    BY <1>1 DEF ListAt
  <2>2. ASSUME j # 1 PROVE j - 1 \in ListAt' /\ req'[line'[j - 1]] = req[line[j]]
    <3>1. j - 1 \in DOMAIN line' /\ (j - 1) + 1 = j
      BY <1>1, <2>1, <2>2
    <3>2. req'[line'[j - 1]] = req[line[j]]
      BY <1>2, <3>1
    <3> QED
      BY <2>1, <3>1, <3>2 DEF ListAt
  <2> QED
    BY <2>1, <2>2 DEF Leads
<1>4. \A i \in ListAt' : i \in Nat /\ i # 0 /\ i + 1 \in ListAt
  BY <1>2 DEF ListAt
<1> QED
  BY <1>3, <1>4

(* What a request that is not answered keeps.                               *)
LEMMA PendingLeft ==
  ASSUME Typed, InLine, NEW q \in Requests, Leads(q), NEW r \in Requests \ {q},
         req[r].kind \in {"checkout", "return"} \/ (req[r].kind = "list" /\ ~Answered(r))
  PROVE  Catching'
<1>1. req'[r] = req[r] /\ (Answered(r)' <=> Answered(r))
  BY AnsweredArrives DEF Leads
<1> QED
  BY <1>1 DEF Catching

(* The last list in the line stays the last, unless it is the one that      *)
(* leaves.                                                                  *)
LEMMA LastLeft ==
  ASSUME Typed, InLine, NEW q \in Requests, Leads(q), UNCHANGED status,
         NEW i \in ListAt, \A j \in ListAt : j <= i, Close(req[line[i]].body), i # 1
  PROVE  Catching'
<1>1. i \in Nat /\ i > 1 /\ i - 1 \in ListAt' /\ req'[line'[i - 1]] = req[line[i]]
  BY ListsLeft
<1>2. ASSUME NEW k \in ListAt' PROVE k <= i - 1
  <2>1. k \in Nat /\ k + 1 <= i
    BY ListsLeft
  <2> QED
    BY <1>1, <2>1
<1>3. \A b \in Books : \/ req'[line'[i - 1]].body[b] = status'[b]
                       \/ req'[line'[i - 1]].body[b] = "loading" /\ status'[b] = "done"
  BY <1>1 DEF Close
<1> QED
  BY <1>1, <1>2, <1>3 DEF Catching, Close

(* Another answer comes in.                                                 *)
LEMMA CatchingPassed ==
  ASSUME Typed, InLine, Catching, NEW q \in Requests, Leads(q), UNCHANGED <<status, list, poll>>,
         req[q].kind \notin {"checkout", "return", "list"}
  PROVE  Catching'
<1>1. 1 \notin ListAt
  BY DEF ListAt, Leads
<1>2. CASE ListAt = {} /\ Close(list) /\ poll = Active(list)
  <2>1. ListAt' = {}
    BY <1>2, ListsLeft
  <2> QED
    BY <1>2, <2>1 DEF Catching, Close
<1> QED
  BY <1>1, <1>2, PendingLeft, LastLeft DEF Catching

(* A list comes in.                                                         *)
LEMMA CatchingListed ==
  ASSUME Typed, InLine, Catching, NEW q \in Requests, Leads(q), ListArrives(q)
  PROVE  Catching'
<1>1. req[q].kind = "list" /\ Answered(q) /\ 1 \in ListAt /\ line[1] = q
  BY DEF ListArrives, Arrives, Leads, Answered, ListAt
<1>2. UNCHANGED status /\ list' = req[q].body /\ poll' = Active(req[q].body)
  BY DEF ListArrives
<1>3. CASE (\A j \in ListAt : j <= 1) /\ Close(req[q].body)
  <2>1. ListAt' = {}
    <3>1. ASSUME NEW k \in ListAt' PROVE FALSE
      <4>1. k \in Nat /\ k # 0 /\ k + 1 <= 1
        BY <1>3, ListsLeft
      <4> QED
        BY <4>1
    <3> QED
      BY <3>1
  <2>2. \A b \in Books : list'[b] = status'[b] \/ (list'[b] = "loading" /\ status'[b] = "done")
    BY <1>2, <1>3 DEF Close
  <2>3. poll' = Active(list')
    BY <1>2
  <2> QED
    BY <2>1, <2>2, <2>3 DEF Catching, Close
<1> QED
  BY <1>1, <1>2, <1>3, PendingLeft, LastLeft DEF Catching

(* The server answers: with the list as it is, or something else.           *)
LEMMA CatchingServed ==
  ASSUME Typed, InLine, Catching, NEW q \in Requests, Serve(q)
  PROVE  Catching'
<1>1. PICK n \in Nat :
           /\ n \in DOMAIN line' /\ line'[n] = q
           /\ \A i \in DOMAIN line : i \in Nat /\ i < n
           /\ \A i \in DOMAIN line' : i = n \/ (i \in DOMAIN line /\ line[i] \in Requests /\ req'[line'[i]] = req[line[i]])
  BY ServedIs
<1>2. /\ \A r \in Requests \ {q} : req'[r] = req[r]
      /\ req'[q].kind = req[q].kind /\ req'[q].book = req[q].book /\ req'[q].body = status'
  BY BodyTyped DEF Serve, Typed, Calls
<1>3. CASE req[q].kind \in {"checkout", "return"}
  BY <1>2, <1>3 DEF Catching
<1>4. CASE req[q].kind = "list"
  <2>1. n \in ListAt' /\ \A j \in ListAt' : j <= n
    BY <1>1, <1>2, <1>4 DEF ListAt
  <2>2. \A b \in Books : req'[line'[n]].body[b] = status'[b]
    BY <1>1, <1>2
  <2> QED
    BY <2>1, <2>2 DEF Catching, Close
<1>5. CASE req[q].kind \notin {"checkout", "return", "list"}
  <2>1. UNCHANGED <<status, list, poll>>
    BY <1>5 DEF Serve, Look, CheckOut, TakeBack, page
  <2>2. \A i \in DOMAIN line : i \in DOMAIN line' /\ req'[line'[i]] = req[line[i]]
    <3>1. /\ Len(line) \in Nat /\ DOMAIN line = 1..Len(line) /\ DOMAIN line' = 1..(Len(line) + 1)
          /\ \A i \in 1..Len(line) : line'[i] = line[i]
      BY Appended DEF Serve, Typed
    <3>2. \A i \in DOMAIN line : line[i] \in Requests \ {q}
      BY ElementOfSeq, LenProperties DEF Typed, Serve, Answered
    <3> QED
      BY <1>2, <3>1, <3>2
  <2>3. ListAt' = ListAt
    BY <1>1, <1>2, <1>5, <2>2 DEF ListAt
  <2>4. ASSUME NEW r \in Requests, req[r].kind \in {"checkout", "return"} \/ (req[r].kind = "list" /\ ~Answered(r))
        PROVE  Catching'
    <3>1. r # q /\ req'[r] = req[r] /\ (Answered(r)' <=> Answered(r))
      BY <1>2, <1>5, <2>4, AnsweredServe
    <3> QED
      BY <2>4, <3>1 DEF Catching
  <2>5. ASSUME NEW i \in ListAt, \A j \in ListAt : j <= i, Close(req[line[i]].body)
        PROVE  Catching'
    <3>1. req'[line'[i]] = req[line[i]]
      BY <2>2 DEF ListAt
    <3>2. \A b \in Books : \/ req'[line'[i]].body[b] = status'[b]
                           \/ req'[line'[i]].body[b] = "loading" /\ status'[b] = "done"
      BY <2>1, <2>5, <3>1 DEF Close
    <3> QED
      BY <2>3, <2>5, <3>2 DEF Catching, Close
  <2>6. ASSUME ListAt = {}, Close(list), poll = Active(list)
        PROVE  Catching'
    BY <2>1, <2>3, <2>6 DEF Catching, Close
  <2> QED
    BY <2>4, <2>5, <2>6 DEF Catching
<1> QED
  BY <1>3, <1>4, <1>5

(* The answer to a click comes in, upon which the list is asked for.        *)
LEMMA CatchingEdited ==
  ASSUME Typed, InLine, NEW q \in Requests, Leads(q), req'[q].kind = "list"
  PROVE  Catching'
<1>1. ~Answered(q)'
  <2>1. \A i \in DOMAIN line' : line'[i] # q
    <3>1. ASSUME NEW i \in DOMAIN line' PROVE line'[i] # q
      <4>1. 1 \in DOMAIN line /\ line[1] = q /\ Leaves(1)
        BY DEF Leads
      <4>2. i \in Nat /\ i # 0
        BY LeadsIs
      <4>3. i + 1 \in DOMAIN line /\ line'[i] = line[i + 1]
        BY <4>1, <4>2, LeftIs
      <4>4. i + 1 # 1
        BY <4>2
      <4> QED
        BY <4>1, <4>3, <4>4 DEF InLine
    <3> QED
      BY <3>1
  <2> QED
    BY <2>1 DEF Answered
<1> QED
  BY <1>1 DEF Catching

(* The page has the list at first.                                          *)
LEMMA CatchingInit == PageInit => Catching
<1> SUFFICES ASSUME PageInit PROVE Catching
  OBVIOUS
<1>1. DOMAIN line = {}
  BY DEF PageInit
<1>2. ListAt = {}
  BY <1>1 DEF ListAt
<1>3. list = status /\ poll = FALSE /\ \A b \in Books : list[b] = "done"
  BY DEF PageInit
<1>4. Close(list)
  BY <1>3 DEF Close
<1>5. poll = Active(list)
  BY <1>3 DEF Active
<1> QED
  BY <1>2, <1>4, <1>5 DEF Catching

(* A request is sent.                                                       *)
LEMMA CatchingSends ==
  ASSUME Typed, InLine, Catching, NEW kind \in Kinds, NEW b \in Books \cup {None}, Send(kind, b),
         b \in Books \/ kind = "list", UNCHANGED <<status, list, poll, line>>
  PROVE  Catching'
<1>1. PICK q \in Requests : Sets(q, Call(kind, b)) /\ req[q].kind = "free"
  BY SentIs
<1>2. Stays
  BY <1>1, SetsIs DEF Stays
<1> QED
  BY <1>2, CatchingStays

(* Every step leaves it in the course of catching up.                       *)
LEMMA CatchingStep ==
  ASSUME Channels, good /\ Ordered => Catching, [PageNext]_pageVars
  PROVE  (good /\ Ordered => Catching)'
<1>0. Typed /\ Queries /\ InLine
  BY DEF Channels
<1> SUFFICES ASSUME good', Ordered PROVE Catching'
  OBVIOUS
<1>a. ASSUME good PROVE Catching
  BY <1>a
<1>1. ASSUME NEW b \in Books, Open(b) PROVE Catching'
  BY <1>0, <1>1, <1>a, CatchingSends DEF Open, Kinds
<1>2. ASSUME NEW b \in Books, Downloaded(b) PROVE Catching'
  <2>1. \A c \in Books : status'[c] = status[c] \/ (status[c] = "loading" /\ status'[c] = "done")
    BY <1>0, <1>2 DEF Downloaded, Typed
  <2>2. Stays /\ Catching /\ UNCHANGED <<list, poll>>
    BY <1>2, <1>a DEF Downloaded, Stays, page, hist
  <2> QED
    BY <1>0, <2>1, <2>2, CatchingStays
<1>3. ASSUME \/ \E b \in Books : Take(b) \/ Fetching(b) \/ Fetched(b)
             \/ Obey
             \/ UNCHANGED pageVars
      PROVE Catching'
  <2>1. Stays /\ Catching /\ UNCHANGED <<status, list, poll>>
    BY <1>3, <1>a DEF Take, Fetching, Fetched, Obey, Stays, pageVars, page, hist
  <2> QED
    BY <1>0, <2>1, CatchingStays
<1>4. CASE MailArrives
  <2>1. Stays
    BY <1>0, <1>4, Tailed DEF MailArrives, Typed, Queries, Stays
  <2> QED
    BY <1>0, <1>4, <1>a, <2>1, CatchingStays DEF MailArrives, hist
<1>5. CASE RefreshDetail \/ ToggleRead
  <2>1. modal \in Books
    BY <1>0, <1>5 DEF RefreshDetail, ToggleRead, Typed
  <2> QED
    BY <1>0, <1>5, <1>a, <2>1, CatchingSends DEF RefreshDetail, ToggleRead, Kinds, page
<1>6. CASE ToggleCheckout
  <2>1. modal \in Books /\ Action \in Kinds
    BY <1>0, <1>6 DEF ToggleCheckout, Typed, Action, Kinds
  <2> QED
    BY <1>0, <1>6, <1>a, <2>1, CatchingSends DEF ToggleCheckout, page
<1>7. CASE ToggleDevice
  <2>1. detail.book \in Books /\ Catching /\ UNCHANGED <<status, list, poll, line>>
    BY <1>0, <1>7, <1>a DEF ToggleDevice, Typed
  <2>2. CASE Send("manifest", detail.book)
    BY <1>0, <2>1, <2>2, CatchingSends DEF Kinds
  <2>3. CASE UNCHANGED req
    <3>1. Stays
      BY <2>1, <2>3 DEF Stays
    <3> QED
      BY <1>0, <2>1, <3>1, CatchingStays
  <2> QED
    BY <1>7, <2>2, <2>3 DEF ToggleDevice, StartDevice, ClearDevice
<1>8. CASE Poll
  BY <1>0, <1>8, <1>a, CatchingSends DEF Poll, Kinds, page, hist
<1>9. ASSUME NEW q \in Requests, Serve(q) PROVE Catching'
  BY <1>0, <1>9, <1>a, CatchingServed DEF Serve, hist
<1>10. ASSUME NEW q \in Requests, DetailArrives(q) \/ Refreshed(q) \/ ManifestArrives(q) PROVE Catching'
  <2>1. PICK x \in {Free, [req[q] EXCEPT !.kind = "again"]} : Arrives(q, {"detail", "refresh", "manifest"}, x)
    BY <1>10 DEF DetailArrives, Refreshed, ManifestArrives, Arrives
  <2>2. x \in Calls
    BY <1>0, WaitIs, CallTyped DEF Waits
  <2>3. Leads(q) /\ req[q].kind \in {"detail", "refresh", "manifest"}
    BY <1>0, <2>1, <2>2, LeadsArrives
  <2>4. Catching /\ UNCHANGED <<status, list, poll>>
    BY <1>10, <1>a DEF DetailArrives, Refreshed, ManifestArrives, hist
  <2> QED
    BY <1>0, <2>3, <2>4, CatchingPassed
<1>11. ASSUME NEW q \in Requests, ListArrives(q) PROVE Catching'
  <2>1. Leads(q)
    BY <1>0, <1>11, ListThen, LeadsArrives
  <2> QED
    BY <1>0, <1>11, <1>a, <2>1, CatchingListed DEF ListArrives, hist
<1>12. ASSUME NEW q \in Requests, MarkArrives(q) \/ CheckoutArrives(q) \/ ReturnArrives(q) PROVE Catching'
  <2>1. Arrives(q, {"read", "checkout", "return"}, Call("list", None))
    BY <1>12 DEF MarkArrives, CheckoutArrives, ReturnArrives, Arrives
  <2>2. Leads(q) /\ req'[q] = Call("list", None)
    BY <1>0, <2>1, CallTyped, LeadsArrives
  <2> QED
    BY <1>0, <2>2, CatchingEdited DEF Call
<1>13. ASSUME NEW q \in Requests, ErrorArrives(q) PROVE Catching'
  BY <1>13 DEF ErrorArrives
<1> QED
  BY <1>1, <1>2, <1>3, <1>4, <1>5, <1>6, <1>7, <1>8, <1>9, <1>10, <1>11, <1>12, <1>13
     DEF PageNext, Answer

(* While no request fails and answers come in the order the server gave     *)
(* them, the page has the server's list, or polls it, or one is on its way  *)
(* (loadMyLibrary, scheduleMyLibraryRefresh, toggleCheckoutStatus).         *)
THEOREM ListTendedAlways ==
  ASSUME Ordered
  PROVE  PageSpec => []ListTended
<1>1. Channels /\ (good /\ Ordered => Catching) => ListTended
  <2> SUFFICES ASSUME Channels, Catching, list # status,
                      \A q \in Requests : req[q].kind \notin {"checkout", "return", "list"}
               PROVE  poll
    BY DEF ListTended
  <2>1. Typed
    BY DEF Channels
  <2>2. \A i \in DOMAIN line : line[i] \in Requests
    BY <2>1, ElementOfSeq, LenProperties DEF Typed
  <2>3. ListAt = {}
    BY <2>2 DEF ListAt
  <2>4. Close(list) /\ poll = Active(list)
    BY <2>3 DEF Catching
  <2>5. PICK b \in Books : list[b] # status[b]
    BY <2>1 DEF Typed
  <2>6. list[b] = "loading"
    BY <2>4, <2>5 DEF Close
  <2> QED
    BY <2>4, <2>6 DEF Active
<1>2. Channels /\ (good /\ Ordered => Catching) /\ [PageNext]_pageVars => (good /\ Ordered => Catching)'
  BY CatchingStep
<1>3. PageInit => (good /\ Ordered => Catching)
  BY CatchingInit
<1> QED
  BY <1>1, <1>2, <1>3, AlwaysChannels, PTL DEF PageSpec
=============================================================================
