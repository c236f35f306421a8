----------------------------- MODULE MediaStream -----------------------------
(***************************************************************************)
(* One request of a player for a media file, or for a range of its bytes:  *)
(* the service worker answers from a whole copy or from chunks it keeps    *)
(* (the fetch listener of sw.js), and else the server, from its cached     *)
(* file or from Bookdarr (library-streaming.service.ts).  Copies come and  *)
(* go under the request.                                                   *)
(***************************************************************************)
EXTENDS Integers

CONSTANTS Sizes, ChunkSizes, Heads, NaN

(* A Range header: absent, of another form than bytes=<first>-<last>, of    *)
(* that form, where either number may be missing, or several such ranges,   *)
(* of which first and last are the first one's.                             *)
ASSUME MediaAssumption ==
  /\ Sizes \subseteq Nat /\ ChunkSizes \subseteq Nat \ {0} /\ NaN \notin Nat
  /\ Heads \subseteq [kind : {"none", "other", "range", "several"}, first : Nat \cup {NaN}, last : Nat \cup {NaN}]

VARIABLES
  size, chunkSize,  \* of the file; bytesTotal and chunkSize of its metadata
  cached,   \* whether the server has a ready row and the file
  whole,    \* whether the worker has the file as one entry
  meta,     \* whether it has metadata that say chunked
  chunks,   \* the chunks it has
  pc,       \* where the request is
  head,     \* its Range header
  from, to, \* the bytes that the answer promises: Content-Range
  idx,      \* the next chunk
  next      \* the byte that the player expects, all before it have come in order

copies == <<cached, whole, meta, chunks>>
vars == <<size, chunkSize, copies, pc, head, from, to, idx, next>>

Chunks == {k \in 0..size : k * chunkSize < size}    \* ceil(total / chunkSize) of them
Ended  == {"done", "cut", "refused", "failed"}

Init ==
  /\ size \in Sizes /\ chunkSize \in ChunkSizes /\ head \in Heads
  /\ cached \in BOOLEAN /\ whole \in BOOLEAN /\ meta \in BOOLEAN
  /\ chunks \in {Chunks, {}} /\ (whole => ~meta) /\ (meta => size > 0)
  /\ pc = "match" /\ from = 0 /\ to = 0 /\ idx = 0 /\ next = 0

Smaller(m, n) == IF m < n THEN m ELSE n

(* Mutant: a suffix is never longer than the file.                          *)
First_Unbounded == IF head.first # NaN THEN head.first ELSE size - head.last

(* parseRange and parseRangeHeader, which are the same.                     *)
First == IF head.first # NaN THEN head.first
         ELSE IF head.last < size THEN size - head.last ELSE 0

Last  == IF head.first # NaN /\ head.last # NaN THEN head.last ELSE size - 1

(* The regular expression is not anchored: of several ranges it takes one.  *)
Parses ==
  /\ head.kind \in {"range", "several"} /\ (head.first # NaN \/ head.last # NaN)
  /\ 0 <= First /\ First <= Last /\ First < size

(* What an answer promises: the range, or the whole file.                   *)
Promise(ranged) ==
  /\ from' = IF ranged THEN First ELSE 0
  /\ to'   = IF ranged THEN Smaller(Last, size - 1) ELSE size - 1
  /\ next' = from'

Ends(how) == pc' = how /\ UNCHANGED <<from, to, idx, next>>

-----------------------------------------------------------------------------
(* The service worker                                                       *)

(* An entry for the URL is there as a whole, and so are its bytes.          *)
Match ==
  /\ pc = "match"
  /\ \/ /\ whole /\ (head.kind = "none" \/ Parses)
        /\ pc' = "done" /\ from' = (IF Parses THEN First ELSE 0)
        /\ to' = (IF Parses THEN Smaller(Last, size - 1) ELSE size - 1)
        /\ next' = to' + 1 /\ UNCHANGED idx
     \/ whole /\ head.kind # "none" /\ ~Parses /\ Ends("refused")
     \/ ~whole /\ Ends("meta")
  /\ UNCHANGED <<size, chunkSize, copies, head>>

(* A range that does not parse is passed over here.  IndexedDB may fail.    *)
ReadMeta ==
  /\ pc = "meta"
  /\ \/ /\ meta /\ Promise(Parses)
        /\ idx' = from' \div chunkSize /\ pc' = "chunk"
     \/ Ends("find")
  /\ UNCHANGED <<size, chunkSize, copies, head>>

ChunkStart == idx * chunkSize
ChunkEnd   == Smaller(ChunkStart + chunkSize, size) - 1

(* Mutant: every chunk is cut where the first one is.                       *)
CutFrom_Always == from % chunkSize

(* Mutant: the last chunk is sent to its end.                               *)
CutTo_Never == ChunkEnd - ChunkStart

(* The part of a chunk that is sent: only the first and the last are cut.   *)
CutFrom == IF idx = from \div chunkSize THEN from - ChunkStart ELSE 0
CutTo   == IF idx = to \div chunkSize THEN to - ChunkStart ELSE ChunkEnd - ChunkStart

(* The piece reaches the player, which takes it for what is expected next.  *)
SendChunk ==
  /\ pc = "chunk"
  /\ \/ /\ idx \in chunks
        /\ next' = IF ChunkStart + CutFrom = next THEN ChunkStart + CutTo + 1 ELSE -1
        /\ idx' = idx + 1
        /\ pc' = IF idx < to \div chunkSize THEN "chunk" ELSE "done"
        /\ UNCHANGED <<from, to>>
     \/ idx \notin chunks /\ Ends("cut")
  /\ UNCHANGED <<size, chunkSize, copies, head>>

-----------------------------------------------------------------------------
(* The server: streamFile, sendCachedFile                                   *)

FindCached ==
  /\ pc = "find"
  /\ Ends(IF cached THEN "stat" ELSE "bookdarr")
  /\ UNCHANGED <<size, chunkSize, copies, head>>

(* The file is there, by its size; stat throws if it is not.                *)
Stat ==
  /\ pc = "stat"
  /\ \/ cached /\ (head.kind = "none" \/ Parses) /\ Promise(Parses) /\ pc' = "open" /\ UNCHANGED idx
     \/ cached /\ head.kind # "none" /\ ~Parses /\ Ends("refused")
     \/ ~cached /\ Ends("failed")
  /\ UNCHANGED <<size, chunkSize, copies, head>>

(* createReadStream: once open, the file can be read to the end even when   *)
(* it is removed; the reading may fail.                                     *)
OpenFile ==
  /\ pc = "open"
  /\ \/ cached /\ next' = to + 1 /\ pc' = "done" /\ UNCHANGED <<from, to, idx>>
     \/ Ends("cut")
  /\ UNCHANGED <<size, chunkSize, copies, head>>

(* RFC 9110: the bytes that a header asks for, if it has one range.         *)
Asked == {i \in 0..(size - 1) :
            IF head.first = NaN THEN head.last # NaN /\ i >= size - head.last
            ELSE head.first <= i /\ (head.last # NaN => i <= head.last)}

(* Bookdarr's answer is passed on, as far as it comes.  To several ranges   *)
(* it may answer with the whole file, and is taken to.                      *)
Bookdarr ==
  /\ pc = "bookdarr"
  /\ \/ /\ \/ /\ head.kind = "range" /\ from' \in Asked /\ to' \in Asked
              /\ Asked \subseteq from'..to'
           \/ head.kind # "range" /\ from' = 0 /\ to' = size - 1
        /\ next' \in from'..(to' + 1)
        /\ pc' = (IF next' = to' + 1 THEN "done" ELSE "cut") /\ UNCHANGED idx
     \/ Asked = {} /\ Ends("refused")
     \/ Ends("failed")
  /\ UNCHANGED <<size, chunkSize, copies, head>>

-----------------------------------------------------------------------------
(* Downloads, returns and clears, of the server and of the device           *)

request == <<size, chunkSize, pc, head, from, to, idx, next>>

ServerCopy == cached' = ~cached /\ UNCHANGED <<whole, meta, chunks>>

(* Metadata come before the chunks, and go before them.                     *)
DeviceCopy ==
  /\ \/ ~meta /\ whole' = ~whole /\ UNCHANGED <<meta, chunks>>
     \/ ~whole /\ size > 0 /\ meta' = ~meta /\ UNCHANGED <<whole, chunks>>
     \/ \E k \in Chunks : chunks' \in {chunks \cup {k}, chunks \ {k}} /\ UNCHANGED <<whole, meta>>
  /\ UNCHANGED cached

Next ==
  \/ Match \/ ReadMeta \/ SendChunk
  \/ FindCached \/ Stat \/ OpenFile \/ Bookdarr
  \/ (ServerCopy \/ DeviceCopy) /\ UNCHANGED request

Spec == Init /\ [][Next]_vars

-----------------------------------------------------------------------------
Answering == {"chunk", "open", "done", "cut"}

TypeOK ==
  /\ size \in Sizes /\ chunkSize \in ChunkSizes /\ head \in Heads
  /\ cached \in BOOLEAN /\ whole \in BOOLEAN /\ meta \in BOOLEAN /\ chunks \subseteq Nat
  /\ pc \in {"match", "meta", "find", "stat", "bookdarr", "refused", "failed"} \cup Answering
  /\ from \in Nat /\ to \in Int /\ idx \in Nat /\ next \in Nat

(* Wherever it comes from, the player gets the bytes that the answer names, *)
(* each once and in order, and all of them unless the answer breaks off:    *)
(* chunks are cut and joined without a gap or a repetition.                 *)
InOrder ==
  /\ pc \in Answering => next \in from..(to + 1)
  /\ pc = "done" => next = to + 1

(* Whoever answers a request for a range answers with exactly the bytes the *)
(* header asks for, so that a player may change over from one to another    *)
(* within a file; and says it cannot only if there are none.                *)
AsAsked ==
  /\ pc \in Answering /\ head.kind = "range" /\ Asked # {} => from..to = Asked
  /\ pc = "refused" /\ head.kind = "range" => Asked = {}
=============================================================================
