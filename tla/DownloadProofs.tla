---------------------------- MODULE DownloadProofs ----------------------------
(***************************************************************************)
(* What the runs of Download check for files of three chunks, for files,   *)
(* versions and attempts of any number: against a server that honours      *)
(* ranges, sends no error pages and replaces its file only while no        *)
(* partial one is around.                                                  *)
(*                                                                         *)
(* The invariant says what each file may hold at each point of a run.  The *)
(* partial file is a beginning of the server's version or, spoiled by the  *)
(* body of a refused range request, longer than it.                        *)
(***************************************************************************)
EXTENDS Download, SequenceTheorems, TLAPS

Chunk == Nat \X Nat

\* The first n chunks of a version, and the others.
Part(v, n) == [i \in 1 .. n |-> <<v, i>>]
Rest(v, n) == [i \in 1 .. Size - n |-> <<v, n + i>>]

Calm == Ranges /\ ~ErrorPages /\ QuietChange

(***************************************************************************)
(* Contents.                                                               *)
(***************************************************************************)

\* The constants, as the proofs need them.
LEMMA SizeType == Size \in Nat /\ Size >= 1 /\ MaxVersion \in Nat /\ MaxVersion >= 1
  BY DownloadAssumption DEF DownloadAssumption

\* A part of a version is a sequence of chunks that grows chunk by chunk to
\* the whole, and that is never taken for a missing file.
LEMMA Parts ==
  ASSUME NEW v \in Nat, NEW n \in Nat
  PROVE  /\ Part(v, n) \in Seq(Chunk) /\ Len(Part(v, n)) = n
         /\ Part(v, 0) = <<>>
         /\ Append(Part(v, n), <<v, n + 1>>) = Part(v, n + 1)
         /\ Part(v, Size) = Whole(v)
  <1>1. Part(v, n) \in Seq(Chunk) /\ Len(Part(v, n)) = n BY DEF Part, Chunk
  <1>2. Part(v, 0) = <<>> BY DEF Part
  <1>3. Append(Part(v, n), <<v, n + 1>>) = Part(v, n + 1) BY DEF Part
  <1>4. Part(v, Size) = Whole(v) BY DEF Part, Whole
  <1> QED BY <1>1, <1>2, <1>3, <1>4

\* The chunks of the rest of a version.
LEMMA RestShape ==
  ASSUME NEW v \in Nat, NEW n \in 0 .. Size
  PROVE  /\ Rest(v, n) \in Seq(Chunk) /\ Len(Rest(v, n)) = Size - n
         /\ \A i \in 1 .. Size - n : Rest(v, n)[i] = <<v, n + i>>
  <1>1. n \in Nat /\ Size - n \in Nat BY SizeType
  <1>2. \A i \in 1 .. Size - n : <<v, n + i>> \in Chunk BY <1>1 DEF Chunk
  <1>3. Rest(v, n) \in Seq(Chunk) /\ Len(Rest(v, n)) = Size - n BY <1>1, <1>2 DEF Rest
  <1>4. \A i \in 1 .. Size - n : Rest(v, n)[i] = <<v, n + i>> BY DEF Rest
  <1> QED BY <1>3, <1>4

\* The rest of a version loses its first chunk when that is received, and is
\* what the range request for it asks for.
LEMMA Rests ==
  ASSUME NEW v \in Nat, NEW n \in 0 .. Size
  PROVE  /\ Rest(v, 0) = Whole(v)
         /\ SubSeq(Whole(v), n + 1, Size) = Rest(v, n)
         /\ Rest(v, n) = <<>> <=> n = Size
         /\ n < Size => Rest(v, n)[1] = <<v, n + 1>> /\ Tail(Rest(v, n)) = Rest(v, n + 1)
  <1>0. n \in Nat /\ Size \in Nat BY SizeType
  <1>1. Rest(v, 0) = Whole(v) BY <1>0 DEF Rest, Whole
  <1>2. SubSeq(Whole(v), n + 1, Size) = Rest(v, n)
    <2>1. ASSUME NEW i \in n + 1 .. Size
          PROVE  Whole(v)[i] = <<v, i>> /\ Whole(v)[i] \in Chunk
      <3>1. i \in 1 .. Size /\ i \in Nat BY <1>0
      <3>2. Whole(v)[i] = <<v, i>> BY <3>1 DEF Whole
      <3> QED BY <3>1, <3>2 DEF Chunk
    <2> DEFINE t == SubSeq(Whole(v), n + 1, Size)
    <2>2. n + 1 \in Int /\ Size \in Int BY <1>0
    <2>3. /\ t \in Seq(Chunk) /\ Len(t) = (IF n + 1 <= Size THEN Size - (n + 1) + 1 ELSE 0)
          /\ \A i \in 1 .. Size - (n + 1) + 1 : t[i] = Whole(v)[n + 1 + i - 1]
      BY <2>1, <2>2, SubSeqProperties
    <2>4. Len(t) = Size - n
      BY <1>0, <2>3
    <2>5. ASSUME NEW i \in 1 .. Size - n
          PROVE  t[i] = <<v, n + i>>
      <3>1. i \in 1 .. Size - (n + 1) + 1 /\ n + 1 + i - 1 = n + i /\ n + i \in n + 1 .. Size
        BY <1>0
      <3> QED BY <2>1, <2>3, <3>1
    <2> HIDE DEF t
    <2>6. Rest(v, n) \in Seq(Chunk) /\ Len(Rest(v, n)) = Size - n
          /\ \A i \in 1 .. Size - n : Rest(v, n)[i] = <<v, n + i>>
      BY RestShape
    <2>7. t = Rest(v, n) BY <2>3, <2>4, <2>5, <2>6, SeqEqual
    <2> QED BY <2>7 DEF t
  <1>3. Rest(v, n) = <<>> <=> n = Size
    <2>1. Rest(v, n) \in Seq(Chunk) /\ Len(Rest(v, n)) = Size - n BY RestShape
    <2>2. Rest(v, n) = <<>> <=> Len(Rest(v, n)) = 0 BY <2>1, EmptySeq
    <2> QED BY <1>0, <2>1, <2>2
  <1>4. ASSUME n < Size
        PROVE  Rest(v, n)[1] = <<v, n + 1>> /\ Tail(Rest(v, n)) = Rest(v, n + 1)
    <2>1. 1 \in 1 .. Size - n /\ n + 1 \in 0 .. Size BY <1>0, <1>4
    <2>2. Rest(v, n)[1] = <<v, n + 1>> BY <2>1, RestShape
    <2> DEFINE t == Tail(Rest(v, n))
    <2>3. Rest(v, n) # <<>> BY <1>0, <1>3, <1>4
    <2>4. t \in Seq(Chunk) /\ Len(t) = Size - n - 1 /\ \A i \in 1 .. Len(t) : t[i] = Rest(v, n)[i + 1]
      BY <2>3, RestShape, HeadTailProperties
    <2>5. \A i \in 1 .. Size - (n + 1) : i + 1 \in 1 .. Size - n /\ n + (i + 1) = n + 1 + i
      BY <1>0
    <2> HIDE DEF t
    <2>6. Len(t) = Size - (n + 1) BY <1>0, <2>4
    <2>7. ASSUME NEW i \in 1 .. Size - (n + 1)
          PROVE  t[i] = <<v, n + 1 + i>>
      <3>1. t[i] = Rest(v, n)[i + 1] BY <2>4, <2>6
      <3>2. Rest(v, n)[i + 1] = <<v, n + (i + 1)>> BY <2>5, RestShape
      <3> QED BY <2>5, <3>1, <3>2
    <2>8. Rest(v, n + 1) \in Seq(Chunk) /\ Len(Rest(v, n + 1)) = Size - (n + 1)
          /\ \A i \in 1 .. Size - (n + 1) : Rest(v, n + 1)[i] = <<v, n + 1 + i>>
      BY <2>1, RestShape
    <2>9. t = Rest(v, n + 1) BY <2>4, <2>6, <2>7, <2>8, SeqEqual
    <2> QED BY <2>2, <2>9 DEF t
  <1> QED BY <1>1, <1>2, <1>3, <1>4

\* Versions differ, and no version is the content of a missing file.
LEMMA Versions ==
  ASSUME NEW v \in Nat, NEW w \in Nat
  PROVE  /\ Whole(v) = Whole(w) => v = w
         /\ v # 0 => Whole(v) # NoFile
  <1> USE SizeType
  <1>1. Whole(v)[1] = <<v, 1>> /\ Whole(w)[1] = <<w, 1>> BY DEF Whole
  <1>2. NoFile[1] = <<0, 1>> BY DEF NoFile
  <1> QED BY <1>1, <1>2

(***************************************************************************)
(* The inductive invariant.                                                *)
(***************************************************************************)

Replacing == {"removeNoRange", "removeTmp", "removePath"}
Fetching  == {"writeTag", "open", "pull", "retry", "status", "rename"}

Kinds ==
  /\ server \in 1 .. MaxVersion
  /\ etag \in 0 .. server /\ oldTag \in 0 .. server /\ headTag \in 0 .. server
  /\ pc \in PC /\ existed \in BOOLEAN /\ head \in BOOLEAN /\ scratch \in BOOLEAN
  /\ status \in {200, 206, 416}

\* What the run knows: the etag of a HEAD answer, if there is one, is the
\* server's, the cached file and its etag are as they were read; a file that is
\* to be replaced is outdated or the answer had no etag, and nothing is fetched
\* while one is there.
Known ==
  /\ head => pc # "idle" /\ headTag \in {server, NoTag}
  /\ pc \in {"head", "decide"} => (existed <=> path # NoFile)
  /\ pc \in {"head", "decide"} /\ existed => oldTag = etag
  /\ pc \in Replacing /\ path # NoFile
     => scratch /\ (etag # server \/ (head /\ headTag = NoTag))
  /\ pc \in Fetching => path = NoFile

Cached ==
  /\ path = NoFile \/ \E v \in 1 .. server : path = Whole(v)
  /\ FreshTrusted

Partial ==
  /\ tmp \in Seq(Chunk)
  /\ tmp = NoFile \/ (\E n \in 0 .. Size : tmp = Part(server, n)) \/ Len(tmp) > Size
  /\ pc = "pull" =>
       \/ /\ status \in {200, 206}
          /\ \E n \in 0 .. Size : tmp = Part(server, n) /\ body = Rest(server, n)
       \/ /\ status = 416 /\ Len(tmp) >= Size
          /\ body \in {<<ErrorChunk>>, <<>>}
  /\ pc = "status" /\ status \in {200, 206} => tmp = Whole(server)
  /\ pc = "rename" => tmp = Whole(server)

IInv == Kinds /\ Known /\ Cached /\ Partial

\* A missing file has a content of its own.
LEMMA Paths ==
  /\ NoFile \in Seq(Chunk) /\ Len(NoFile) = 1 /\ NoFile # <<>>
  /\ \A v \in Nat \ {0}, n \in Nat : Part(v, n) # NoFile
  <1>1. NoFile \in Seq(Chunk) /\ Len(NoFile) = 1 /\ NoFile[1] = <<0, 1>> BY DEF NoFile, Chunk
  <1>2. ASSUME NEW v \in Nat \ {0}, NEW n \in Nat PROVE Part(v, n) # NoFile
    <2>1. CASE n = 0
      <3>1. Len(Part(v, n)) = 0 BY <2>1, Parts
      <3> QED BY <1>1, <3>1
    <2>2. CASE n # 0
      <3>1. 1 \in 1 .. n BY <2>2
      <3>2. Part(v, n)[1] = <<v, 1>> BY <3>1 DEF Part
      <3> QED BY <1>1, <3>2
    <2> QED BY <2>1, <2>2
  <1>3. NoFile # <<>> BY <1>1
  <1> QED BY <1>1, <1>2, <1>3

\* The invariant holds at the start.
LEMMA InitInv == Init => IInv
  <1> SUFFICES ASSUME Init PROVE IInv OBVIOUS
  <1>1. Kinds
    <2>1. server \in 1 .. MaxVersion /\ etag \in 0 .. server /\ oldTag \in 0 .. server /\ headTag \in 0 .. server
      BY SizeType DEF Init, NoTag
    <2> QED BY <2>1 DEF Init, Kinds, PC
  <1>2. Known BY DEF Init, Known, Replacing, Fetching
  <1>3. Cached BY DEF Init, Cached, FreshTrusted
  <1>4. Partial BY Paths DEF Init, Partial
  <1> QED BY <1>1, <1>2, <1>3, <1>4 DEF IInv

\* A run that ends leaves the files as they are and forgets what it knew.
LEMMA Ended ==
  ASSUME IInv, NEW r, End(r), UNCHANGED <<server, files>>
  PROVE  IInv'
  <1> USE DEF IInv, End, files
  <1>1. Kinds'
    <2>1. server' = server /\ etag' = etag /\ oldTag' = 0 /\ headTag' = 0 BY DEF NoTag
    <2>2. server \in Nat /\ 0 \in 0 .. server BY SizeType DEF Kinds
    <2> QED BY <2>1, <2>2 DEF Kinds, PC
  <1>2. Known' BY DEF Known, Replacing, Fetching
  <1>3. Cached' BY DEF Cached, FreshTrusted
  <1>4. Partial' BY DEF Partial
  <1> QED BY <1>1, <1>2, <1>3, <1>4

\* A new version is unknown to every etag, and no partial file is left to be
\* continued with it.
LEMMA NewVersionInv ==
  ASSUME Calm, IInv, NewVersion
  PROVE  IInv'
  <1> USE DEF IInv, NewVersion, files, locals
  <1>1. Kinds' BY SizeType DEF Kinds, PC
  <1>2. Known' BY SizeType DEF Calm, Kinds, Known, Replacing, Fetching
  <1>3. Cached' BY SizeType DEF Kinds, Known, Cached, FreshTrusted, Replacing, Fetching, Calm
  <1>4. Partial' BY SizeType, Parts DEF Kinds, Partial, Calm
  <1> QED BY <1>1, <1>2, <1>3, <1>4

\* A run starts with nothing known.
LEMMA StartRunInv ==
  ASSUME Calm, IInv, StartRun
  PROVE  IInv'
  <1> USE DEF IInv, StartRun, files, locals
  <1>1. Kinds' BY SizeType DEF Kinds, PC
  <1>2. Known' BY SizeType DEF Kinds, Known, Replacing, Fetching
  <1>3. Cached' BY SizeType DEF Kinds, Known, Cached, FreshTrusted, Replacing, Fetching
  <1>4. Partial' BY SizeType, Parts DEF Kinds, Partial
  <1> QED BY <1>1, <1>2, <1>3, <1>4

\* The run knows the cached file and its etag.
LEMMA ReadLocalInv ==
  ASSUME Calm, IInv, ReadLocal
  PROVE  IInv'
  <1> USE DEF IInv, ReadLocal, files, locals
  <1>1. Kinds' BY SizeType DEF Kinds, PC, NoTag
  <1>2. Known' BY SizeType DEF Kinds, Known, Replacing, Fetching
  <1>3. Cached' BY SizeType DEF Kinds, Known, Cached, FreshTrusted, Replacing, Fetching
  <1>4. Partial' BY SizeType, Parts DEF Kinds, Partial
  <1> QED BY <1>1, <1>2, <1>3, <1>4

\* A HEAD answer has the etag of the server or none.
LEMMA HeadRequestInv ==
  ASSUME Calm, IInv, HeadRequest
  PROVE  IInv'
  <1> USE DEF IInv, HeadRequest, files, locals
  <1>1. Kinds' BY SizeType DEF Kinds, PC, NoTag
  <1>2. Known' BY SizeType DEF Kinds, Known, Replacing, Fetching
  <1>3. Cached' BY SizeType DEF Kinds, Known, Cached, FreshTrusted, Replacing, Fetching
  <1>4. Partial' BY SizeType, Parts DEF Kinds, Partial
  <1> QED BY <1>1, <1>2, <1>3, <1>4

\* A file that is replaced is outdated or the answer had no etag: the run
\* downloads although one exists only if the etags differ.
LEMMA DecideInv ==
  ASSUME Calm, IInv, Decide
  PROVE  IInv'
  <1> USE DEF IInv, Decide, files, locals
  <1>1. Kinds'
    <2>1. pc' \in PC BY DEF PC
    <2>2. scratch' \in BOOLEAN BY DEF Newer, Kinds
    <2> QED BY <2>1, <2>2 DEF Kinds
  <1>2. Known' BY SizeType DEF Kinds, Known, Replacing, Fetching, Newer, Calm
  <1>3. Cached' BY SizeType DEF Kinds, Known, Cached, FreshTrusted, Replacing, Fetching
  <1>4. Partial' BY SizeType, Parts DEF Kinds, Partial
  <1> QED BY <1>1, <1>2, <1>3, <1>4

\* The old file is removed before anything is fetched.
LEMMA RemoveNoRangeInv ==
  ASSUME Calm, IInv, RemoveNoRange
  PROVE  IInv'
  <1> USE DEF IInv, RemoveNoRange, files, locals
  <1>1. Kinds' BY SizeType DEF Kinds, PC
  <1>2. Known' BY SizeType DEF Kinds, Known, Replacing, Fetching
  <1>3. Cached' BY SizeType DEF Kinds, Known, Cached, FreshTrusted, Replacing, Fetching
  <1>4. Partial' BY SizeType, Parts DEF Kinds, Partial
  <1> QED BY <1>1, <1>2, <1>3, <1>4

\* A partial file is dropped.
LEMMA RemoveTmpInv ==
  ASSUME Calm, IInv, RemoveTmp
  PROVE  IInv'
  <1> USE DEF IInv, RemoveTmp, files, locals
  <1>1. Kinds' BY SizeType DEF Kinds, PC
  <1>2. Known' BY SizeType DEF Kinds, Known, Replacing, Fetching
  <1>3. Cached' BY SizeType DEF Kinds, Known, Cached, FreshTrusted, Replacing, Fetching
  <1>4. Partial' BY Paths DEF Kinds, Partial
  <1> QED BY <1>1, <1>2, <1>3, <1>4

\* After this no cached file is left.
LEMMA RemovePathInv ==
  ASSUME Calm, IInv, RemovePath
  PROVE  IInv'
  <1> USE DEF IInv, RemovePath, files, locals
  <1>1. Kinds' BY SizeType DEF Kinds, PC
  <1>2. Known' BY SizeType DEF Kinds, Known, Replacing, Fetching
  <1>3. Cached' BY SizeType DEF Kinds, Known, Cached, FreshTrusted, Replacing, Fetching
  <1>4. Partial' BY SizeType, Parts DEF Kinds, Partial
  <1> QED BY <1>1, <1>2, <1>3, <1>4

\* The new etag is written while no cached file is there.
LEMMA WriteTagInv ==
  ASSUME Calm, IInv, WriteTag
  PROVE  IInv'
  <1> USE DEF IInv, WriteTag, files, locals
  <1>1. Kinds' BY SizeType DEF Kinds, PC
  <1>2. Known' BY SizeType DEF Kinds, Known, Replacing, Fetching
  <1>3. Cached' BY SizeType DEF Kinds, Known, Cached, FreshTrusted, Replacing, Fetching
  <1>4. Partial' BY SizeType, Parts DEF Kinds, Partial
  <1> QED BY <1>1, <1>2, <1>3, <1>4

\* When a good body has ended, the partial file is the whole version.
LEMMA PullDoneInv ==
  ASSUME Calm, IInv, PullDone
  PROVE  IInv'
  <1> USE DEF IInv, PullDone, files, locals
  <1>1. Kinds' BY SizeType DEF Kinds, PC
  <1>2. Known' BY SizeType DEF Kinds, Known, Replacing, Fetching
  <1>3. Cached' BY SizeType DEF Kinds, Known, Cached, FreshTrusted, Replacing, Fetching
  <1>4. status \in {200, 206} => tmp = Whole(server)
    <2> SUFFICES ASSUME status \in {200, 206} PROVE tmp = Whole(server) OBVIOUS
    <2>1. PICK n \in 0 .. Size : tmp = Part(server, n) /\ body = Rest(server, n) BY DEF Partial
    <2>2. server \in Nat BY SizeType DEF Kinds
    <2>3. n = Size BY <2>1, <2>2, Rests
    <2> QED BY <2>1, <2>2, <2>3, SizeType, Parts
  <1>5. Partial' BY <1>4 DEF Partial
  <1> QED BY <1>1, <1>2, <1>3, <1>5

\* A download that breaks off leaves a beginning of the version.
LEMMA PullBreaksInv ==
  ASSUME Calm, IInv, PullBreaks
  PROVE  IInv'
  <1> USE DEF IInv, PullBreaks, files, locals
  <1>1. Kinds' BY SizeType DEF Kinds, PC
  <1>2. Known' BY SizeType DEF Kinds, Known, Replacing, Fetching
  <1>3. Cached' BY SizeType DEF Kinds, Known, Cached, FreshTrusted, Replacing, Fetching
  <1>4. Partial' BY SizeType, Parts DEF Kinds, Partial
  <1> QED BY <1>1, <1>2, <1>3, <1>4


\* The steps that only end the run.
LEMMA EndingsInv ==
  ASSUME IInv, Crash \/ UseCached \/ FileOpFails
  PROVE  IInv'
  <1>1. CASE Crash BY <1>1, Ended DEF Crash
  <1>2. CASE UseCached BY <1>2, Ended DEF UseCached
  <1>3. CASE FileOpFails BY <1>3, Ended DEF FileOpFails
  <1> QED BY <1>1, <1>2, <1>3

\* The next attempt starts as the first one did.
LEMMA RetryInv ==
  ASSUME Calm, IInv, Retry
  PROVE  IInv'
  <1>1. CASE attempt + 1 < MaxAttempts
    <2> USE <1>1 DEF IInv, Retry, files, locals
    <2>1. Kinds'
      <3>1. server' = server /\ etag' = etag /\ oldTag' = 0 /\ headTag' = 0 BY DEF NoTag
      <3>2. server \in Nat /\ 0 \in 0 .. server BY SizeType DEF Kinds
      <3> QED BY <3>1, <3>2 DEF Kinds, PC
    <2>2. Known' BY DEF Known, Replacing, Fetching
    <2>3. Cached' BY DEF Cached, FreshTrusted
    <2>4. Partial' BY DEF Partial
    <2> QED BY <2>1, <2>2, <2>3, <2>4
  <1>2. CASE ~(attempt + 1 < MaxAttempts) BY <1>2, Ended DEF Retry
  <1> QED BY <1>1, <1>2

\* Only a good status lets the partial file be renamed.
LEMMA CheckStatusInv ==
  ASSUME Calm, IInv, CheckStatus
  PROVE  IInv'
  <1>1. CASE status >= 400 BY <1>1, Ended DEF CheckStatus
  <1>2. CASE ~(status >= 400)
    <2> USE <1>2 DEF IInv, CheckStatus, files, locals
    <2>1. Kinds' BY DEF Kinds, PC
    <2>2. Known' BY DEF Known, Replacing, Fetching
    <2>3. Cached' BY DEF Cached, FreshTrusted
    <2>4. status \in {200, 206} BY DEF Kinds
    <2>5. Partial' BY <2>4 DEF Partial
    <2> QED BY <2>1, <2>2, <2>3, <2>5
  <1> QED BY <1>1, <1>2

\* The request fits the partial file: the parts join to the whole version, or
\* the range is refused because nothing is left to send.
LEMMA OpenTmpInv ==
  ASSUME Calm, IInv, OpenTmp
  PROVE  IInv'
  <1> DEFINE from == IF tmp = NoFile THEN 0 ELSE Len(tmp)
  <1>1. /\ tmp' = IF tmp = NoFile THEN <<>> ELSE tmp
        /\ pc' = "pull"
        /\ UNCHANGED <<server, path, etag, existed, oldTag, head, headTag, scratch>>
    BY DEF OpenTmp
  <1>2. \/ from > 0 /\ from < Size /\ body' = SubSeq(Whole(server), from + 1, Size) /\ status' = 206
        \/ from >= Size /\ body' = <<ErrorChunk>> /\ status' = 416
        \/ from = 0 /\ body' = Whole(server) /\ status' = 200
    BY DEF OpenTmp, Calm
  <1>3. server \in Nat \ {0} /\ tmp \in Seq(Chunk) /\ Len(tmp) \in Nat
    BY SizeType, LenProperties DEF IInv, Kinds, Partial
  <1>4. Size \in Nat /\ Size >= 1 /\ from \in Nat BY <1>3, SizeType
  <1>5. tmp' \in Seq(Chunk) BY <1>1, <1>3
  <1>6. ASSUME Len(tmp) > Size PROVE Partial'
    <2>1. tmp # NoFile /\ from = Len(tmp) /\ tmp' = tmp
      <3>1. Len(NoFile) = 1 BY Paths
      <3>2. tmp # NoFile
        <4>1. SUFFICES ASSUME tmp = NoFile PROVE FALSE OBVIOUS
        <4>2. Len(tmp) = 1 BY <3>1, <4>1
        <4> QED BY <1>6, <4>2, SizeType
      <3> QED BY <1>1, <3>2
    <2>2. body' = <<ErrorChunk>> /\ status' = 416 /\ Len(tmp) >= Size
      <3> HIDE DEF from
      <3> QED BY <2>1, <1>2, <1>3, <1>4, <1>6
    <2> QED BY <1>1, <1>5, <1>6, <2>1, <2>2 DEF Partial
  <1>7. ASSUME ~(Len(tmp) > Size) PROVE Partial'
    <2>1. PICK n \in 0 .. Size : tmp' = Part(server, n) /\ n = from
      <3>1. CASE tmp = NoFile BY <3>1, <1>1, <1>3, <1>4, Parts
      <3>2. CASE tmp # NoFile
        <4>1. PICK n \in 0 .. Size : tmp = Part(server, n) BY <1>7, <3>2 DEF IInv, Partial
        <4>2. n \in Nat BY <1>4
        <4>3. Len(tmp) = n BY <4>1, <4>2, <1>3, Parts
        <4> QED BY <4>1, <4>3, <3>2, <1>1
      <3> QED BY <3>1, <3>2
    <2> HIDE DEF from
    <2>2. CASE n = Size
      <3>1. body' = <<ErrorChunk>> /\ status' = 416 BY <1>2, <1>4, <2>1, <2>2
      <3>2. Len(tmp') = n BY <1>3, <1>4, <2>1, <2>2, Parts
      <3>3. Len(tmp') >= Size BY <1>4, <2>2, <3>2
      <3> QED BY <1>1, <1>5, <2>1, <3>1, <3>3 DEF Partial
    <2>3. CASE n # Size
      <3>1. n \in Nat /\ ~(n >= Size) BY <1>4, <2>1, <2>3
      <3>2. body' = Rest(server, n) /\ status' \in {200, 206}
        <4>1. CASE n = 0 BY <1>2, <1>3, <2>1, <3>1, <4>1, Rests
        <4>2. CASE n # 0 BY <1>2, <1>3, <2>1, <3>1, <4>2, Rests
        <4> QED BY <4>1, <4>2
      <3> QED BY <1>1, <1>5, <2>1, <3>2 DEF Partial
    <2> QED BY <2>2, <2>3
  <1>8. status' \in {200, 206, 416} BY <1>2
  <1>9. Kinds' BY <1>1, <1>8 DEF IInv, Kinds, PC
  <1>10. Known' BY <1>1 DEF IInv, Known, Replacing, Fetching, OpenTmp
  <1>11. Cached' BY <1>1 DEF IInv, Cached, FreshTrusted
  <1>12. Partial' BY <1>6, <1>7
  <1> QED BY <1>9, <1>10, <1>11, <1>12 DEF IInv

\* A chunk of the rest of the version is the next one of the part; the body of
\* a refused request makes the partial file too long for ever.
LEMMA ReceiveInv ==
  ASSUME Calm, IInv, Receive
  PROVE  IInv'
  <1> USE DEF IInv, Receive, files
  <1>1. Kinds' BY DEF Kinds
  <1>2. Known' BY DEF Known, Replacing, Fetching
  <1>3. Cached' BY DEF Cached, FreshTrusted
  <1>4. server \in Nat \ {0} /\ tmp \in Seq(Chunk) /\ Len(tmp) \in Nat
    BY SizeType, LenProperties DEF Kinds, Partial
  <1>5. CASE status \in {200, 206}
    <2>1. PICK n \in 0 .. Size : tmp = Part(server, n) /\ body = Rest(server, n)
      BY <1>5 DEF Partial
    <2>2. n \in Nat /\ n < Size /\ n + 1 \in 0 .. Size BY <1>4, <2>1, Rests, SizeType
    <2>3. body[1] = <<server, n + 1>> /\ body' = Rest(server, n + 1) BY <1>4, <2>1, <2>2, Rests
    <2>4. tmp' = Part(server, n + 1) BY <1>4, <2>1, <2>2, <2>3, Parts
    <2>5. tmp' \in Seq(Chunk) BY <1>4, <2>2, <2>4, Parts
    <2>6. server' = server /\ pc' = "pull" /\ status' = status OBVIOUS
    <2>7. Partial'
      <3> HIDE DEF Receive, IInv
      <3> QED BY <1>5, <2>2, <2>3, <2>4, <2>5, <2>6 DEF Partial
    <2> QED BY <1>1, <1>2, <1>3, <2>7
  <1>6. CASE status = 416
    <2>1. Len(tmp) >= Size /\ body = <<ErrorChunk>> BY <1>6 DEF Partial
    <2>2. body[1] = ErrorChunk /\ Tail(body) = <<>> BY <2>1
    <2>3. ErrorChunk \in Chunk BY DEF ErrorChunk, Chunk
    <2>4. tmp' \in Seq(Chunk) /\ Len(tmp') = Len(tmp) + 1 BY <1>4, <2>2, <2>3, AppendProperties
    <2>5. Len(tmp') > Size BY <1>4, <2>1, <2>4, SizeType
    <2>6. pc' = "pull" /\ status' = status /\ body' = <<>> BY <2>2
    <2>7. Len(tmp') >= Size BY <2>5, <2>4, <1>4, SizeType
    <2>8. Partial' BY <1>6, <2>4, <2>5, <2>6, <2>7 DEF Partial
    <2> QED BY <1>1, <1>2, <1>3, <2>8
  <1> QED BY <1>5, <1>6 DEF Kinds

\* The partial file that is renamed is the version of the server.
LEMMA RenameInv ==
  ASSUME Calm, IInv, Rename
  PROVE  IInv'
  <1> USE DEF IInv, Rename, End
  <1>1. Kinds'
    <2>1. server' = server /\ etag' = etag /\ oldTag' = 0 /\ headTag' = 0 BY DEF NoTag
    <2>2. server \in Nat /\ 0 \in 0 .. server BY SizeType DEF Kinds
    <2> QED BY <2>1, <2>2 DEF Kinds, PC
  <1>2. Known' BY DEF Known, Replacing, Fetching
  <1>3. path' = Whole(server) /\ server' = server /\ server \in 1 .. server
    BY SizeType DEF Partial, Kinds
  <1>4. Cached' BY <1>3 DEF Cached, FreshTrusted
  <1>5. Partial' BY Paths DEF Partial
  <1> QED BY <1>1, <1>2, <1>4, <1>5

(***************************************************************************)
(* The theorems.                                                           *)
(***************************************************************************)

\* Every step keeps the invariant.
LEMMA StepInv ==
  ASSUME Calm, IInv, [Next]_vars
  PROVE  IInv'
  <1>1. CASE Crash \/ UseCached \/ FileOpFails BY <1>1, EndingsInv
  <1>2. CASE NewVersion \/ StartRun BY <1>2, NewVersionInv, StartRunInv
  <1>3. CASE ReadLocal \/ HeadRequest \/ Decide BY <1>3, ReadLocalInv, HeadRequestInv, DecideInv
  <1>4. CASE RemoveNoRange \/ RemoveTmp \/ RemovePath
    BY <1>4, RemoveNoRangeInv, RemoveTmpInv, RemovePathInv
  <1>5. CASE WriteTag \/ OpenTmp \/ Receive BY <1>5, WriteTagInv, OpenTmpInv, ReceiveInv
  <1>6. CASE PullDone \/ PullBreaks \/ Retry BY <1>6, PullDoneInv, PullBreaksInv, RetryInv
  <1>7. CASE CheckStatus \/ Rename BY <1>7, CheckStatusInv, RenameInv
  <1>8. CASE UNCHANGED vars
    BY <1>8 DEF vars, files, locals, IInv, Kinds, Known, Cached, FreshTrusted, Partial
  <1> QED BY <1>1, <1>2, <1>3, <1>4, <1>5, <1>6, <1>7, <1>8 DEF Next

\* The invariant holds always.
LEMMA Invariance ==
  ASSUME Calm
  PROVE  Spec => []IInv
  <1>1. IInv /\ [Next]_vars => IInv' BY StepInv
  <1> QED BY InitInv, <1>1, PTL DEF Spec

\* Whatever broke off, was killed or was resumed, the model's file is one whole
\* version (common_pull_file's range requests, append mode and final rename).
THEOREM FileWholeAlways ==
  ASSUME Calm
  PROVE  Spec => []FileWhole
  <1>1. IInv => FileWhole
    <2> SUFFICES ASSUME IInv, path # NoFile PROVE \E v \in 1 .. MaxVersion : path = Whole(v)
      BY DEF FileWhole
    <2>1. PICK v \in 1 .. server : path = Whole(v) BY DEF IInv, Cached
    <2>2. v \in 1 .. MaxVersion BY SizeType DEF IInv, Kinds
    <2> QED BY <2>1, <2>2
  <1> QED BY Invariance, <1>1, PTL

\* A crash never leaves the server's etag beside an older file (the order of
\* remove, write_etag and rename in common_download_file_single_online).
THEOREM FreshTrustedAlways ==
  ASSUME Calm
  PROVE  Spec => []FreshTrusted
  <1>1. IInv => FreshTrusted BY DEF IInv, Cached
  <1> QED BY Invariance, <1>1, PTL

\* The file of the server's version, with its etag, is removed only after a HEAD
\* answer without an etag, which common_download_file_single_online takes for
\* another version; no failure or kill costs it.
THEOREM DeleteOnlyOutdatedAlways ==
  ASSUME Calm
  PROVE  Spec => DeleteOnlyOutdated
  <1>1. ASSUME IInv, [Next]_vars, path = Whole(server), etag = server, path' = NoFile
        PROVE  head /\ headTag = NoTag
    <2>1. server \in Nat \ {0} BY <1>1, SizeType DEF IInv, Kinds
    <2>2. path # NoFile BY <1>1, <2>1, Versions
    <2>3. CASE path' = path BY <1>1, <2>2, <2>3
    <2>4. CASE RemoveNoRange \/ RemovePath
      BY <1>1, <2>2, <2>4 DEF IInv, Known, Replacing, RemoveNoRange, RemovePath
    <2>5. CASE Rename
      <3>1. path' = Whole(server) BY <1>1, <2>5 DEF IInv, Partial, Rename
      <3>2. path' # NoFile BY <2>1, <3>1, Versions
      <3> QED BY <1>1, <3>2
    <2> QED
      BY <1>1, <2>3, <2>4, <2>5 DEF Next, vars, files, NewVersion, StartRun, Crash, ReadLocal,
         HeadRequest, UseCached, Decide, RemoveTmp, FileOpFails, WriteTag, OpenTmp, Receive,
         PullDone, PullBreaks, Retry, CheckStatus
  <1>2. IInv /\ [Next]_vars
        => [path = Whole(server) /\ etag = server /\ path' = NoFile
            => head /\ headTag = NoTag]_vars
    BY <1>1
  <1> QED BY Invariance, <1>2, PTL DEF Spec, DeleteOnlyOutdated

===============================================================================
