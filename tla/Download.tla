------------------------------- MODULE Download -------------------------------
(***************************************************************************)
(* The download of one model file, common/download.cpp with libcurl (the   *)
(* default build): a cached file, its .etag file and its partial           *)
(* .downloadInProgress file, three attempts per run, resuming with a range *)
(* request, and runs that may be killed between any two file operations.   *)
(*                                                                         *)
(* Contents are sequences of chunks <<version, index>>; the body of an     *)
(* error response is a chunk of its own.  write_file makes a .etag appear  *)
(* at once (it renames a temporary file), so writing it is one step.       *)
(***************************************************************************)
EXTENDS Naturals, Sequences

CONSTANTS Size,         \* chunks of a version
          MaxAttempts,  \* max_attempts
          Ranges,       \* does the server honour range requests
          ErrorPages,   \* may a GET be answered with an error status and a body
          QuietChange,  \* the server's file changes only between runs that
                        \* left no partial file
          MaxVersion,   \* bound: versions of the file on the server
          MaxRuns       \* bound: runs of the program

ASSUME DownloadAssumption ==
  /\ Size \in Nat \ {0} /\ MaxAttempts \in Nat \ {0}
  /\ MaxVersion \in Nat \ {0} /\ MaxRuns \in Nat
  /\ {Ranges, ErrorPages, QuietChange} \subseteq BOOLEAN

NoFile == << <<0, 1>> >>   \* a path that does not exist: there is no version 0
NoTag == 0                 \* no .etag file, an empty etag
ErrorChunk == <<0, 0>>

Whole(v) == [i \in 1 .. Size |-> <<v, i>>]

VARIABLES server,                \* the version the server has
          path, etag, tmp,       \* the three files
          pc, attempt,           \* the run: where it is, which attempt
          existed, oldTag,       \* file_exists, the etag read
          head, headTag,         \* head_request_ok, headers.etag
          scratch,               \* should_download_from_scratch
          body, status,          \* what the GET still has to deliver
          result,                \* what the last run returned
          runs                   \* bound

files == <<path, etag, tmp>>
locals == <<attempt, existed, oldTag, head, headTag, scratch, body, status>>
vars == <<server, files, pc, locals, result, runs>>

PC == {"idle", "local", "head", "decide", "removeNoRange", "removeTmp", "removePath",
       "writeTag", "open", "pull", "retry", "status", "rename"}

TypeOK ==
  /\ server \in 1 .. MaxVersion
  /\ etag \in 0 .. MaxVersion /\ oldTag \in 0 .. MaxVersion /\ headTag \in 0 .. MaxVersion
  /\ path = NoFile \/ \A i \in 1 .. Len(path) : path[i] \in (0 .. MaxVersion) \X (0 .. Size)
  /\ tmp = NoFile \/ \A i \in 1 .. Len(tmp) : tmp[i] \in (0 .. MaxVersion) \X (0 .. Size)
  /\ pc \in PC /\ attempt \in 0 .. MaxAttempts - 1
  /\ {existed, head, scratch} \subseteq BOOLEAN
  /\ Len(body) <= Size /\ status \in {200, 206, 404, 416}
  /\ result \in {"none", "true", "false", "killed"}
  /\ runs \in 0 .. MaxRuns

Init ==
  /\ server = 1 /\ path = NoFile /\ etag = NoTag /\ tmp = NoFile
  /\ pc = "idle" /\ attempt = 0 /\ existed = FALSE /\ oldTag = NoTag
  /\ head = FALSE /\ headTag = NoTag /\ scratch = FALSE /\ body = <<>> /\ status = 200
  /\ result = "none" /\ runs = 0

\* The end of a run: its local variables are gone.
End(r) ==
  /\ pc' = "idle" /\ result' = r
  /\ attempt' = 0 /\ existed' = FALSE /\ oldTag' = NoTag
  /\ head' = FALSE /\ headTag' = NoTag /\ scratch' = FALSE /\ body' = <<>> /\ status' = 200

(***************************************************************************)
(* The environment.                                                        *)
(***************************************************************************)

\* A new version is published.
NewVersion ==
  /\ server < MaxVersion
  /\ QuietChange => pc = "idle" /\ tmp = NoFile
  /\ server' = server + 1
  /\ UNCHANGED <<files, pc, locals, result, runs>>

StartRun ==
  /\ pc = "idle" /\ runs < MaxRuns
  /\ runs' = runs + 1 /\ pc' = "local"
  /\ UNCHANGED <<server, files, locals, result>>

\* The process is killed; what has been written stays.
Crash ==
  /\ pc # "idle"
  /\ End("killed")
  /\ UNCHANGED <<server, files, runs>>

(***************************************************************************)
(* One attempt of common_download_file_single_online.                      *)
(***************************************************************************)

ReadLocal ==
  /\ pc = "local"
  /\ existed' = (path # NoFile)
  /\ oldTag' = IF path # NoFile THEN etag ELSE NoTag
  /\ pc' = "head"
  /\ UNCHANGED <<server, files, attempt, head, headTag, scratch, body, status, result, runs>>

\* The HEAD request counts as a success as soon as its status is 200, even if
\* the answer has no etag or breaks off before it.
HeadRequest ==
  /\ pc = "head"
  /\ \E ok, tagged \in BOOLEAN :
       /\ head' = ok
       /\ headTag' = IF ok /\ tagged THEN server ELSE NoTag
  /\ pc' = "decide"
  /\ UNCHANGED <<server, files, attempt, existed, oldTag, scratch, body, status, result, runs>>

\* Mutant: a HEAD request that failed counts as another etag.
NewerBlind == oldTag # NoTag /\ oldTag # headTag

\* Does the etag of the answer, which may be none, differ from the stored one?
Newer == head /\ oldTag # NoTag /\ oldTag # headTag

UseCached ==
  /\ pc = "decide" /\ existed /\ ~Newer
  /\ End("true")
  /\ UNCHANGED <<server, files, runs>>

\* A file that is replaced is removed here if the server does not announce range
\* support, which it may fail to do although it has it.
Decide ==
  /\ pc = "decide" /\ (~existed \/ Newer)
  /\ scratch' = Newer
  /\ \E advertised \in IF Ranges THEN BOOLEAN ELSE {FALSE} :
       pc' = IF existed /\ ~advertised THEN "removeNoRange" ELSE "removeTmp"
  /\ UNCHANGED <<server, files, attempt, existed, oldTag, head, headTag, body, status, result, runs>>

\* remove() or rename() fails: the run returns false.  (There is never a partial
\* file beside a file that is replaced, so its removal has nothing to fail on.)
FileOpFails ==
  /\ \/ pc \in {"removeNoRange", "rename"}
     \/ pc = "removePath" /\ scratch /\ path # NoFile
  /\ End("false")
  /\ UNCHANGED <<server, files, runs>>

RemoveNoRange ==
  /\ pc = "removeNoRange"
  /\ path' = NoFile
  /\ pc' = "removeTmp"
  /\ UNCHANGED <<server, etag, tmp, locals, result, runs>>

RemoveTmp ==
  /\ pc = "removeTmp"
  /\ tmp' = IF scratch THEN NoFile ELSE tmp
  /\ pc' = "removePath"
  /\ UNCHANGED <<server, path, etag, locals, result, runs>>

\* Mutant: the old file is kept until it is replaced.
RemovePathNot ==
  /\ pc = "removePath"
  /\ pc' = "writeTag"
  /\ UNCHANGED <<server, files, locals, result, runs>>

RemovePath ==
  /\ pc = "removePath"
  /\ path' = IF scratch THEN NoFile ELSE path
  /\ pc' = "writeTag"
  /\ UNCHANGED <<server, etag, tmp, locals, result, runs>>

WriteTag ==
  /\ pc = "writeTag"
  /\ etag' = IF head THEN headTag ELSE etag
  /\ pc' = "open"
  /\ UNCHANGED <<server, path, tmp, locals, result, runs>>

\* common_pull_file: a partial file is resumed from its size, always in append
\* mode, and the server answers.  Without range support, and for an empty
\* partial file, it sends everything.
OpenTmp ==
  /\ pc = "open"
  /\ LET from == IF tmp = NoFile THEN 0 ELSE Len(tmp)
     IN \/ /\ Ranges /\ from > 0 /\ from < Size
           /\ body' = SubSeq(Whole(server), from + 1, Size) /\ status' = 206
        \/ /\ Ranges /\ from >= Size
           /\ body' = <<ErrorChunk>> /\ status' = 416
        \/ /\ from = 0 \/ ~Ranges
           /\ body' = Whole(server) /\ status' = 200
        \/ /\ ErrorPages
           /\ body' = <<ErrorChunk>> /\ status' = 404
  /\ tmp' = IF tmp = NoFile THEN <<>> ELSE tmp
  /\ pc' = "pull"
  /\ UNCHANGED <<server, path, etag, attempt, existed, oldTag, head, headTag, scratch, result, runs>>

\* A chunk arrives and is appended.
Receive ==
  /\ pc = "pull" /\ body # <<>>
  /\ tmp' = Append(tmp, body[1]) /\ body' = Tail(body)
  /\ UNCHANGED <<server, path, etag, pc, attempt, existed, oldTag, head, headTag, scratch, status,
                 result, runs>>

PullDone ==
  /\ pc = "pull" /\ body = <<>>
  /\ pc' = "status"
  /\ UNCHANGED <<server, files, locals, result, runs>>

\* Mutant: a broken connection is taken for the end of the file.
PullBreaksUnseen ==
  /\ pc = "pull"
  /\ pc' = "status"
  /\ UNCHANGED <<server, files, locals, result, runs>>

\* The connection breaks.
PullBreaks ==
  /\ pc = "pull"
  /\ pc' = "retry"
  /\ UNCHANGED <<server, files, locals, result, runs>>

\* Try again; after the last attempt the loop ends and the function returns
\* true.
Retry ==
  /\ pc = "retry"
  /\ IF attempt + 1 < MaxAttempts
     THEN /\ attempt' = attempt + 1 /\ pc' = "local"
          /\ existed' = FALSE /\ oldTag' = NoTag
          /\ head' = FALSE /\ headTag' = NoTag /\ scratch' = FALSE /\ body' = <<>> /\ status' = 200
          /\ UNCHANGED result
     ELSE End("true")
  /\ UNCHANGED <<server, files, runs>>

CheckStatus ==
  /\ pc = "status"
  /\ IF status >= 400
     THEN End("false")
     ELSE pc' = "rename" /\ UNCHANGED <<locals, result>>
  /\ UNCHANGED <<server, files, runs>>

Rename ==
  /\ pc = "rename"
  /\ path' = tmp /\ tmp' = NoFile
  /\ End("true")
  /\ UNCHANGED <<server, etag, runs>>

Next ==
  \/ NewVersion \/ StartRun \/ Crash
  \/ ReadLocal \/ HeadRequest \/ UseCached \/ Decide
  \/ RemoveNoRange \/ RemoveTmp \/ RemovePath \/ FileOpFails \/ WriteTag
  \/ OpenTmp \/ Receive \/ PullDone \/ PullBreaks \/ Retry \/ CheckStatus \/ Rename

Spec == Init /\ [][Next]_vars

(***************************************************************************)
(* What is checked.                                                        *)
(***************************************************************************)

\* What stands under the model's name is one whole version, however often
\* downloads broke off, were killed and were resumed.
FileWhole == path # NoFile => \E v \in 1 .. MaxVersion : path = Whole(v)

\* A cached file that the next run will take for current, because its .etag is
\* the server's, is current.  The old file is removed before the new etag is
\* written and the new file appears after it, so no crash can pair the new
\* etag with the old file.
FreshTrusted == path # NoFile /\ etag = server => path = Whole(server)

\* A whole file that its etag calls current is given up only when the server
\* answered without an etag: a server that cannot be reached, a run that is
\* killed, a download that breaks off never costs it.
DeleteOnlyOutdated ==
  [][ path = Whole(server) /\ etag = server /\ path' = NoFile
      => head /\ headTag = NoTag ]_vars

\* A whole file is given up only for another version, as the comments beside
\* the comparison have it (download.cpp: "check if ETag or Last-Modified headers
\* are different").
CurrentKept == [][ path = Whole(server) /\ etag = server => path' # NoFile ]_vars

===============================================================================
