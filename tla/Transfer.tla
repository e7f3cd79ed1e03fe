------------------------------ MODULE Transfer ------------------------------
(***************************************************************************)
(* One transfer over HTTP: fetch.FetchWithRetry and fetch.Fetch            *)
(* (internal/fetch) with the transport and the stall guard                 *)
(* (internal/httptransfer) that also carry the manifest.                   *)
(*                                                                         *)
(* A Read of the guard starts a goroutine that reads the body, arms a      *)
(* timer, and waits for the goroutine's result or for the stall context,   *)
(* whichever it is; when both are there it may take either.  The timer's   *)
(* callback runs in a goroutine of its own, and stopping the timer does not*)
(* stop a callback that has begun.  The body is a number of packets; a read*)
(* delivers one.  Time is left out: a timer may expire whenever it is      *)
(* armed.  The server may at any moment send no more.                      *)
(***************************************************************************)
EXTENDS Integers, Sequences

CONSTANTS
  Surfaces,   \* what is transferred: a chunk (fetched by a worker of apply), or
              \* a manifest (by diagnose, or by apply's freshness gate)
  Packets,    \* bound: the length of a body
  Tries,      \* const maxAttempts of FetchWithRetry
  MayCancel   \* whether the caller may cancel the context

ASSUME TransferAssumption ==
  /\ Surfaces \subseteq {"chunk", "manifest"}
  /\ Packets \in Nat \ {0}
  /\ Tries \in Nat \ {0}
  /\ MayCancel \in BOOLEAN

VARIABLES
  surface,
  at, try,             \* the retry loop
  created, failed,     \* the current attempt: destination opened, error seen
  sent, line,          \* the server's side of the connection
  read, result, got,   \* the Read in progress, its goroutine's result; body position
  timer, expired,      \* the Read's timer; a callback that has begun
  stalled,             \* the stall context of the attempt is cancelled
  buffer, readErr,     \* what the reader's user has been given, and the error
  file,                \* the destination: the packets written to it
  abandoned, orphans,  \* reading goroutines left on the open body, on closed ones
  cancelled            \* the caller's context

server == <<sent, line>>
reading == <<read, result, got, timer, expired, stalled, abandoned>>
user == <<buffer, readErr, file>>
vars == <<surface, at, try, created, failed, server, reading, user, orphans, cancelled>>

Body == [n \in 1 .. Packets |-> n]
NoFile == <<0>>
EndOfBody == Packets + 1
ReadError == 0
Attempts == IF surface = "chunk" THEN Tries ELSE 1
Ended == at \in {"done", "gave_up"}

(* Chunks are ".zst": the decoder reads ahead in a goroutine of its own,   *)
(* from before the destination is created.  A manifest is copied as it is. *)
ReadAhead == IF surface = "chunk" THEN 2 ELSE 1

TypeOK ==
  /\ surface \in Surfaces
  /\ at \in {"connect", "await", "open", "copy", "close", "backoff", "done", "gave_up"}
  /\ try \in 0 .. Attempts - 1
  /\ created \in BOOLEAN /\ failed \in BOOLEAN
  /\ sent \in 0 .. Packets /\ line \in {"up", "ended", "broken"}
  /\ read \in {"none", "pending", "ready"}
  /\ result \in ReadError .. EndOfBody
  /\ got \in 0 .. sent
  /\ timer \in {"off", "armed"} /\ expired \in BOOLEAN /\ stalled \in BOOLEAN
  /\ readErr \in {"none", "eof", "error"}
  /\ Len(buffer) <= ReadAhead
  /\ abandoned \in BOOLEAN
  /\ orphans \in 0 .. Attempts
  /\ cancelled \in BOOLEAN

FreshAttempt ==
  /\ created = FALSE /\ failed = FALSE
  /\ sent = 0 /\ line = "up"
  /\ read = "none" /\ result = ReadError /\ got = 0
  /\ timer = "off" /\ expired = FALSE /\ stalled = FALSE /\ abandoned = FALSE
  /\ buffer = <<>> /\ readErr = "none"

Init ==
  /\ surface \in Surfaces
  /\ at = "connect" /\ try = 0
  /\ FreshAttempt
  /\ file = NoFile
  /\ orphans = 0 /\ cancelled = FALSE

Goto(next) == at' = next
FailTo(next) == at' = next /\ failed' = TRUE
-----------------------------------------------------------------------------
(* The dialer and the TLS handshake have a timeout on both transports.     *)
Connect ==
  /\ at = "connect"
  /\ \/ ~cancelled /\ Goto("await") /\ UNCHANGED failed
     \/ FailTo("close")
  /\ UNCHANGED <<surface, try, created, server, reading, user, orphans, cancelled>>

(* The response headers, of status 200 or another.                         *)
Answer ==
  /\ at = "await"
  /\ \/ Goto("open") /\ UNCHANGED failed
     \/ FailTo("close")
  /\ UNCHANGED <<surface, try, created, server, reading, user, orphans, cancelled>>

(* The request is given up.  A manifest goes over NewPhasedTransport, which*)
(* limits the wait for the headers; the worker hands the chunks' fetches   *)
(* http.DefaultTransport, which does not, and which NewPhasedTransport     *)
(* returns as it is.                                                       *)
HeaderTimeout == surface = "manifest"
StopAwaiting ==
  /\ at = "await"
  /\ HeaderTimeout \/ cancelled
  /\ FailTo("close")
  /\ UNCHANGED <<surface, try, created, server, reading, user, orphans, cancelled>>

(* Mutation of CreateDest: the file of an earlier try is not truncated.    *)
OpenDest ==
  /\ at = "open"
  /\ \/ /\ Goto("copy")
        /\ created' = TRUE
        /\ file' = IF file = NoFile THEN <<>> ELSE file
        /\ UNCHANGED failed
     \/ FailTo("close") /\ UNCHANGED <<created, file>>
  /\ UNCHANGED <<surface, try, server, reading, buffer, readErr, orphans, cancelled>>

(* os.Create, or it fails.                                                 *)
CreateDest ==
  /\ at = "open"
  /\ \/ /\ Goto("copy")
        /\ created' = TRUE
        /\ file' = <<>>
        /\ UNCHANGED failed
     \/ FailTo("close") /\ UNCHANGED <<created, file>>
  /\ UNCHANGED <<surface, try, server, reading, buffer, readErr, orphans, cancelled>>

(* io.Copy takes what has been read, or the write fails.                   *)
WriteDest ==
  /\ at = "copy"
  /\ buffer # <<>>
  /\ \/ /\ file' = Append(file, Head(buffer))
        /\ buffer' = Tail(buffer)
        /\ UNCHANGED <<at, failed>>
     \/ FailTo("close") /\ UNCHANGED <<file, buffer>>
  /\ UNCHANGED <<surface, try, created, server, reading, readErr, orphans, cancelled>>

(* The user of the reader meets the end of the body, or the error.         *)
EndCopy ==
  /\ at = "copy"
  /\ buffer = <<>>
  /\ readErr # "none"
  /\ Goto("close")
  /\ failed' = (readErr = "error")
  /\ UNCHANGED <<surface, try, created, server, reading, user, orphans, cancelled>>

NewAttempt ==
  /\ created' = FALSE /\ failed' = FALSE
  /\ sent' = 0 /\ line' = "up"
  /\ read' = "none" /\ result' = ReadError /\ got' = 0
  /\ timer' = "off" /\ expired' = FALSE /\ stalled' = FALSE
  /\ buffer' = <<>> /\ readErr' = "none"
  /\ UNCHANGED <<surface, file, cancelled>>

(* Mutation of Retry: attempts are not counted.                            *)
RetryUncounted ==
  IF ~failed THEN Goto("done") /\ UNCHANGED try
  ELSE \/ Goto("backoff") /\ UNCHANGED try
       \/ Goto("gave_up") /\ UNCHANGED try

(* The outcome of an attempt in the retry loop.                            *)
Retry ==
  IF ~failed THEN Goto("done") /\ UNCHANGED try
  ELSE IF try + 1 < Attempts THEN Goto("backoff") /\ try' = try + 1
  ELSE Goto("gave_up") /\ UNCHANGED try

(* Mutation of Close: the body is not closed.                              *)
ReturnUnclosed ==
  /\ at = "close"
  /\ read = "none"
  /\ Retry
  /\ NewAttempt
  /\ UNCHANGED <<abandoned, orphans>>

(* Fetch returns: its deferred calls wait for the decoder's own goroutine, *)
(* cancel the guard and close the body, upon which a goroutine that was    *)
(* abandoned in a read of it comes back.                                   *)
Close ==
  /\ at = "close"
  /\ read = "none"
  /\ Retry
  /\ NewAttempt
  /\ abandoned' = FALSE
  /\ orphans' = IF abandoned THEN orphans + 1 ELSE orphans

(* The wait before the next attempt, which a cancelled context ends.       *)
Backoff ==
  /\ at = "backoff"
  /\ \/ Goto("connect")
     \/ cancelled /\ Goto("gave_up")
  /\ UNCHANGED <<surface, try, created, failed, server, reading, user, orphans, cancelled>>
-----------------------------------------------------------------------------
Quiet == UNCHANGED <<surface, at, try, created, failed, server, file, orphans, cancelled>>

(* Mutation of BeginRead: no timer.                                        *)
BeginReadUntimed ==
  /\ at = "copy" \/ (at = "open" /\ surface = "chunk")
  /\ read = "none" /\ readErr = "none"
  /\ Len(buffer) < ReadAhead
  /\ read' = "pending"
  /\ UNCHANGED <<result, got, timer, expired, stalled, abandoned, buffer, readErr>>
  /\ Quiet

(* stallGuardReader.Read: arm the timer, start the goroutine.              *)
BeginRead ==
  /\ at = "copy" \/ (at = "open" /\ surface = "chunk")
  /\ read = "none" /\ readErr = "none"
  /\ Len(buffer) < ReadAhead
  /\ read' = "pending"
  /\ timer' = "armed"
  /\ UNCHANGED <<result, got, expired, stalled, abandoned, buffer, readErr>>
  /\ Quiet

(* The goroutine's read of the body returns: a packet, the end, or an      *)
(* error of the connection or of the request's context.                    *)
BodyReads ==
  /\ read = "pending"
  /\ \/ got < sent /\ got' = got + 1 /\ result' = got + 1
     \/ got = sent /\ line = "ended" /\ result' = EndOfBody /\ UNCHANGED got
     \/ (line = "broken" \/ cancelled) /\ result' = ReadError /\ UNCHANGED got
  /\ read' = "ready"
  /\ UNCHANGED <<timer, expired, stalled, abandoned, buffer, readErr>>
  /\ Quiet

(* The select takes the result.                                            *)
ReadReturns ==
  /\ read = "ready"
  /\ read' = "none" /\ timer' = "off"
  /\ IF result \in 1 .. Packets
     THEN buffer' = Append(buffer, result) /\ UNCHANGED readErr
     ELSE /\ readErr' = IF result = EndOfBody THEN "eof" ELSE "error"
          /\ UNCHANGED buffer
  /\ UNCHANGED <<result, got, expired, stalled, abandoned>>
  /\ Quiet

(* Mutation of ReadStops: the guard returns no bytes and no error, and the *)
(* caller reads again.                                                     *)
ReadStopsSilently ==
  /\ read # "none"
  /\ stalled \/ cancelled
  /\ read' = "none" /\ timer' = "off"
  /\ abandoned' = (abandoned \/ read = "pending")
  /\ UNCHANGED <<result, got, expired, stalled, buffer, readErr>>
  /\ Quiet

(* The select takes the stall context, which is done for good: the result  *)
(* is dropped, or the goroutine is left to itself.                         *)
ReadStops ==
  /\ read # "none"
  /\ stalled \/ cancelled
  /\ read' = "none" /\ timer' = "off"
  /\ readErr' = "error"
  /\ abandoned' = (abandoned \/ read = "pending")
  /\ UNCHANGED <<result, got, expired, stalled, buffer>>
  /\ Quiet

TimerExpires ==
  /\ timer = "armed"
  /\ timer' = "off"
  /\ expired' = TRUE
  /\ UNCHANGED <<read, result, got, stalled, abandoned, buffer, readErr>>
  /\ Quiet

Callback ==
  /\ expired
  /\ expired' = FALSE
  /\ stalled' = TRUE
  /\ UNCHANGED <<read, result, got, timer, abandoned, buffer, readErr>>
  /\ Quiet

(* An abandoned goroutine comes back with what the server sends after all, *)
(* into a buffer nobody uses any more; on a closed body it fails.          *)
AbandonedReturns ==
  /\ abandoned
  /\ got < sent \/ line # "up" \/ cancelled
  /\ abandoned' = FALSE
  /\ UNCHANGED <<read, result, got, timer, expired, stalled, buffer, readErr>>
  /\ Quiet

OrphanReturns ==
  /\ orphans > 0
  /\ orphans' = orphans - 1
  /\ UNCHANGED <<surface, at, try, created, failed, server, reading, user, cancelled>>
-----------------------------------------------------------------------------
(* The server sends, ends the body, or breaks the connection.              *)
ServerSends ==
  /\ at \in {"open", "copy", "close"} /\ line = "up"
  /\ \/ sent < Packets /\ sent' = sent + 1 /\ UNCHANGED line
     \/ sent = Packets /\ line' = "ended" /\ UNCHANGED sent
     \/ line' = "broken" /\ UNCHANGED sent
  /\ UNCHANGED <<surface, at, try, created, failed, reading, user, orphans, cancelled>>

Cancel ==
  /\ MayCancel
  /\ ~cancelled
  /\ cancelled' = TRUE
  /\ UNCHANGED <<surface, at, try, created, failed, server, reading, user, orphans>>
-----------------------------------------------------------------------------
Fetching ==
  \/ Connect \/ StopAwaiting \/ CreateDest \/ WriteDest \/ EndCopy \/ Close \/ Backoff
Reader == BeginRead \/ ReadReturns \/ ReadStops
Idle == Ended /\ orphans = 0 /\ UNCHANGED vars
Next ==
  \/ Fetching \/ Reader \/ BodyReads \/ TimerExpires \/ Callback
  \/ AbandonedReturns \/ OrphanReturns \/ Answer \/ ServerSends \/ Cancel \/ Idle

Spec == Init /\ [][Next]_vars

(* The Go scheduler runs what can run and armed timers expire; nothing is  *)
(* assumed of the server.                                                  *)
FairSpec ==
  /\ Spec
  /\ WF_vars(Fetching) /\ WF_vars(Reader) /\ WF_vars(BodyReads)
  /\ WF_vars(TimerExpires) /\ WF_vars(Callback)
  /\ WF_vars(AbandonedReturns) /\ WF_vars(OrphanReturns)
-----------------------------------------------------------------------------
(* A success is the whole body, in order and once, whatever earlier tries  *)
(* left and however a stall raced the last bytes.                          *)
StagesWholeBody == at = "done" => file = Body

(* Nobody reads the body, or writes to the buffer of its user, beside a    *)
(* goroutine that an earlier Read has left.                                *)
OneReader == read # "none" => ~abandoned

(* A transfer ends, whatever the server does or leaves undone, but for the *)
(* fetch of a chunk whose server accepts the request and never answers it. *)
TransferEnds ==
  <>Ended \/ (surface = "chunk" /\ <>[](at = "await"))

(* No reading goroutine is left over in the end.                           *)
ReadersReturn == Ended ~> (orphans = 0 /\ ~abandoned)

(* What the workers of the pool rely on.                                   *)
Abstract == INSTANCE ChunkFetch WITH
  left <- Attempts - try,
  at <- CASE at = "done" -> "fetched"
          [] at = "gave_up" -> "gave_up"
          [] created -> "writing"
          [] OTHER -> "connecting",
  staged <- IF at = "done" /\ file = Body THEN "whole"
            ELSE IF file = NoFile THEN "none" ELSE "partial"
ImplementsChunkFetch == Abstract!FetchSpec
=============================================================================
