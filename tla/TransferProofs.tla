--------------------------- MODULE TransferProofs ---------------------------
(***************************************************************************)
(* A transfer of any length, with any number of tries: what it stages, who *)
(* reads, and that it implements what the pool relies on.                  *)
(***************************************************************************)
EXTENDS Transfer, TLAPS

(* What this attempt has written, and what it has been given.              *)
Written == IF created THEN Len(file) ELSE 0
Given == Written + Len(buffer)

AttemptInv ==
  /\ at \in {"connect", "await", "backoff", "done", "gave_up"} => read = "none" /\ ~created
  /\ at \in {"connect", "await", "open", "backoff"} => ~created /\ ~failed
  /\ at = "copy" => created /\ ~failed
  /\ readErr # "none" => read = "none"
  /\ abandoned => readErr = "error"
  /\ read # "none" => Len(buffer) < ReadAhead
  /\ line = "ended" => sent = Packets
  /\ orphans <= IF Ended THEN try + 1 ELSE try

(* Packets reach the file in order and once.                               *)
DataInv ==
  /\ buffer \in Seq(Nat) /\ file \in Seq(Nat)
  /\ \A n \in 1 .. Len(buffer) : buffer[n] = Written + n
  /\ created => \A n \in 1 .. Len(file) : file[n] = n
  /\ readErr = "none" /\ read # "ready" => got = Given
  /\ read = "ready" /\ result \in 1 .. Packets => result = Given + 1 /\ got = Given + 1
  /\ read = "ready" /\ result = EndOfBody => got = Given /\ Given = Packets
  /\ readErr = "eof" => Given = Packets
  /\ at = "close" /\ ~failed => created /\ file = Body
  /\ at = "done" => file = Body

IInv == TypeOK /\ AttemptInv /\ DataInv
-----------------------------------------------------------------------------
LEMMA Bounds ==
  /\ Packets \in Nat /\ Packets > 0
  /\ \A s \in Surfaces : s \in {"chunk", "manifest"}
  /\ Attempts \in Nat /\ Attempts > 0
  /\ ReadAhead \in {1, 2}
  BY TransferAssumption DEF TransferAssumption, Attempts, ReadAhead

LEMMA InitInv == Init => IInv
  <1> SUFFICES ASSUME Init PROVE IInv
    OBVIOUS
  <1>1. TypeOK
    <2>1. Attempts \in Nat /\ Attempts > 0 /\ ReadAhead \in {1, 2}
      BY Bounds
    <2>2. try \in 0 .. Attempts - 1 /\ orphans \in 0 .. Attempts
      BY <2>1 DEF Init
    <2>3. result \in ReadError .. EndOfBody /\ got \in 0 .. sent /\ sent \in 0 .. Packets
      BY Bounds DEF Init, FreshAttempt, ReadError, EndOfBody
    <2>4. Len(buffer) <= ReadAhead
      BY <2>1 DEF Init, FreshAttempt
    <2> QED
      BY <2>2, <2>3, <2>4 DEF Init, FreshAttempt, TypeOK
  <1>2. AttemptInv
    BY Bounds DEF Init, FreshAttempt, AttemptInv, Ended
  <1>3. DataInv
    BY Bounds DEF Init, FreshAttempt, DataInv, NoFile, Written, Given
  <1> QED
    BY <1>1, <1>2, <1>3 DEF IInv

(* The steps that change only where the retry loop is.                     *)
LEMMA HeadersKeep == IInv /\ (Connect \/ Answer \/ StopAwaiting) => IInv'
  <1> SUFFICES ASSUME IInv, Connect \/ Answer \/ StopAwaiting PROVE IInv'
    OBVIOUS
  <1> USE DEF IInv, Connect, Answer, StopAwaiting, Goto, FailTo, server, reading, user
  <1>1. TypeOK'
    <2>1. UNCHANGED <<surface, try, created, sent, line, read, result, got, timer, expired, stalled,
                      abandoned, buffer, readErr, file, orphans, cancelled>>
      OBVIOUS
    <2>2. at' \in {"await", "open", "close"} /\ failed' \in BOOLEAN
      <3>1. /\ at' = "await" \/ at' = "open" \/ at' = "close"
            /\ failed' = failed \/ failed' = TRUE
        OBVIOUS
      <3>2. failed \in BOOLEAN
        BY DEF TypeOK
      <3> QED
        BY <3>1, <3>2, Zenon
    <2> QED
      BY <2>1, <2>2 DEF TypeOK, Attempts, ReadAhead
  <1>2. AttemptInv'
    BY DEF AttemptInv, Ended, ReadAhead
  <1>3. DataInv'
    BY DEF DataInv, Written, Given, AttemptInv, TypeOK
  <1> QED
    BY <1>1, <1>2, <1>3

LEMMA BackoffKeeps == IInv /\ Backoff => IInv'
  <1> SUFFICES ASSUME IInv, Backoff PROVE IInv'
    OBVIOUS
  <1> USE DEF IInv, Backoff, Goto, server, reading, user
  <1>1. TypeOK'
    BY DEF TypeOK, Attempts, ReadAhead
  <1>2. AttemptInv'
    BY Bounds DEF AttemptInv, Ended, ReadAhead, TypeOK
  <1>3. DataInv'
    BY DEF DataInv, Written, Given, AttemptInv, TypeOK
  <1> QED
    BY <1>1, <1>2, <1>3

LEMMA CreateKeeps == IInv /\ CreateDest => IInv'
  <1> SUFFICES ASSUME IInv, CreateDest PROVE IInv'
    OBVIOUS
  <1> USE DEF IInv, CreateDest, Goto, FailTo, server, reading
  <1>1. TypeOK'
    <2>1. UNCHANGED <<surface, try, sent, line, read, result, got, timer, expired, stalled,
                      abandoned, buffer, readErr, orphans, cancelled>>
      OBVIOUS
    <2>2. at' \in {"copy", "close"} /\ created' \in BOOLEAN /\ failed' \in BOOLEAN
      <3>1. /\ at' = "copy" \/ at' = "close"
            /\ failed' = failed \/ failed' = TRUE
            /\ created' = created \/ created' = TRUE
        OBVIOUS
      <3>2. failed \in BOOLEAN /\ created \in BOOLEAN
        BY DEF TypeOK
      <3> QED
        BY <3>1, <3>2, Zenon
    <2> QED
      BY <2>1, <2>2 DEF TypeOK, Attempts, ReadAhead
  <1>2. ~created /\ at = "open" /\ Len(buffer) \in Nat
    BY DEF AttemptInv, DataInv
  <1>3. CASE at' = "copy" /\ created' = TRUE /\ file' = <<>> /\ UNCHANGED failed
    <2>1. Written' = Written /\ Given' = Given /\ file' \in Seq(Nat) /\ Len(file') = 0
      BY <1>2, <1>3 DEF Written, Given
    <2>2. ~failed
      BY <1>2 DEF AttemptInv
    <2>3. AttemptInv'
      BY <1>2, <1>3, <2>2 DEF AttemptInv, Ended, ReadAhead
    <2>4. DataInv'
      BY <1>2, <1>3, <2>1 DEF DataInv
    <2> QED
      BY <1>1, <2>3, <2>4
  <1>4. CASE FailTo("close") /\ UNCHANGED <<created, file>>
    <2>1. AttemptInv'
      BY <1>2, <1>4 DEF AttemptInv, Ended, ReadAhead
    <2>2. DataInv'
      BY <1>2, <1>4 DEF DataInv, Written, Given
    <2> QED
      BY <1>1, <2>1, <2>2
  <1> QED
    BY <1>3, <1>4

LEMMA WriteKeeps == IInv /\ WriteDest => IInv'
  <1> SUFFICES ASSUME IInv, WriteDest PROVE IInv'
    OBVIOUS
  <1> USE DEF IInv, WriteDest, FailTo, server, reading
  <1>1. created /\ Len(file) \in Nat /\ Len(buffer) \in Nat /\ Written = Len(file)
    BY DEF AttemptInv, DataInv, Written
  <1>2. CASE /\ file' = Append(file, Head(buffer)) /\ buffer' = Tail(buffer)
             /\ UNCHANGED <<at, failed>>
    <2>1. /\ Len(buffer) > 0 /\ Head(buffer) = buffer[1] /\ buffer[1] = Len(file) + 1
          /\ Len(buffer') = Len(buffer) - 1 /\ buffer' \in Seq(Nat)
          /\ \A n \in 1 .. Len(buffer') : buffer'[n] = buffer[n + 1]
      BY <1>1, <1>2 DEF DataInv
    <2>2. /\ Len(file') = Len(file) + 1 /\ file' \in Seq(Nat)
          /\ \A n \in 1 .. Len(file') : file'[n] = n
      BY <1>1, <1>2, <2>1 DEF DataInv
    <2>3. Written' = Written + 1 /\ Given' = Given
      BY <1>1, <2>1, <2>2 DEF Written, Given
    <2>4. \A n \in 1 .. Len(buffer') : buffer'[n] = Written' + n
      BY <1>1, <2>1, <2>3 DEF DataInv
    <2>5. DataInv'
      BY <1>2, <2>1, <2>2, <2>3, <2>4 DEF DataInv
    <2>6. TypeOK'
      BY <1>1, <1>2, <2>1, Bounds DEF TypeOK, Attempts, ReadAhead
    <2>7. AttemptInv'
      BY <1>1, <1>2, <2>1, Bounds DEF AttemptInv, Ended, ReadAhead, TypeOK
    <2> QED
      BY <2>5, <2>6, <2>7
  <1>3. CASE FailTo("close") /\ UNCHANGED <<file, buffer>>
    <2>1. TypeOK'
      BY <1>3 DEF TypeOK, Attempts, ReadAhead
    <2>2. AttemptInv'
      BY <1>3 DEF AttemptInv, Ended, ReadAhead
    <2>3. DataInv'
      BY <1>3 DEF DataInv, Written, Given
    <2> QED
      BY <2>1, <2>2, <2>3
  <1> QED
    BY <1>2, <1>3

LEMMA EndCopyKeeps == IInv /\ EndCopy => IInv'
  <1> SUFFICES ASSUME IInv, EndCopy PROVE IInv'
    OBVIOUS
  <1> USE DEF IInv, EndCopy, Goto, server, reading, user
  <1>1. TypeOK'
    BY DEF TypeOK, Attempts, ReadAhead
  <1>2. AttemptInv'
    BY DEF AttemptInv, Ended, ReadAhead
  <1>3. ASSUME readErr = "eof"
        PROVE  file = Body
    <2>1. created /\ Len(buffer) = 0 /\ Len(file) \in Nat
      BY DEF AttemptInv, DataInv
    <2>2. Len(file) = Packets
      BY <1>3, <2>1 DEF DataInv, Given, Written
    <2>3. \A n \in 1 .. Packets : file[n] = n
      BY <2>1, <2>2 DEF DataInv
    <2> QED
      BY <2>2, <2>3, Bounds DEF Body, DataInv
  <1>4. DataInv'
    BY <1>3 DEF DataInv, Written, Given, AttemptInv, TypeOK
  <1> QED
    BY <1>1, <1>2, <1>4

LEMMA CloseKeeps == IInv /\ Close => IInv'
  <1> SUFFICES ASSUME IInv, Close PROVE IInv'
    OBVIOUS
  <1> USE DEF IInv, Close, Retry, Goto, NewAttempt
  <1>1. /\ try \in Nat /\ try < Attempts /\ try' \in Nat /\ try' < Attempts
        /\ Attempts' = Attempts /\ orphans \in Nat /\ orphans <= try
        /\ orphans' \in Nat /\ orphans' <= orphans + 1
        /\ ~Ended
    BY Bounds DEF TypeOK, AttemptInv, Ended, Attempts
  <1>2. /\ orphans' <= IF Ended' THEN try' + 1 ELSE try'
        /\ orphans' <= Attempts
    <2>1. CASE at' = "backoff" /\ try' = try + 1
      BY <1>1, <2>1, Bounds DEF Ended
    <2>2. CASE at' \in {"done", "gave_up"} /\ try' = try
      BY <1>1, <2>2, Bounds DEF Ended
    <2> QED
      BY <2>1, <2>2
  <1>3. TypeOK'
    <2>1. try' \in 0 .. Attempts' - 1 /\ orphans' \in 0 .. Attempts'
      BY <1>1, <1>2, Bounds
    <2>2. result' \in ReadError .. EndOfBody /\ got' \in 0 .. sent' /\ sent' \in 0 .. Packets
      BY Bounds DEF ReadError, EndOfBody
    <2>3. Len(buffer') <= ReadAhead'
      BY Bounds DEF ReadAhead
    <2> QED
      BY <2>1, <2>2, <2>3 DEF TypeOK
  <1>4. AttemptInv'
    BY <1>2, Bounds DEF AttemptInv
  <1>5. DataInv'
    BY Bounds DEF DataInv, Written, Given
  <1> QED
    BY <1>3, <1>4, <1>5
-----------------------------------------------------------------------------
(* A Read, its goroutine, its timer.                                       *)
LEMMA BeginKeeps == IInv /\ BeginRead => IInv'
  <1> SUFFICES ASSUME IInv, BeginRead PROVE IInv'
    OBVIOUS
  <1> USE DEF IInv, BeginRead, Quiet, server
  <1>1. TypeOK'
    BY DEF TypeOK, Attempts, ReadAhead
  <1>2. AttemptInv'
    BY DEF AttemptInv, Ended, ReadAhead
  <1>3. DataInv'
    BY DEF DataInv, Written, Given
  <1> QED
    BY <1>1, <1>2, <1>3

LEMMA BodyKeeps == IInv /\ BodyReads => IInv'
  <1> SUFFICES ASSUME IInv, BodyReads PROVE IInv'
    OBVIOUS
  <1> USE DEF IInv, BodyReads, Quiet, server
  <1>1. /\ got' \in 0 .. sent /\ result' \in ReadError .. EndOfBody
        /\ readErr = "none" /\ got = Given
    <2>1. readErr = "none"
      BY DEF AttemptInv, TypeOK
    <2>2. got \in Nat /\ sent \in Nat /\ got <= sent /\ sent <= Packets
      BY Bounds DEF TypeOK
    <2> QED
      BY <2>1, <2>2, Bounds DEF DataInv, ReadError, EndOfBody
  <1>2. TypeOK'
    BY <1>1 DEF TypeOK, Attempts, ReadAhead
  <1>3. AttemptInv'
    BY <1>1 DEF AttemptInv, Ended, ReadAhead
  <1>4. /\ result' \in 1 .. Packets => result' = Given + 1 /\ got' = Given + 1
        /\ result' = EndOfBody => got' = Given /\ Given = Packets
    <2>1. got \in Nat /\ sent \in Nat /\ got <= sent /\ sent <= Packets
      BY Bounds DEF TypeOK
    <2> QED
      BY <1>1, <2>1, Bounds DEF EndOfBody, ReadError, AttemptInv
  <1>5. Given' = Given /\ Written' = Written
    BY DEF Given, Written
  <1>6. DataInv'
    BY <1>1, <1>4, <1>5 DEF DataInv
  <1> QED
    BY <1>2, <1>3, <1>6

LEMMA ReturnKeeps == IInv /\ ReadReturns => IInv'
  <1> SUFFICES ASSUME IInv, ReadReturns PROVE IInv'
    OBVIOUS
  <1> USE DEF IInv, ReadReturns, Quiet, server
  <1>1. /\ readErr = "none" /\ ~abandoned /\ Len(buffer) < ReadAhead
        /\ Len(buffer) \in Nat /\ Written \in Nat /\ Written' = Written
    BY DEF AttemptInv, TypeOK, DataInv, Written
  <1>2. CASE result \in 1 .. Packets /\ buffer' = Append(buffer, result) /\ UNCHANGED readErr
    <2>1. /\ buffer' \in Seq(Nat) /\ Len(buffer') = Len(buffer) + 1
          /\ \A n \in 1 .. Len(buffer) : buffer'[n] = buffer[n]
          /\ buffer'[Len(buffer) + 1] = result
      BY <1>1, <1>2, Bounds DEF DataInv
    <2>2. result = Given + 1 /\ got = Given + 1 /\ Given' = Given + 1
      BY <1>1, <1>2, <2>1 DEF DataInv, Given
    <2>3. \A n \in 1 .. Len(buffer') : buffer'[n] = Written' + n
      <3>1. result = Written + (Len(buffer) + 1)
        BY <1>1, <2>2 DEF Given
      <3>2. \A n \in 1 .. Len(buffer') : n \in 1 .. Len(buffer) \/ n = Len(buffer) + 1
        BY <1>1, <2>1
      <3> QED
        BY <1>1, <2>1, <3>1, <3>2 DEF DataInv
    <2>4. DataInv'
      BY <1>1, <1>2, <2>1, <2>2, <2>3 DEF DataInv
    <2>5. TypeOK'
      <3>1. Len(buffer') <= ReadAhead'
        BY <1>1, <2>1, Bounds DEF ReadAhead, TypeOK
      <3> QED
        BY <1>2, <3>1 DEF TypeOK, Attempts
    <2>6. AttemptInv'
      BY <1>1, <1>2 DEF AttemptInv, Ended, ReadAhead
    <2> QED
      BY <2>4, <2>5, <2>6
  <1>3. CASE /\ result \notin 1 .. Packets
             /\ readErr' = IF result = EndOfBody THEN "eof" ELSE "error"
             /\ UNCHANGED buffer
    <2>1. TypeOK'
      BY <1>3 DEF TypeOK, Attempts, ReadAhead
    <2>2. AttemptInv'
      BY <1>1, <1>3 DEF AttemptInv, Ended, ReadAhead
    <2>3. DataInv'
      BY <1>3 DEF DataInv, Written, Given
    <2> QED
      BY <2>1, <2>2, <2>3
  <1> QED
    BY <1>2, <1>3

LEMMA StopKeeps == IInv /\ ReadStops => IInv'
  <1> SUFFICES ASSUME IInv, ReadStops PROVE IInv'
    OBVIOUS
  <1> USE DEF IInv, ReadStops, Quiet, server
  <1>1. TypeOK'
    BY DEF TypeOK, Attempts, ReadAhead
  <1>2. AttemptInv'
    BY DEF AttemptInv, Ended, ReadAhead
  <1>3. DataInv'
    BY DEF DataInv, Written, Given
  <1> QED
    BY <1>1, <1>2, <1>3

LEMMA BackgroundKeeps ==
  IInv /\ (TimerExpires \/ Callback \/ AbandonedReturns \/ OrphanReturns \/ Cancel) => IInv'
  <1> SUFFICES ASSUME IInv,
                      TimerExpires \/ Callback \/ AbandonedReturns \/ OrphanReturns \/ Cancel
               PROVE  IInv'
    OBVIOUS
  <1> USE DEF IInv, TimerExpires, Callback, AbandonedReturns, OrphanReturns, Cancel, Quiet,
              server, reading, user
  <1>1. /\ orphans' \in 0 .. Attempts /\ orphans' <= orphans /\ orphans \in Nat /\ orphans' \in Nat
        /\ try \in Nat
    BY Bounds DEF TypeOK
  <1>2. TypeOK'
    <2>1. CASE TimerExpires \/ Callback
      BY <2>1 DEF TypeOK, Attempts, ReadAhead
    <2>2. CASE AbandonedReturns
      <3>1. /\ abandoned' \in BOOLEAN
            /\ UNCHANGED <<surface, at, try, created, failed, sent, line, read, result, got,
                           timer, expired, stalled, buffer, readErr, orphans, cancelled>>
        BY <2>2
      <3> QED
        BY <3>1 DEF TypeOK, Attempts, ReadAhead
    <2>3. CASE OrphanReturns
      BY <1>1, <2>3 DEF TypeOK, Attempts, ReadAhead
    <2>4. CASE Cancel
      BY <2>4 DEF TypeOK, Attempts, ReadAhead
    <2> QED
      BY <2>1, <2>2, <2>3, <2>4
  <1>3. AttemptInv'
    <2>1. orphans' <= IF Ended THEN try + 1 ELSE try
      BY <1>1 DEF AttemptInv
    <2> QED
      BY <2>1 DEF AttemptInv, Ended, ReadAhead, TypeOK
  <1>4. DataInv'
    <2>1. UNCHANGED <<buffer, file, created, readErr, read, result, got, at, failed>>
      OBVIOUS
    <2> QED
      BY <2>1 DEF DataInv, Written, Given
  <1> QED
    BY <1>2, <1>3, <1>4

LEMMA ServerKeeps == IInv /\ ServerSends => IInv'
  <1> SUFFICES ASSUME IInv, ServerSends PROVE IInv'
    OBVIOUS
  <1> USE DEF IInv, ServerSends, reading, user
  <1>1. sent' \in 0 .. Packets /\ got \in 0 .. sent'
    BY Bounds DEF TypeOK
  <1>2. TypeOK'
    BY <1>1 DEF TypeOK, Attempts, ReadAhead
  <1>3. AttemptInv'
    BY DEF AttemptInv, Ended, ReadAhead
  <1>4. DataInv'
    BY DEF DataInv, Written, Given
  <1> QED
    BY <1>2, <1>3, <1>4

LEMMA StutterKeeps == IInv /\ UNCHANGED vars => IInv'
  <1> SUFFICES ASSUME IInv, UNCHANGED vars PROVE IInv'
    OBVIOUS
  <1> USE DEF IInv, vars, server, reading, user
  <1>1. TypeOK' /\ AttemptInv'
    BY DEF TypeOK, AttemptInv, Attempts, ReadAhead, Ended
  <1>2. DataInv'
    BY DEF DataInv, Written, Given
  <1> QED
    BY <1>1, <1>2

LEMMA NextKeeps == IInv /\ [Next]_vars => IInv'
  <1>1. IInv /\ Idle => IInv'
    BY StutterKeeps DEF Idle
  <1> QED
    BY <1>1, HeadersKeep, BackoffKeeps, CreateKeeps, WriteKeeps, EndCopyKeeps, CloseKeeps,
       BeginKeeps, BodyKeeps, ReturnKeeps, StopKeeps, BackgroundKeeps, ServerKeeps, StutterKeeps
    DEF Next, Fetching, Reader

(* The inductive invariant of a transfer.                                  *)
THEOREM Invariance == Spec => []IInv
  BY InitInv, NextKeeps, PTL DEF Spec

(* Every variable of Transfer keeps its type; in particular the decoder    *)
(* never holds more than it reads ahead, and each try leaves at most one   *)
(* goroutine behind.                                                       *)
THEOREM TypeCorrect == Spec => []TypeOK
  <1>1. IInv => TypeOK
    BY DEF IInv
  <1> QED
    BY <1>1, Invariance, PTL

(* A transfer that succeeds has staged the whole body, in order and once,  *)
(* whatever its length, however many tries it took and wherever they ended.*)
THEOREM WholeBodyStaged == Spec => []StagesWholeBody
  <1>1. IInv => StagesWholeBody
    BY DEF IInv, DataInv, StagesWholeBody
  <1> QED
    BY <1>1, Invariance, PTL

(* No Read starts while a goroutine of an earlier Read is left on the body.*)
THEOREM ReadersAlone == Spec => []OneReader
  <1>1. IInv => OneReader
    BY DEF IInv, TypeOK, AttemptInv, OneReader
  <1> QED
    BY <1>1, Invariance, PTL
-----------------------------------------------------------------------------
(* The refinement of ChunkFetch.  First, what the mapping hides.           *)
AbstractAt ==
  CASE at = "done" -> "fetched"
    [] at = "gave_up" -> "gave_up"
    [] created -> "writing"
    [] OTHER -> "connecting"
AbstractStaged ==
  IF at = "done" /\ file = Body THEN "whole"
  ELSE IF file = NoFile THEN "none" ELSE "partial"
AbstractLeft == Attempts - try
AbstractVars == <<AbstractAt, AbstractLeft, AbstractStaged, cancelled>>

LEMMA Hidden ==
  ASSUME UNCHANGED <<surface, at, try, created, file, cancelled>>
  PROVE  UNCHANGED AbstractVars
  BY DEF AbstractVars, AbstractAt, AbstractLeft, AbstractStaged, Attempts

LEMMA AbstractTypes ==
  ASSUME TypeOK
  PROVE  AbstractLeft \in Nat /\ AbstractLeft >= 1 /\ AbstractLeft <= Attempts
  BY Bounds DEF TypeOK, AbstractLeft

LEMMA CreateImplements ==
  ASSUME IInv, CreateDest
  PROVE  Abstract!Create \/ UNCHANGED AbstractVars
  <1>1. ~created /\ at = "open"
    BY DEF IInv, AttemptInv, CreateDest
  <1>2. CASE at' = "copy" /\ created' = TRUE /\ file' = <<>>
    <2>1. AbstractAt = "connecting" /\ AbstractAt' = "writing"
      BY <1>1, <1>2 DEF AbstractAt
    <2>2. AbstractStaged' = "partial"
      BY <1>2 DEF AbstractStaged, NoFile
    <2>3. AbstractLeft' = AbstractLeft /\ cancelled' = cancelled
      BY DEF CreateDest, AbstractLeft, Attempts
    <2> QED
      BY <2>1, <2>2, <2>3 DEF Abstract!Create, AbstractAt, AbstractStaged, AbstractLeft
  <1>3. CASE at' = "close" /\ UNCHANGED <<created, file>>
    <2>1. AbstractAt' = AbstractAt
      BY <1>1, <1>3 DEF AbstractAt
    <2>2. AbstractStaged' = AbstractStaged
      BY <1>1, <1>3 DEF AbstractStaged
    <2> QED
      BY <2>1, <2>2 DEF CreateDest, AbstractVars, AbstractLeft, Attempts
  <1> QED
    BY <1>2, <1>3 DEF CreateDest, Goto, FailTo

LEMMA WriteImplements ==
  ASSUME IInv, WriteDest
  PROVE  UNCHANGED AbstractVars
  <1>1. created /\ created' = created /\ at = "copy" /\ at' \in {"copy", "close"}
    BY DEF IInv, AttemptInv, WriteDest, FailTo
  <1>2. AbstractAt' = AbstractAt /\ AbstractLeft' = AbstractLeft /\ cancelled' = cancelled
    BY <1>1 DEF WriteDest, AbstractAt, AbstractLeft, Attempts
  <1>3. file # NoFile
    <2>1. Len(file) > 0 => file[1] = 1
      BY <1>1 DEF IInv, DataInv
    <2> QED
      BY <2>1 DEF NoFile
  <1>4. file' # NoFile
    <2>1. IInv'
      BY WriteKeeps
    <2>2. Len(file') > 0 => file'[1] = 1
      BY <1>1, <2>1 DEF IInv, DataInv
    <2> QED
      BY <2>2 DEF NoFile
  <1>5. AbstractStaged' = AbstractStaged
    BY <1>1, <1>3, <1>4 DEF AbstractStaged
  <1> QED
    BY <1>2, <1>5 DEF AbstractVars

LEMMA CloseImplements ==
  ASSUME IInv, Close
  PROVE  Abstract!Complete \/ Abstract!Err
  <1> USE DEF Close, Retry, Goto, NewAttempt
  <1>1. /\ at = "close" /\ ~created' /\ UNCHANGED <<file, cancelled, surface>>
        /\ AbstractAt = IF created THEN "writing" ELSE "connecting"
    BY DEF AbstractAt
  <1>2. AbstractStaged = IF file = NoFile THEN "none" ELSE "partial"
    BY <1>1 DEF AbstractStaged
  <1>3. CASE ~failed
    <2>1. created /\ file = Body
      BY <1>1, <1>3 DEF IInv, DataInv
    <2>2. AbstractAt' = "fetched" /\ AbstractStaged' = "whole"
      BY <1>1, <1>3, <2>1 DEF AbstractAt, AbstractStaged, Body
    <2>3. AbstractLeft' = AbstractLeft
      BY <1>1, <1>3 DEF AbstractLeft, Attempts
    <2> QED
      BY <1>1, <2>1, <2>2, <2>3 DEF Abstract!Complete, AbstractAt, AbstractStaged, AbstractLeft
  <1>4. CASE failed
    <2>1. /\ AbstractLeft \in Nat /\ AbstractLeft >= 1
          /\ try \in Nat /\ Attempts \in Nat /\ Attempts' = Attempts
      BY <1>1, AbstractTypes, Bounds DEF IInv, TypeOK, Attempts
    <2>2. AbstractStaged' = AbstractStaged
      BY <1>1, <1>2, <1>4 DEF AbstractStaged
    <2>3. CASE try + 1 < Attempts
      <3>1. AbstractAt' = "connecting" /\ AbstractLeft > 1 /\ AbstractLeft' = AbstractLeft - 1
        BY <1>1, <1>4, <2>1, <2>3 DEF AbstractAt, AbstractLeft
      <3> QED
        BY <1>1, <2>2, <3>1 DEF Abstract!Err, AbstractAt, AbstractStaged, AbstractLeft
    <2>4. CASE ~(try + 1 < Attempts)
      <3>1. AbstractAt' = "gave_up" /\ AbstractLeft = 1 /\ AbstractLeft' = AbstractLeft
        BY <1>1, <1>4, <2>1, <2>4 DEF AbstractAt, AbstractLeft
      <3> QED
        BY <1>1, <2>2, <3>1 DEF Abstract!Err, AbstractAt, AbstractStaged, AbstractLeft
    <2> QED
      BY <2>3, <2>4
  <1> QED
    BY <1>3, <1>4

LEMMA BackoffImplements ==
  ASSUME IInv, Backoff
  PROVE  Abstract!Err \/ UNCHANGED AbstractVars
  <1>1. /\ at = "backoff" /\ ~created
        /\ UNCHANGED <<surface, try, created, file, cancelled>>
    BY DEF IInv, AttemptInv, Backoff, user
  <1>2. AbstractAt = "connecting" /\ AbstractStaged' = AbstractStaged /\ AbstractLeft' = AbstractLeft
    BY <1>1 DEF AbstractAt, AbstractStaged, AbstractLeft, Attempts, Backoff, Goto
  <1>3. CASE at' = "connect"
    BY <1>1, <1>2, <1>3 DEF AbstractVars, AbstractAt
  <1>4. CASE cancelled /\ at' = "gave_up"
    <2>1. AbstractAt' = "gave_up"
      BY <1>1, <1>4 DEF AbstractAt
    <2> QED
      BY <1>1, <1>2, <1>4, <2>1 DEF Abstract!Err, AbstractAt, AbstractStaged, AbstractLeft
  <1> QED
    BY <1>3, <1>4 DEF Backoff, Goto

(* The steps of Connect to EndCopy that stay within an attempt.            *)
LEMMA WithinAttempt ==
  ASSUME IInv, Connect \/ Answer \/ StopAwaiting \/ EndCopy
  PROVE  UNCHANGED AbstractVars
  <1>1. /\ UNCHANGED <<surface, try, created, file, cancelled>>
        /\ at \notin {"done", "gave_up"} /\ at' \notin {"done", "gave_up"}
    BY DEF Connect, Answer, StopAwaiting, EndCopy, Goto, FailTo, user
  <1> QED
    BY <1>1 DEF AbstractVars, AbstractAt, AbstractLeft, AbstractStaged, Attempts

LEMMA StepImplements ==
  ASSUME IInv, [Next]_vars
  PROVE  [Abstract!Next]_AbstractVars
  <1>1. CASE Fetching
    BY <1>1, CreateImplements, WriteImplements, CloseImplements, BackoffImplements, WithinAttempt
    DEF Fetching, Abstract!Next
  <1>2. CASE Answer
    BY <1>2, WithinAttempt
  <1>3. CASE Reader \/ BodyReads \/ TimerExpires \/ Callback \/ AbandonedReturns
    BY <1>3, Hidden
    DEF Reader, BeginRead, ReadReturns, ReadStops, BodyReads, TimerExpires, Callback,
        AbandonedReturns, Quiet
  <1>4. CASE OrphanReturns \/ ServerSends \/ Idle \/ UNCHANGED vars
    BY <1>4, Hidden DEF OrphanReturns, ServerSends, Idle, vars, user
  <1>5. CASE Cancel
    <2>1. UNCHANGED <<surface, at, try, created, file>>
      BY <1>5 DEF Cancel, user
    <2>2. UNCHANGED <<AbstractAt, AbstractLeft, AbstractStaged>>
      BY <2>1 DEF AbstractAt, AbstractLeft, AbstractStaged, Attempts
    <2>3. Abstract!Cancel
      BY <1>5, <2>2 DEF Cancel, Abstract!Cancel, AbstractAt, AbstractLeft, AbstractStaged
    <2> QED
      BY <2>3 DEF Abstract!Next
  <1> QED
    BY <1>1, <1>2, <1>3, <1>4, <1>5 DEF Next

(* A transfer is, to the worker that called for it, a ChunkFetch: so many  *)
(* tries, each of which starts the staged file anew or leaves it, and a    *)
(* success only with the whole body.                                       *)
THEOREM TransferImplements == Spec => ImplementsChunkFetch
  <1>1. Init => Abstract!Init
    <2> SUFFICES ASSUME Init PROVE Abstract!Init
      OBVIOUS
    <2>1. AbstractAt = "connecting" /\ AbstractStaged = "none"
      BY DEF Init, FreshAttempt, AbstractAt, AbstractStaged
    <2>2. AbstractLeft \in 1 .. Tries
      BY TransferAssumption DEF TransferAssumption, Init, AbstractLeft, Attempts
    <2> QED
      BY <2>1, <2>2 DEF Init, Abstract!Init, AbstractAt, AbstractStaged, AbstractLeft
  <1>2. IInv /\ [Next]_vars => [Abstract!Next]_(Abstract!vars)
    BY StepImplements DEF Abstract!vars, AbstractVars, AbstractAt, AbstractStaged, AbstractLeft
  <1> QED
    BY <1>1, <1>2, Invariance, PTL DEF Spec, ImplementsChunkFetch, Abstract!FetchSpec
=============================================================================
