-------------------------- MODULE TransportProofs --------------------------
(***************************************************************************)
(* Proofs about Transport, for any number of calls, attempts, versions and *)
(* tokens.  The inductive invariant ties a call's reply and result to the  *)
(* token in its request, its headers to the published version, and the     *)
(* number of executions of a write to the number of its attempts.          *)
(*                                                                         *)
(* And about TokenSource, where the calls' tokens are from.  What its      *)
(* cache holds is never believed to live longer than it does by more than  *)
(* the delay of an answer (KeptOK), so what a caller has from it was good  *)
(* for the margin when it got it (GotOK); and whoever fetches has seen,    *)
(* under the mutex, that the kept token was due (DueOK), which nobody can  *)
(* change before the answer.                                               *)
(***************************************************************************)
EXTENDS Transport, TokenSource, TLAPS

(* Of a call x executed n times, when the resource is at version v.        *)
CallInv(x, n, v) ==
    /\ x.inm <= v /\ x.reply.body.ver <= v
    /\ x.pc \in {"flight", "arrived"} \/ (x.pc = "backoff" /\ x.path = "do") => x.tok \in Tokens
    /\ x.reply.body # NoBody => x.reply.body.tok = x.tok
    /\ x.result.body # NoBody => x.result.body.tok = x.tok
    /\ x.pc # "arrived" => x.reply.body = NoBody
    /\ x.pc # "done" => x.result.body = NoBody
    /\ x.pc = "backoff" => x.attempt < MaxAttempts
    /\ n <= IF x.pc \in {"new", "prepare", "flight"} THEN x.attempt - 1 ELSE x.attempt

CacheInv == \A t \in Tokens : cache[t] # NoBody => cache[t].tok = t /\ cache[t].ver <= version

TransportInv == /\ TransportTypeOK
                /\ CacheInv
                /\ \A c \in Calls : CallInv(call[c], applied[c], version)

(* What a step of call c leaves of the calls.                              *)
LEMMA SetStep ==
    ASSUME call \in [Calls -> Call], NEW c \in Calls, NEW x \in Call, Set(c, x)
    PROVE  /\ call' \in [Calls -> Call]
           /\ call'[c] = x
           /\ \A d \in Calls : d # c => call'[d] = call[d]
BY DEF Set

LEMMA FinishStep ==
    ASSUME call \in [Calls -> Call], NEW c \in Calls, NEW r \in Result, Finish(c, r)
    PROVE  /\ call' \in [Calls -> Call]
           /\ \A d \in Calls : d # c => call'[d] = call[d]
           /\ call'[c].pc = "done" /\ call'[c].result = r /\ call'[c].reply = NoReply
           /\ call'[c].path = call[c].path /\ call'[c].write = call[c].write
           /\ call'[c].attempt = call[c].attempt
           /\ call'[c].tok = call[c].tok /\ call'[c].inm = call[c].inm
           /\ call'[c].lastErr = call[c].lastErr /\ call'[c].lastResp = call[c].lastResp
<1> DEFINE x == [call[c] EXCEPT !.pc = "done", !.reply = NoReply, !.result = r]
<1>0. call[c] \in Call
  OBVIOUS
<1>1. /\ x \in Call
      /\ x.pc = "done" /\ x.result = r /\ x.reply = NoReply
      /\ x.path = call[c].path /\ x.write = call[c].write
      /\ x.attempt = call[c].attempt
      /\ x.tok = call[c].tok /\ x.inm = call[c].inm
      /\ x.lastErr = call[c].lastErr /\ x.lastResp = call[c].lastResp
  BY <1>0 DEF Call, Reply, NoReply
<1>2. Set(c, x)
  BY DEF Finish
<1> QED BY <1>1, <1>2, SetStep

LEMMA Results ==
    /\ \A u \in BOOLEAN : Failure(u) \in Result /\ Failure(u).body = NoBody
    /\ \A k \in {"ok", "transient", "refused"}, b \in Body \cup {NoBody}, v \in Versions \cup {None} :
          Answer(k, b, v) \in Result /\ Answer(k, b, v).body = b
    /\ [NoResult EXCEPT !.kind = "cancelled"] \in Result
    /\ [NoResult EXCEPT !.kind = "cancelled"].body = NoBody
BY DEF Failure, Answer, Result, NoResult

(* The end of the loop: a backoff, or a result without a body.             *)
LEMMA RetryStep ==
    ASSUME call \in [Calls -> Call], NEW c \in Calls, NEW x \in Call, RetryOrGiveUp(c, x)
    PROVE  /\ call' \in [Calls -> Call]
           /\ \A d \in Calls : d # c => call'[d] = call[d]
           /\ call'[c].reply = NoReply
           /\ call'[c].path = x.path /\ call'[c].write = x.write
           /\ call'[c].attempt = x.attempt
           /\ call'[c].tok = x.tok /\ call'[c].inm = x.inm
           /\ call'[c].lastErr = x.lastErr /\ call'[c].lastResp = x.lastResp
           /\ \/ call'[c].pc = "backoff" /\ call'[c].attempt < MaxAttempts /\ call'[c].result = x.result
              \/ /\ call'[c].pc = "done"
                 /\ call'[c].result = IF x.lastResp /\ (x.path = "rt" \/ x.lastErr = "none")
                                      THEN Answer("transient", NoBody, None)
                                      ELSE Failure(x.lastErr = "unsent")
<1>1. CASE x.attempt < MaxAttempts
  <2> DEFINE y == [x EXCEPT !.pc = "backoff", !.reply = NoReply]
  <2>1. /\ y \in Call
        /\ y.pc = "backoff" /\ y.reply = NoReply /\ y.result = x.result
        /\ y.path = x.path /\ y.write = x.write /\ y.attempt = x.attempt
        /\ y.tok = x.tok /\ y.inm = x.inm
        /\ y.lastErr = x.lastErr /\ y.lastResp = x.lastResp
    BY DEF Call, Reply, NoReply
  <2>2. Set(c, y)
    BY <1>1 DEF RetryOrGiveUp
  <2> QED BY <1>1, <2>1, <2>2, SetStep
<1>2. CASE ~(x.attempt < MaxAttempts)
  <2> DEFINE r == IF x.lastResp /\ (x.path = "rt" \/ x.lastErr = "none")
                  THEN Answer("transient", NoBody, None)
                  ELSE Failure(x.lastErr = "unsent")
             y == [x EXCEPT !.pc = "done", !.reply = NoReply, !.result = r]
  <2>1. r \in Result
    BY Results
  <2> HIDE DEF r
  <2>2. /\ y \in Call
        /\ y.pc = "done" /\ y.reply = NoReply /\ y.result = r
        /\ y.path = x.path /\ y.write = x.write /\ y.attempt = x.attempt
        /\ y.tok = x.tok /\ y.inm = x.inm
        /\ y.lastErr = x.lastErr /\ y.lastResp = x.lastResp
    BY <2>1 DEF Call, Reply, NoReply
  <2>3. Set(c, y)
    BY <1>2 DEF RetryOrGiveUp, r
  <2>4. /\ call' \in [Calls -> Call]
        /\ call'[c] = y
        /\ \A d \in Calls : d # c => call'[d] = call[d]
    BY <2>2, <2>3, SetStep
  <2> QED BY <2>2, <2>4 DEF r
<1> QED BY <1>1, <1>2

LEMMA FailsStep ==
    ASSUME call \in [Calls -> Call], NEW c \in Calls, NEW kind, AttemptFails(c, kind)
    PROVE  /\ call' \in [Calls -> Call]
           /\ \A d \in Calls : d # c => call'[d] = call[d]
           /\ call'[c].reply = NoReply
           /\ call'[c].path = call[c].path /\ call'[c].write = call[c].write
           /\ call'[c].attempt = call[c].attempt
           /\ call'[c].tok = call[c].tok /\ call'[c].inm = call[c].inm
           /\ \/ call'[c].pc = "backoff" /\ call'[c].attempt < MaxAttempts
                 /\ call'[c].result = call[c].result
              \/ call'[c].pc = "done" /\ call'[c].result.body = NoBody
<1>1. CASE CanRetryError(c, kind)
  <2> DEFINE x == [call[c] EXCEPT !.lastErr = IF kind = "unsent" THEN kind ELSE "other"]
  <2>0. call[c] \in Call
    OBVIOUS
  <2>1. /\ x \in Call
        /\ x.path = call[c].path /\ x.write = call[c].write /\ x.attempt = call[c].attempt
        /\ x.tok = call[c].tok /\ x.inm = call[c].inm /\ x.result = call[c].result
    BY <2>0 DEF Call
  <2>2. RetryOrGiveUp(c, x)
    BY <1>1 DEF AttemptFails
  <2> HIDE DEF x
  <2>3. /\ Answer("transient", NoBody, None).body = NoBody
        /\ Failure(x.lastErr = "unsent").body = NoBody
    BY DEF Answer, Failure
  <2> QED BY <2>1, <2>2, <2>3, RetryStep
<1>2. CASE ~CanRetryError(c, kind)
  <2>1. Finish(c, Failure(FALSE))
    BY <1>2 DEF AttemptFails
  <2> QED BY <2>1, FinishStep, Results
<1> QED BY <1>1, <1>2

----------------------------------------------------------------------------
LEMMA InitInv == TransportInit => TransportInv
<1> USE TransportAssumption
<1> SUFFICES ASSUME TransportInit PROVE TransportInv
  OBVIOUS
<1>1. ASSUME NEW c \in Calls
      PROVE  call[c] \in Call /\ CallInv(call[c], applied[c], version)
  <2>1. PICK p \in {"do", "rt"}, w \in BOOLEAN :
           call[c] = [pc |-> "new", path |-> p, write |-> w, attempt |-> 1, tok |-> None,
                      inm |-> None, reply |-> NoReply, lastErr |-> "none",
                      lastResp |-> FALSE, result |-> NoResult]
    BY DEF TransportInit
  <2>2. version = 1 /\ applied[c] = 0
    BY DEF TransportInit
  <2>3. NoReply \in Reply /\ NoResult \in Result
    BY DEF NoReply, Reply, NoResult, Result
  <2>4. call[c] \in Call
    BY <2>1, <2>3 DEF Call
  <2> QED BY <2>1, <2>2, <2>4 DEF CallInv, NoReply, NoResult, NoBody, None
<1>2. TransportTypeOK
  BY <1>1 DEF TransportInit, TransportTypeOK, Versions, Tokens
<1>3. CacheInv
  BY DEF TransportInit, CacheInv
<1> QED BY <1>1, <1>2, <1>3 DEF TransportInv

(* A step that changes no more than one call, and keeps that call's part,  *)
(* keeps the invariant.                                                    *)
LEMMA CallStepInv ==
    ASSUME TransportInv, NEW c \in Calls,
           call' \in [Calls -> Call],
           \A d \in Calls : d # c => call'[d] = call[d],
           UNCHANGED <<version, token>>,
           \/ UNCHANGED applied
           \/ call[c].pc = "flight" /\ Executed(c) /\ call'[c].pc = "arrived",
           cache' \in [Tokens -> Body \cup {NoBody}], CacheInv',
           CallInv(call'[c], applied'[c], version)
    PROVE  TransportInv'
<1> USE TransportAssumption
<1>1. ASSUME NEW d \in Calls PROVE CallInv(call'[d], applied'[d], version')
  <2>1. CASE d = c
    BY <2>1
  <2>2. CASE d # c
    <3>1. call'[d] = call[d] /\ applied'[d] = applied[d]
      BY <2>2 DEF Executed, TransportInv, TransportTypeOK
    <3> QED BY <3>1 DEF TransportInv
  <2> QED BY <2>1, <2>2
<1>2. applied' \in [Calls -> 0..MaxAttempts]
  <2>1. applied'[c] \in 0..MaxAttempts
    <3>1. /\ applied[c] \in Nat /\ call'[c].attempt \in 1..MaxAttempts
          /\ applied'[c] = applied[c] \/ applied'[c] = applied[c] + 1
      BY DEF Executed, TransportInv, TransportTypeOK, Call
    <3> QED BY <1>1, <3>1 DEF CallInv
  <2> QED BY <2>1 DEF Executed, TransportInv, TransportTypeOK
<1> QED BY <1>1, <1>2 DEF TransportInv, TransportTypeOK

(* The steps of a call that leave the cache alone: what remains to be      *)
(* shown is the call's own part.                                           *)
LEMMA QuietStepInv ==
    ASSUME TransportInv, NEW c \in Calls,
           call' \in [Calls -> Call],
           \A d \in Calls : d # c => call'[d] = call[d],
           UNCHANGED <<version, token, cache>>,
           \/ UNCHANGED applied
           \/ call[c].pc = "flight" /\ Executed(c) /\ call'[c].pc = "arrived",
           CallInv(call'[c], applied'[c], version)
    PROVE  TransportInv'
<1>1. cache' \in [Tokens -> Body \cup {NoBody}] /\ CacheInv'
  BY DEF TransportInv, TransportTypeOK, CacheInv
<1> QED BY <1>1, CallStepInv

LEMMA StartInv == ASSUME TransportInv, NEW c \in Calls, Start(c) PROVE TransportInv'
<1> DEFINE x == [call[c] EXCEPT !.pc = "prepare"]
<1>0. call[c] \in Call /\ call \in [Calls -> Call] /\ CallInv(call[c], applied[c], version)
  BY DEF TransportInv, TransportTypeOK
<1>1. /\ x \in Call /\ x.pc = "prepare" /\ x.inm = call[c].inm /\ x.reply = call[c].reply
      /\ x.result = call[c].result /\ x.tok = call[c].tok /\ x.attempt = call[c].attempt
  BY <1>0 DEF Call
<1>2. Set(c, x) /\ call[c].pc = "new" /\ UNCHANGED <<version, token, cache, applied>>
  BY DEF Start
<1> HIDE DEF x
<1>3. CallInv(x, applied[c], version)
  BY <1>0, <1>1, <1>2 DEF CallInv
<1> QED BY <1>0, <1>1, <1>2, <1>3, SetStep, QuietStepInv

LEMMA PrepareInv == ASSUME TransportInv, NEW c \in Calls, Prepare(c) PROVE TransportInv'
<1> DEFINE known == IF call[c].write \/ call[c].inm # None THEN call[c].inm ELSE cache[token].ver
           x == [call[c] EXCEPT !.pc = "flight", !.tok = token, !.inm = known]
<1>0. /\ call[c] \in Call /\ call \in [Calls -> Call] /\ CallInv(call[c], applied[c], version)
      /\ token \in Tokens /\ version \in Versions /\ cache[token] \in Body \cup {NoBody}
  BY DEF TransportInv, TransportTypeOK
<1>1. known \in Versions \cup {None} /\ known <= version
  <2>1. call[c].inm \in Versions \cup {None} /\ call[c].inm <= version
    BY <1>0 DEF Call, CallInv
  <2>2. cache[token].ver \in Versions \cup {None}
    BY <1>0 DEF Body, NoBody
  <2>3. cache[token].ver <= version
    <3>1. CASE cache[token] = NoBody
      BY <1>0, <3>1, TransportAssumption DEF NoBody, None, Versions
    <3>2. CASE cache[token] # NoBody
      BY <1>0, <3>2 DEF TransportInv, CacheInv
    <3> QED BY <3>1, <3>2
  <2> QED BY <2>1, <2>2, <2>3
<1> HIDE DEF known
<1>2. /\ x \in Call /\ x.pc = "flight" /\ x.inm = known /\ x.reply = call[c].reply
      /\ x.result = call[c].result /\ x.tok = token /\ x.attempt = call[c].attempt
  BY <1>0, <1>1 DEF Call
<1>3. Set(c, x) /\ call[c].pc = "prepare" /\ UNCHANGED <<version, token, cache, applied>>
  BY DEF Prepare, known
<1> HIDE DEF x
<1>4. call[c].reply.body = NoBody /\ call[c].result.body = NoBody
  BY <1>0, <1>3 DEF CallInv
<1>5. CallInv(x, applied[c], version)
  BY <1>0, <1>1, <1>2, <1>3, <1>4 DEF CallInv, NoBody, None, Versions
<1> QED BY <1>0, <1>2, <1>3, <1>5, SetStep, QuietStepInv

(* A call that ends, or backs off, after a step that left its request as   *)
(* it was: its result has no body, or one of the request's token.          *)
LEMMA EndedInv ==
    ASSUME TransportInv, NEW c \in Calls,
           call[c].pc \in {"prepare", "arrived", "backoff"},
           UNCHANGED <<version, token, cache, applied>>,
           call' \in [Calls -> Call],
           \A d \in Calls : d # c => call'[d] = call[d],
           call'[c].reply = NoReply,
           call'[c].attempt = call[c].attempt,
           call'[c].path = call[c].path,
           call'[c].tok = call[c].tok /\ call'[c].inm = call[c].inm,
           \/ /\ call'[c].pc = "backoff" /\ call'[c].result.body = NoBody
              /\ call'[c].attempt < MaxAttempts
              /\ call'[c].path = "do" => call[c].tok \in Tokens
           \/ /\ call'[c].pc = "done"
              /\ call'[c].result.body # NoBody => call'[c].result.body.tok = call[c].tok
    PROVE  TransportInv'
<1>0. /\ call[c] \in Call /\ call'[c] \in Call /\ CallInv(call[c], applied[c], version)
      /\ version \in Versions /\ applied[c] \in Nat
  BY DEF TransportInv, TransportTypeOK
<1>1. applied[c] <= call[c].attempt
  BY <1>0 DEF CallInv, Call
<1>2. CallInv(call'[c], applied[c], version)
  BY <1>0, <1>1 DEF CallInv, NoReply, NoBody, None, Versions
<1> QED BY <1>2, QuietStepInv DEF TransportInv, TransportTypeOK

LEMMA FailedInv ==
    ASSUME TransportInv, NEW c \in Calls, NEW kind, AttemptFails(c, kind),
           call[c].pc \in {"prepare", "arrived"},
           call[c].path = "do" => call[c].pc = "arrived",
           UNCHANGED <<version, token, cache, applied>>
    PROVE  TransportInv'
<1>0. /\ call \in [Calls -> Call] /\ CallInv(call[c], applied[c], version)
      /\ call[c].result.body = NoBody
      /\ call[c].path = "do" => call[c].tok \in Tokens
  BY DEF TransportInv, TransportTypeOK, CallInv
<1>1. /\ call' \in [Calls -> Call]
      /\ \A d \in Calls : d # c => call'[d] = call[d]
      /\ call'[c].reply = NoReply
      /\ call'[c].path = call[c].path /\ call'[c].attempt = call[c].attempt
      /\ call'[c].tok = call[c].tok /\ call'[c].inm = call[c].inm
      /\ \/ /\ call'[c].pc = "backoff" /\ call'[c].result = call[c].result
            /\ call'[c].attempt < MaxAttempts
         \/ call'[c].pc = "done" /\ call'[c].result.body = NoBody
  BY <1>0, FailsStep
<1> QED BY <1>0, <1>1, EndedInv

(* The network brings a reply whose body, if any, is of the request's      *)
(* token and of a version published by now.                                *)
LEMMA ArrivesInv ==
    ASSUME TransportInv, NEW c \in Calls, NEW r \in Reply, Arrives(c, r),
           call[c].pc = "flight",
           UNCHANGED <<version, token, cache>>, UNCHANGED applied \/ Executed(c),
           r.body = NoBody \/ (r.body.tok = call[c].tok /\ r.body.ver <= version)
    PROVE  TransportInv'
<1> DEFINE x == [call[c] EXCEPT !.pc = "arrived", !.reply = r]
<1>0. /\ call[c] \in Call /\ call \in [Calls -> Call] /\ CallInv(call[c], applied[c], version)
      /\ version \in Versions /\ applied \in [Calls -> 0..MaxAttempts]
  BY DEF TransportInv, TransportTypeOK
<1>1. /\ x \in Call /\ x.pc = "arrived" /\ x.reply = r /\ x.inm = call[c].inm
      /\ x.result = call[c].result /\ x.tok = call[c].tok /\ x.attempt = call[c].attempt
  BY <1>0 DEF Call
<1>2. Set(c, x)
  BY DEF Arrives
<1> HIDE DEF x
<1>3. applied'[c] <= call[c].attempt
  <2>1. applied[c] <= call[c].attempt - 1 /\ call[c].attempt \in Nat /\ applied[c] \in Nat
    BY <1>0, TransportAssumption DEF CallInv, Call
  <2>2. applied'[c] = applied[c] \/ applied'[c] = applied[c] + 1
    BY <1>0 DEF Executed
  <2> QED BY <2>1, <2>2
<1>4. r.body.ver <= version
  BY <1>0 DEF NoBody, None, Versions
<1>5. CallInv(x, applied'[c], version)
  BY <1>0, <1>1, <1>3, <1>4 DEF CallInv
<1> QED BY <1>0, <1>1, <1>2, <1>5, SetStep, QuietStepInv

LEMMA Replies ==
    \A kind \in {"unsent", "lost", "ok", "unmodified", "transient", "refused"}, cut \in BOOLEAN,
       b \in Body \cup {NoBody} : Got(kind, cut, b) \in Reply /\ Got(kind, cut, b).body = b
BY DEF Got, Reply

LEMMA NetworkInv ==
    ASSUME TransportInv, NEW c \in Calls,
           Unsent(c) \/ Lost(c) \/ ServeRead(c) \/ ServeWrite(c) \/ ServeError(c)
    PROVE  TransportInv'
<1>0. NoBody \in Body \cup {NoBody}
  OBVIOUS
<1>1. CASE Unsent(c)
  BY <1>0, <1>1, Replies, ArrivesInv DEF Unsent
<1>2. CASE Lost(c)
  BY <1>0, <1>2, Replies, ArrivesInv DEF Lost, MaybeExecuted
<1>3. CASE ServeRead(c)
  <2> DEFINE b == [tok |-> call[c].tok, ver |-> version]
  <2>1. b \in Body /\ b.tok = call[c].tok /\ b.ver <= version
    BY <1>3, TransportAssumption DEF TransportInv, TransportTypeOK, CallInv, ServeRead, Body, Versions
  <2> HIDE DEF b
  <2>2. CASE call[c].inm = version
    BY <1>0, <1>3, <2>2, Replies, ArrivesInv DEF ServeRead
  <2>3. CASE call[c].inm # version
    <3>1. PICK cut \in BOOLEAN : Arrives(c, Got("ok", cut, b))
      BY <1>3, <2>3 DEF ServeRead, b
    <3> QED BY <1>3, <2>1, <3>1, Replies, ArrivesInv DEF ServeRead
  <2> QED BY <2>2, <2>3
<1>4. CASE ServeWrite(c)
  BY <1>0, <1>4, Replies, ArrivesInv DEF ServeWrite
<1>5. CASE ServeError(c)
  BY <1>0, <1>5, Replies, ArrivesInv DEF ServeError, MaybeExecuted
<1> QED BY <1>1, <1>2, <1>3, <1>4, <1>5

LEMMA FinishedInv ==
    ASSUME TransportInv, NEW c \in Calls, NEW r \in Result, Finish(c, r),
           call[c].pc \in {"prepare", "arrived", "backoff"},
           UNCHANGED <<version, token, cache, applied>>,
           r.body # NoBody => r.body.tok = call[c].tok
    PROVE  TransportInv'
<1>1. call \in [Calls -> Call]
  BY DEF TransportInv, TransportTypeOK
<1> QED BY <1>1, FinishStep, EndedInv

LEMMA PrepareFailsInv == ASSUME TransportInv, NEW c \in Calls, PrepareFails(c) PROVE TransportInv'
<1>0. /\ call[c] \in Call /\ call \in [Calls -> Call] /\ CallInv(call[c], applied[c], version)
      /\ call[c].pc = "prepare" /\ call[c].result.body = NoBody
      /\ UNCHANGED <<version, token, cache, applied>>
  BY DEF TransportInv, TransportTypeOK, PrepareFails, CallInv
<1>1. CASE call[c].path = "do"
  <2>1. Finish(c, Failure(TRUE))
    BY <1>1 DEF PrepareFails
  <2> QED BY <1>0, <2>1, Results, FinishedInv
<1>2. CASE call[c].path # "do"
  <2>1. PICK kind \in {"refused by hook", "unsent"} : AttemptFails(c, kind)
    BY <1>2 DEF PrepareFails
  <2> QED BY <1>0, <1>2, <2>1, FailedInv
<1> QED BY <1>1, <1>2

LEMMA ArriveUnmodifiedInv ==
    ASSUME TransportInv, NEW c \in Calls, ArriveUnmodified(c) PROVE TransportInv'
<1> DEFINE e == cache[EtagKey(c)]
<1>0. /\ call[c] \in Call /\ CallInv(call[c], applied[c], version)
      /\ call[c].pc = "arrived" /\ call[c].tok \in Tokens
      /\ e \in Body \cup {NoBody} /\ call[c].inm \in Versions \cup {None}
      /\ UNCHANGED <<version, token, cache, applied>>
  BY DEF TransportInv, TransportTypeOK, ArriveUnmodified, CallInv, Call, EtagKey
<1>1. CASE e # NoBody
  <2>1. Finish(c, Answer("ok", e, call[c].inm))
    BY <1>1 DEF ArriveUnmodified
  <2>2. e.tok = call[c].tok
    BY <1>0, <1>1 DEF TransportInv, CacheInv, EtagKey
  <2> HIDE DEF e
  <2>3. Answer("ok", e, call[c].inm) \in Result /\ Answer("ok", e, call[c].inm).body = e
    BY <1>0, Results
  <2> QED BY <1>0, <2>1, <2>2, <2>3, FinishedInv
<1>2. CASE e = NoBody /\ call[c].path = "rt"
  <2>1. AttemptFails(c, "entry gone")
    BY <1>2 DEF ArriveUnmodified
  <2> QED BY <1>0, <2>1, FailedInv
<1>3. CASE e = NoBody /\ call[c].path # "rt"
  <2>1. Finish(c, Failure(FALSE))
    BY <1>3 DEF ArriveUnmodified
  <2> QED BY <1>0, <2>1, Results, FinishedInv
<1> QED BY <1>1, <1>2, <1>3

LEMMA ArriveOkInv ==
    ASSUME TransportInv, NEW c \in Calls, ArriveOk(c) PROVE TransportInv'
<1> DEFINE b == call[c].reply.body
<1>0. /\ call \in [Calls -> Call] /\ call[c] \in Call /\ CallInv(call[c], applied[c], version)
      /\ call[c].pc = "arrived" /\ call[c].tok \in Tokens
      /\ b \in Body \cup {NoBody} /\ b.ver <= version
      /\ b # NoBody => b.tok = call[c].tok
      /\ cache \in [Tokens -> Body \cup {NoBody}] /\ version \in Versions
      /\ applied[c] \in Nat /\ applied[c] <= call[c].attempt
      /\ UNCHANGED <<version, token, applied>>
  BY DEF TransportInv, TransportTypeOK, ArriveOk, CallInv, Call, Reply
<1>1. Finish(c, Answer("ok", b, None))
  BY DEF ArriveOk
<1>2. cache' = cache \/ cache' = [cache EXCEPT ![call[c].tok] = b]
  BY DEF ArriveOk, EtagKey
<1> HIDE DEF b
<1>3. cache' \in [Tokens -> Body \cup {NoBody}]
  BY <1>0, <1>2
<1>4. CacheInv'
  BY <1>0, <1>2 DEF CacheInv, TransportInv
<1>5. Answer("ok", b, None) \in Result /\ Answer("ok", b, None).body = b
  BY <1>0, Results
<1>6. /\ call' \in [Calls -> Call]
      /\ \A d \in Calls : d # c => call'[d] = call[d]
      /\ call'[c].pc = "done" /\ call'[c].reply = NoReply /\ call'[c].result.body = b
      /\ call'[c].attempt = call[c].attempt
      /\ call'[c].tok = call[c].tok /\ call'[c].inm = call[c].inm
  BY <1>0, <1>1, <1>5, FinishStep
<1>7. CallInv(call'[c], applied[c], version)
  BY <1>0, <1>6 DEF CallInv, NoReply, NoBody, None, Versions
<1> QED BY <1>0, <1>3, <1>4, <1>6, <1>7, CallStepInv

LEMMA ArriveCutOkInv ==
    ASSUME TransportInv, NEW c \in Calls, ArriveCutOk(c) PROVE TransportInv'
<1>0. /\ call[c].pc = "arrived" /\ UNCHANGED <<version, token, cache, applied>>
      /\ NoBody \in Body \cup {NoBody}
  BY DEF ArriveCutOk
<1>1. CASE Finish(c, Failure(FALSE))
  BY <1>0, <1>1, Results, FinishedInv
<1>2. CASE AttemptFails(c, "body")
  BY <1>0, <1>2, FailedInv
<1>3. CASE Finish(c, Answer("ok", NoBody, None))
  <2>1. Answer("ok", NoBody, None) \in Result /\ Answer("ok", NoBody, None).body = NoBody
    BY <1>0, Results
  <2> QED BY <1>0, <1>3, <2>1, FinishedInv
<1> QED BY <1>1, <1>2, <1>3 DEF ArriveCutOk

(* An error status that may be repeated: the loop goes on without a body.  *)
LEMMA GivenUpInv ==
    ASSUME TransportInv, NEW c \in Calls, NEW x \in Call, RetryOrGiveUp(c, x),
           call[c].pc = "arrived",
           x.path = call[c].path, x.attempt = call[c].attempt,
           x.tok = call[c].tok, x.inm = call[c].inm, x.result = call[c].result,
           UNCHANGED <<version, token, cache, applied>>
    PROVE  TransportInv'
<1>0. /\ call \in [Calls -> Call] /\ call[c].result.body = NoBody /\ call[c].tok \in Tokens
  BY DEF TransportInv, TransportTypeOK, CallInv
<1>1. /\ Answer("transient", NoBody, None).body = NoBody
      /\ Failure(x.lastErr = "unsent").body = NoBody
  BY DEF Answer, Failure
<1>2. /\ call' \in [Calls -> Call]
      /\ \A d \in Calls : d # c => call'[d] = call[d]
      /\ call'[c].reply = NoReply
      /\ call'[c].path = call[c].path /\ call'[c].attempt = call[c].attempt
      /\ call'[c].tok = call[c].tok /\ call'[c].inm = call[c].inm
      /\ \/ /\ call'[c].pc = "backoff" /\ call'[c].result = call[c].result
            /\ call'[c].attempt < MaxAttempts
         \/ call'[c].pc = "done" /\ call'[c].result.body = NoBody
  BY <1>0, <1>1, RetryStep
<1> QED BY <1>0, <1>2, EndedInv

LEMMA ArriveStatusInv ==
    ASSUME TransportInv, NEW c \in Calls, ArriveStatus(c) PROVE TransportInv'
<1> DEFINE kind == call[c].reply.kind
           cut == call[c].reply.cut
<1>0. /\ call[c] \in Call /\ call[c].pc = "arrived" /\ kind \in {"transient", "refused"}
      /\ UNCHANGED <<version, token, cache, applied>> /\ NoBody \in Body \cup {NoBody}
  BY DEF ArriveStatus, TransportInv, TransportTypeOK
<1>1. CASE Finish(c, Failure(FALSE))
  BY <1>0, <1>1, Results, FinishedInv
<1>2. CASE Finish(c, Answer(kind, NoBody, None))
  <2>1. Answer(kind, NoBody, None) \in Result /\ Answer(kind, NoBody, None).body = NoBody
    BY <1>0, Results
  <2> QED BY <1>0, <1>2, <2>1, FinishedInv
<1>3. CASE RetryOrGiveUp(c, [call[c] EXCEPT !.lastErr = "other", !.lastResp = FALSE])
  <2> DEFINE x == [call[c] EXCEPT !.lastErr = "other", !.lastResp = FALSE]
  <2>1. /\ x \in Call /\ x.path = call[c].path /\ x.attempt = call[c].attempt
        /\ x.tok = call[c].tok /\ x.inm = call[c].inm /\ x.result = call[c].result
    BY <1>0 DEF Call
  <2>2. RetryOrGiveUp(c, x)
    BY <1>3
  <2> HIDE DEF x
  <2> QED BY <1>0, <2>1, <2>2, GivenUpInv
<1>4. CASE RetryOrGiveUp(c, [call[c] EXCEPT !.lastResp = TRUE])
  <2> DEFINE x == [call[c] EXCEPT !.lastResp = TRUE]
  <2>1. /\ x \in Call /\ x.path = call[c].path /\ x.attempt = call[c].attempt
        /\ x.tok = call[c].tok /\ x.inm = call[c].inm /\ x.result = call[c].result
    BY <1>0 DEF Call
  <2>2. RetryOrGiveUp(c, x)
    BY <1>4
  <2> HIDE DEF x
  <2> QED BY <1>0, <2>1, <2>2, GivenUpInv
<1> QED BY <1>1, <1>2, <1>3, <1>4 DEF ArriveStatus

LEMMA BackoffInv == ASSUME TransportInv, NEW c \in Calls, Backoff(c) PROVE TransportInv'
<1> DEFINE x == [call[c] EXCEPT !.pc = IF call[c].path = "do" THEN "flight" ELSE "prepare",
                                !.attempt = @ + 1]
<1>0. /\ call \in [Calls -> Call] /\ call[c] \in Call /\ CallInv(call[c], applied[c], version)
      /\ call[c].pc = "backoff" /\ applied[c] \in Nat
  BY DEF TransportInv, TransportTypeOK, Backoff
<1>1. call[c].attempt \in 1..MaxAttempts /\ call[c].attempt < MaxAttempts
  BY <1>0 DEF CallInv, Call
<1>2. call[c].attempt + 1 \in 1..MaxAttempts
  BY <1>1, TransportAssumption
<1>3. /\ x \in Call /\ x.pc = IF call[c].path = "do" THEN "flight" ELSE "prepare"
      /\ x.path = call[c].path /\ x.attempt = call[c].attempt + 1 /\ x.tok = call[c].tok
      /\ x.inm = call[c].inm /\ x.result = call[c].result /\ x.reply = call[c].reply
  BY <1>0, <1>2 DEF Call
<1>4. Set(c, x)
  BY DEF Backoff
<1> HIDE DEF x
<1>5. CallInv(x, applied[c], version)
  BY <1>0, <1>1, <1>3 DEF CallInv
<1>6. UNCHANGED <<version, token, cache, applied>>
  BY DEF Backoff
<1> QED BY <1>0, <1>3, <1>4, <1>5, <1>6, SetStep, QuietStepInv

(* The steps that are not a call's change one part of the environment.     *)
LEMMA EnvironmentInv ==
    ASSUME TransportInv,
           ServerChanges \/ RotateToken \/ \E t \in Tokens : Evict(t)
    PROVE  TransportInv'
<1> USE TransportAssumption
<1>0. version \in Versions /\ token \in Tokens /\ cache \in [Tokens -> Body \cup {NoBody}]
  BY DEF TransportInv, TransportTypeOK
<1>1. CASE ServerChanges
  <2>1. version' \in Versions /\ version <= version'
    BY <1>0, <1>1 DEF ServerChanges, Versions
  <2>2. \A t \in Tokens : cache[t] # NoBody => cache[t].ver \in Nat
    BY <1>0 DEF Body, Versions
  <2>3. ASSUME NEW c \in Calls PROVE CallInv(call[c], applied[c], version')
    <3>1. call[c].inm \in Nat /\ call[c].reply.body.ver \in Nat
      BY DEF TransportInv, TransportTypeOK, Call, Reply, Body, NoBody, None, Versions
    <3> QED BY <1>0, <2>1, <3>1 DEF TransportInv, CallInv, Versions
  <2> QED BY <1>0, <1>1, <2>1, <2>2, <2>3 DEF ServerChanges, TransportInv, TransportTypeOK, CacheInv, Versions
<1>2. CASE RotateToken
  BY <1>2 DEF RotateToken, TransportInv, TransportTypeOK, CacheInv, Tokens
<1>3. ASSUME NEW t \in Tokens, Evict(t) PROVE TransportInv'
  BY <1>3 DEF Evict, TransportInv, TransportTypeOK, CacheInv
<1> QED BY <1>1, <1>2, <1>3

LEMMA StepInv == TransportInv /\ [TransportNext]_transportVars => TransportInv'
<1> SUFFICES ASSUME TransportInv, [TransportNext]_transportVars PROVE TransportInv'
  OBVIOUS
<1>1. ASSUME NEW c \in Calls, CallStep(c) PROVE TransportInv'
  <2>1. CASE Start(c) \/ Prepare(c) \/ PrepareFails(c)
    BY <2>1, StartInv, PrepareInv, PrepareFailsInv
  <2>2. CASE Unsent(c) \/ Lost(c) \/ ServeRead(c) \/ ServeWrite(c) \/ ServeError(c)
    BY <2>2, NetworkInv
  <2>3. CASE ArriveError(c)
    BY <2>3, FailedInv DEF ArriveError
  <2>4. CASE ArriveUnmodified(c) \/ ArriveOk(c) \/ ArriveCutOk(c) \/ ArriveStatus(c)
    BY <2>4, ArriveUnmodifiedInv, ArriveOkInv, ArriveCutOkInv, ArriveStatusInv
  <2>5. CASE Backoff(c)
    BY <2>5, BackoffInv
  <2>6. CASE Cancel(c)
    BY <2>6, Results, FinishedInv DEF Cancel
  <2> QED BY <1>1, <2>1, <2>2, <2>3, <2>4, <2>5, <2>6 DEF CallStep
<1>2. CASE UNCHANGED transportVars
  <2>1. UNCHANGED <<version, token, cache, call, applied>>
    BY <1>2 DEF transportVars
  <2> QED BY <2>1 DEF TransportInv, TransportTypeOK, CacheInv
<1> QED BY <1>1, <1>2, EnvironmentInv DEF TransportNext

(* The strengthening holds in every reachable state.                       *)
THEOREM InvCorrect == TransportSpec => []TransportInv
BY InitInv, StepInv, PTL DEF TransportSpec

(* Every reachable state is well typed; in particular no call makes more   *)
(* than MaxAttempts attempts and no write is executed more often than it   *)
(* was attempted.                                                          *)
THEOREM TransportTypeCorrect == TransportSpec => []TransportTypeOK
<1>1. TransportInv => TransportTypeOK
  BY DEF TransportInv
<1> QED BY <1>1, InvCorrect, PTL

(* No read returns a body that was served to another token than the one    *)
(* the read last carried, for any number of calls, tokens and versions.    *)
THEOREM NoCrossPrincipalCorrect == TransportSpec => []NoCrossPrincipal
<1>1. TransportInv => NoCrossPrincipal
  BY DEF TransportInv, CallInv, NoCrossPrincipal
<1> QED BY <1>1, InvCorrect, PTL

(* The cache holds under each token only bodies served to that token, and  *)
(* If-None-Match names only published versions.                            *)
THEOREM CacheFaithfulCorrect == TransportSpec => []CacheFaithful
<1>1. TransportInv => CacheFaithful
  BY DEF TransportInv, CacheInv, CallInv, CacheFaithful
<1> QED BY <1>1, InvCorrect, PTL

----------------------------------------------------------------------------
(* At most once.  The refinement mapping of Once, per call, and what the   *)
(* step of one call may do to it.                                          *)

Phase(x) == IF ~x.write \/ x.pc = "new" THEN "new" ELSE IF x.pc = "done" THEN "closed" ELSE "open"

Claim(x) == IF ~x.write THEN "unknown"
            ELSE IF x.result.kind = "ok" THEN "done"
            ELSE IF x.result.kind = "refused" \/ x.result.unsent THEN "not done"
            ELSE "unknown"

OnceStep(x, n, y, m) ==
    \/ Phase(y) = Phase(x) /\ m = n /\ Claim(y) = Claim(x)
    \/ Phase(x) = "new" /\ Phase(y) = "open" /\ m = n /\ Claim(y) = Claim(x)
    \/ Phase(x) = "open" /\ Phase(y) = "open" /\ n = 0 /\ m = 1 /\ Claim(y) = Claim(x)
    \/ /\ Phase(x) = "open" /\ Phase(y) = "closed" /\ m = n
       /\ Claim(y) = "done" => n = 1
       /\ Claim(y) = "not done" => n = 0

(* Why a write is never repeated once it may have been executed: every     *)
(* outcome the loop goes on after proves that nothing was sent.            *)
OnceCall(x, n) ==
    /\ ~x.write => n = 0
    /\ x.write => /\ x.inm = None /\ x.lastErr \in {"none", "unsent"} /\ ~x.lastResp
                  /\ n \in {0, 1}
                  /\ x.pc \notin {"arrived", "done"} => n = 0
                  /\ x.pc # "done" => x.result = NoResult
                  /\ x.pc = "arrived" =>
                        /\ x.reply.kind \notin {"none", "unmodified"}
                        /\ x.reply.kind \in {"unsent", "refused"} => n = 0
                        /\ x.reply.kind = "ok" => n = 1
                  /\ x.pc = "done" =>
                        /\ x.result.kind = "ok" => n = 1
                        /\ x.result.kind = "refused" \/ x.result.unsent => n = 0

OnceInv == \A c \in Calls : OnceCall(call[c], applied[c])

LEMMA OnceInitInv == TransportInit => OnceInv
<1> SUFFICES ASSUME TransportInit, NEW c \in Calls PROVE OnceCall(call[c], applied[c])
  BY DEF OnceInv
<1>1. PICK p \in {"do", "rt"}, w \in BOOLEAN :
         call[c] = [pc |-> "new", path |-> p, write |-> w, attempt |-> 1, tok |-> None,
                    inm |-> None, reply |-> NoReply, lastErr |-> "none",
                    lastResp |-> FALSE, result |-> NoResult]
  BY DEF TransportInit
<1>2. applied[c] = 0
  BY DEF TransportInit
<1> QED BY <1>1, <1>2 DEF OnceCall

(* The step of a call from x to y, with n and m executions before and      *)
(* after, keeps the invariant and is a step of WriteOnce.                  *)
Sim(c) == OnceCall(call'[c], applied'[c]) /\ OnceStep(call[c], applied[c], call'[c], applied'[c])

LEMMA NotDoneSim ==
    ASSUME NEW x, NEW y, NEW n, OnceCall(x, n), y.write = x.write,
           x.pc # "done", x.pc # "arrived", y.pc \notin {"new", "done", "arrived"},
           y.result = x.result, y.inm = x.inm \/ ~x.write,
           y.lastErr = x.lastErr, y.lastResp = x.lastResp
    PROVE  OnceCall(y, n) /\ OnceStep(x, n, y, n)
BY DEF OnceCall, OnceStep, Phase, Claim

LEMMA FinishSim ==
    ASSUME TransportInv, OnceInv, NEW c \in Calls, NEW r \in Result, Finish(c, r),
           UNCHANGED applied, call[c].pc \notin {"new", "done"},
           call[c].write => /\ r.kind = "ok" => applied[c] = 1
                            /\ r.kind = "refused" \/ r.unsent => applied[c] = 0
    PROVE  Sim(c)
<1>1. /\ call \in [Calls -> Call] /\ OnceCall(call[c], applied[c]) /\ call[c].write \in BOOLEAN
      /\ r.unsent \in BOOLEAN
  BY DEF TransportInv, TransportTypeOK, OnceInv, Call, Result
<1>2. /\ call'[c].pc = "done" /\ call'[c].result = r /\ call'[c].write = call[c].write
      /\ call'[c].inm = call[c].inm
      /\ call'[c].lastErr = call[c].lastErr /\ call'[c].lastResp = call[c].lastResp
  BY <1>1, FinishStep
<1> QED BY <1>1, <1>2 DEF Sim, OnceCall, OnceStep, Phase, Claim

(* A failed attempt of a write goes on only after an error that proves     *)
(* that nothing was sent.                                                  *)
LEMMA FailsSim ==
    ASSUME ~RetryWrite, TransportInv, OnceInv, NEW c \in Calls, NEW kind, AttemptFails(c, kind),
           UNCHANGED applied, call[c].pc \in {"prepare", "arrived"},
           call[c].write /\ kind = "unsent" => applied[c] = 0
    PROVE  Sim(c)
<1>0. /\ call \in [Calls -> Call] /\ call[c] \in Call /\ OnceCall(call[c], applied[c])
      /\ call[c].write \in BOOLEAN
  BY DEF TransportInv, TransportTypeOK, OnceInv, Call
<1>1. CASE CanRetryError(c, kind)
  <2> DEFINE x == [call[c] EXCEPT !.lastErr = IF kind = "unsent" THEN kind ELSE "other"]
  <2>1. /\ x \in Call /\ x.write = call[c].write /\ x.result = call[c].result /\ x.inm = call[c].inm
        /\ x.lastErr = (IF kind = "unsent" THEN kind ELSE "other") /\ x.lastResp = call[c].lastResp
        /\ x.path = call[c].path
    BY <1>0 DEF Call
  <2>2. RetryOrGiveUp(c, x)
    BY <1>1 DEF AttemptFails
  <2> HIDE DEF x
  <2>3. /\ call'[c].write = x.write /\ call'[c].inm = x.inm
        /\ call'[c].lastErr = x.lastErr /\ call'[c].lastResp = x.lastResp
        /\ \/ call'[c].pc = "backoff" /\ call'[c].result = x.result
           \/ /\ call'[c].pc = "done"
              /\ call'[c].result = IF x.lastResp /\ (x.path = "rt" \/ x.lastErr = "none")
                                   THEN Answer("transient", NoBody, None)
                                   ELSE Failure(x.lastErr = "unsent")
    BY <1>0, <2>1, <2>2, RetryStep
  <2>4. CASE ~call[c].write
    BY <1>0, <2>1, <2>3, <2>4 DEF Sim, OnceCall, OnceStep, Phase, Claim
  <2>5. CASE call[c].write
    <3>1. kind = "unsent" /\ applied[c] = 0 /\ ~x.lastResp /\ x.lastErr = "unsent"
      BY <1>0, <1>1, <2>1, <2>5 DEF CanRetryError, MethodRetryable, OnceCall
    <3>2. Failure(TRUE).kind = "error" /\ Failure(TRUE).unsent
      BY DEF Failure
    <3>3. \/ call'[c].pc = "backoff" /\ call'[c].result = call[c].result
          \/ call'[c].pc = "done" /\ call'[c].result = Failure(TRUE)
      BY <2>1, <2>3, <3>1
    <3> QED BY <1>0, <2>1, <2>3, <2>5, <3>1, <3>2, <3>3
            DEF Sim, OnceCall, OnceStep, Phase, Claim, NoResult
  <2> QED BY <1>0, <2>4, <2>5
<1>2. CASE ~CanRetryError(c, kind)
  <2>1. Finish(c, Failure(FALSE)) /\ Failure(FALSE).kind = "error" /\ ~Failure(FALSE).unsent
    BY <1>2 DEF AttemptFails, Failure
  <2> QED BY <2>1, Results, FinishSim
<1> QED BY <1>1, <1>2

LEMMA SendSim ==
    ASSUME TransportInv, OnceInv, NEW c \in Calls, Start(c) \/ Prepare(c) \/ Backoff(c)
    PROVE  Sim(c)
<1>0. /\ call \in [Calls -> Call] /\ call[c] \in Call /\ OnceCall(call[c], applied[c])
  BY DEF TransportInv, TransportTypeOK, OnceInv
<1>1. ASSUME NEW x \in Call, Set(c, x), UNCHANGED applied,
             x.write = call[c].write, x.result = call[c].result,
             x.inm = call[c].inm \/ ~call[c].write,
             x.lastErr = call[c].lastErr, x.lastResp = call[c].lastResp,
             call[c].pc \notin {"arrived", "done"}, x.pc \notin {"new", "done", "arrived"}
      PROVE  Sim(c)
  <2>1. call'[c] = x /\ applied' = applied
    BY <1>0, <1>1 DEF Set
  <2> QED BY <1>0, <1>1, <2>1, NotDoneSim DEF Sim
<1>2. CASE Start(c)
  <2> DEFINE x == [call[c] EXCEPT !.pc = "prepare"]
  <2>1. /\ x \in Call /\ x.pc = "prepare" /\ x.write = call[c].write /\ x.result = call[c].result
        /\ x.inm = call[c].inm /\ x.lastErr = call[c].lastErr /\ x.lastResp = call[c].lastResp
    BY <1>0 DEF Call
  <2>2. Set(c, x) /\ UNCHANGED applied /\ call[c].pc = "new"
    BY <1>2 DEF Start
  <2> HIDE DEF x
  <2> QED BY <1>1, <2>1, <2>2
<1>3. CASE Prepare(c)
  <2> DEFINE known == IF call[c].write \/ call[c].inm # None THEN call[c].inm ELSE cache[token].ver
             x == [call[c] EXCEPT !.pc = "flight", !.tok = token, !.inm = known]
  <2>1. known \in Versions \cup {None} /\ (call[c].write => known = call[c].inm) /\ token \in Tokens
    BY <1>0 DEF TransportInv, TransportTypeOK, Call, Body, NoBody
  <2> HIDE DEF known
  <2>2. /\ x \in Call /\ x.pc = "flight" /\ x.write = call[c].write /\ x.result = call[c].result
        /\ x.inm = known /\ x.lastErr = call[c].lastErr /\ x.lastResp = call[c].lastResp
    BY <1>0, <2>1 DEF Call
  <2>3. Set(c, x) /\ UNCHANGED applied /\ call[c].pc = "prepare"
    BY <1>3 DEF Prepare, known
  <2>4. call[c].write \in BOOLEAN
    BY <1>0 DEF Call
  <2> HIDE DEF x
  <2> QED BY <1>1, <2>1, <2>2, <2>3, <2>4
<1>4. CASE Backoff(c)
  <2> DEFINE x == [call[c] EXCEPT !.pc = IF call[c].path = "do" THEN "flight" ELSE "prepare",
                                  !.attempt = @ + 1]
  <2>1. /\ Set(c, x) /\ UNCHANGED applied /\ call[c].pc = "backoff"
    BY <1>4 DEF Backoff
  <2>2. call[c].attempt \in 1..MaxAttempts /\ call[c].attempt < MaxAttempts
    BY <1>0, <2>1 DEF TransportInv, CallInv, Call
  <2>3. call[c].attempt + 1 \in 1..MaxAttempts
    BY <2>2, TransportAssumption
  <2>4. /\ x \in Call /\ x.pc \in {"flight", "prepare"} /\ x.write = call[c].write
        /\ x.result = call[c].result /\ x.inm = call[c].inm
        /\ x.lastErr = call[c].lastErr /\ x.lastResp = call[c].lastResp
    BY <1>0, <2>3 DEF Call
  <2> HIDE DEF x
  <2> QED BY <1>1, <2>1, <2>4
<1> QED BY <1>2, <1>3, <1>4

LEMMA ArrivesSim ==
    ASSUME TransportInv, OnceInv, NEW c \in Calls, NEW r \in Reply, Arrives(c, r),
           call[c].pc = "flight",
           UNCHANGED applied \/ (call[c].write /\ Executed(c)),
           call[c].write => /\ r.kind \notin {"none", "unmodified"}
                            /\ r.kind \in {"unsent", "refused"} => UNCHANGED applied
                            /\ r.kind = "ok" => Executed(c)
    PROVE  Sim(c)
<1> DEFINE x == [call[c] EXCEPT !.pc = "arrived", !.reply = r]
<1>0. /\ call \in [Calls -> Call] /\ call[c] \in Call /\ OnceCall(call[c], applied[c])
      /\ applied \in [Calls -> 0..MaxAttempts] /\ call[c].write \in BOOLEAN
  BY DEF TransportInv, TransportTypeOK, OnceInv, Call
<1>1. /\ x \in Call /\ x.pc = "arrived" /\ x.reply = r /\ x.inm = call[c].inm
      /\ x.result = call[c].result /\ x.write = call[c].write
      /\ x.lastErr = call[c].lastErr /\ x.lastResp = call[c].lastResp
  BY <1>0 DEF Call
<1>2. Set(c, x)
  BY DEF Arrives
<1> HIDE DEF x
<1>3. call'[c] = x
  BY <1>0, <1>1, <1>2, SetStep
<1>4. applied'[c] = applied[c] \/ (call[c].write /\ applied'[c] = applied[c] + 1)
  BY <1>0 DEF Executed
<1>5. Executed(c) => applied'[c] = applied[c] + 1
  BY <1>0 DEF Executed
<1>6. UNCHANGED applied => applied'[c] = applied[c]
  OBVIOUS
<1>7. call[c].write => applied[c] = 0
  BY <1>0 DEF OnceCall
<1>8. call[c].write => /\ r.kind \notin {"none", "unmodified"}
                       /\ r.kind \in {"unsent", "refused"} => applied'[c] = 0
                       /\ r.kind = "ok" => applied'[c] = 1
                       /\ applied'[c] \in {0, 1}
  BY <1>4, <1>5, <1>6, <1>7
<1>9. ~call[c].write => applied'[c] = applied[c]
  BY <1>4
<1>10. OnceCall(x, applied'[c])
  BY <1>0, <1>1, <1>8, <1>9 DEF OnceCall
<1>11. OnceStep(call[c], applied[c], x, applied'[c])
  BY <1>0, <1>1, <1>4, <1>7, <1>9 DEF OnceStep, Phase, Claim
<1> QED BY <1>3, <1>10, <1>11 DEF Sim

LEMMA NetworkSim ==
    ASSUME TransportInv, OnceInv, NEW c \in Calls,
           Unsent(c) \/ Lost(c) \/ ServeRead(c) \/ ServeWrite(c) \/ ServeError(c)
    PROVE  Sim(c)
<1>0. /\ NoBody \in Body \cup {NoBody}
      /\ \A kind, cut, b : Got(kind, cut, b).kind = kind
  BY DEF Got
<1>1. CASE Unsent(c)
  BY <1>0, <1>1, Replies, ArrivesSim DEF Unsent
<1>2. CASE Lost(c)
  <2>1. Arrives(c, Got("lost", FALSE, NoBody)) /\ Got("lost", FALSE, NoBody).kind = "lost"
    BY <1>0, <1>2 DEF Lost
  <2>2. Got("lost", FALSE, NoBody) \in Reply
    BY <1>0, Replies
  <2> QED BY <1>2, <2>1, <2>2, ArrivesSim DEF Lost, MaybeExecuted
<1>3. CASE ServeRead(c)
  <2> DEFINE b == [tok |-> call[c].tok, ver |-> version]
  <2>1. b \in Body
    BY <1>3 DEF TransportInv, TransportTypeOK, CallInv, ServeRead, Body
  <2> HIDE DEF b
  <2>2. PICK r \in Reply : Arrives(c, r)
    <3>1. CASE call[c].inm = version
      BY <1>0, <1>3, <3>1, Replies DEF ServeRead
    <3>2. CASE call[c].inm # version
      <4>1. PICK cut \in BOOLEAN : Arrives(c, Got("ok", cut, b))
        BY <1>3, <3>2 DEF ServeRead, b
      <4> QED BY <2>1, <4>1, Replies
    <3> QED BY <3>1, <3>2
  <2> QED BY <1>3, <2>2, ArrivesSim DEF ServeRead
<1>4. CASE ServeWrite(c)
  <2>1. PICK cut \in BOOLEAN : Arrives(c, Got("ok", cut, NoBody))
    BY <1>4 DEF ServeWrite
  <2>2. Got("ok", cut, NoBody) \in Reply /\ Got("ok", cut, NoBody).kind = "ok"
    BY <1>0, Replies
  <2> QED BY <1>4, <2>1, <2>2, ArrivesSim DEF ServeWrite
<1>5. CASE ServeError(c)
  <2>1. PICK cut \in BOOLEAN :
           \/ Arrives(c, Got("transient", cut, NoBody)) /\ MaybeExecuted(c)
           \/ Arrives(c, Got("refused", cut, NoBody)) /\ UNCHANGED applied
    BY <1>5 DEF ServeError
  <2>2. /\ Got("transient", cut, NoBody) \in Reply /\ Got("transient", cut, NoBody).kind = "transient"
        /\ Got("refused", cut, NoBody) \in Reply /\ Got("refused", cut, NoBody).kind = "refused"
    BY <1>0, Replies
  <2>3. call[c].pc = "flight"
    BY <1>5 DEF ServeError
  <2>4. CASE Arrives(c, Got("transient", cut, NoBody)) /\ MaybeExecuted(c)
    BY <2>2, <2>3, <2>4, ArrivesSim DEF MaybeExecuted
  <2>5. CASE Arrives(c, Got("refused", cut, NoBody)) /\ UNCHANGED applied
    BY <2>2, <2>3, <2>5, ArrivesSim
  <2> QED BY <2>1, <2>4, <2>5
<1> QED BY <1>1, <1>2, <1>3, <1>4, <1>5

LEMMA ArriveSim ==
    ASSUME ~RetryWrite, TransportInv, OnceInv, NEW c \in Calls,
           ArriveError(c) \/ ArriveUnmodified(c) \/ ArriveOk(c) \/ ArriveCutOk(c) \/ ArriveStatus(c)
    PROVE  Sim(c)
<1>0. /\ call \in [Calls -> Call] /\ call[c] \in Call /\ OnceCall(call[c], applied[c])
      /\ call[c].pc = "arrived" /\ UNCHANGED applied /\ call[c].write \in BOOLEAN
      /\ call[c].reply.body \in Body \cup {NoBody} /\ call[c].tok \in Tokens
      /\ NoBody \in Body \cup {NoBody}
  BY DEF TransportInv, TransportTypeOK, OnceInv, Call, CallInv, Reply,
         ArriveError, ArriveUnmodified, ArriveOk, ArriveCutOk, ArriveStatus
<1>f. Failure(FALSE) \in Result /\ Failure(FALSE).kind = "error" /\ ~Failure(FALSE).unsent
  BY Results DEF Failure
<1>a. \A k, b, v : Answer(k, b, v).kind = k /\ ~Answer(k, b, v).unsent
  BY DEF Answer
<1>1. CASE ArriveError(c)
  BY <1>0, <1>1, FailsSim DEF ArriveError, OnceCall
<1>2. CASE ArriveUnmodified(c)
  <2>1. ~call[c].write
    BY <1>0, <1>2 DEF ArriveUnmodified, OnceCall
  <2>2. CASE Finish(c, Failure(FALSE))
    BY <1>0, <1>f, <2>2, FinishSim
  <2>3. CASE AttemptFails(c, "entry gone")
    BY <1>0, <2>3, FailsSim
  <2>4. CASE Finish(c, Answer("ok", cache[EtagKey(c)], call[c].inm))
    <3>1. cache[EtagKey(c)] \in Body \cup {NoBody} /\ call[c].inm \in Versions \cup {None}
      BY <1>0 DEF TransportInv, TransportTypeOK, EtagKey, Call
    <3>2. Answer("ok", cache[EtagKey(c)], call[c].inm) \in Result
      BY <3>1, Results
    <3>3. call[c].pc \notin {"new", "done"}
      BY <1>0
    <3>4. Finish(c, Answer("ok", cache[EtagKey(c)], call[c].inm)) /\ UNCHANGED applied
      BY <1>0, <2>4
    <3> QED BY <2>1, <3>2, <3>3, <3>4, FinishSim
  <2> QED BY <1>2, <2>2, <2>3, <2>4 DEF ArriveUnmodified
<1>3. CASE ArriveOk(c)
  <2>1. Answer("ok", call[c].reply.body, None) \in Result
    BY <1>0, Results
  <2>2. call[c].write => applied[c] = 1
    BY <1>0, <1>3 DEF ArriveOk, OnceCall
  <2> QED BY <1>0, <1>3, <1>a, <2>1, <2>2, FinishSim DEF ArriveOk
<1>4. CASE ArriveCutOk(c)
  <2>1. Answer("ok", NoBody, None) \in Result
    BY <1>0, Results
  <2>2. call[c].write => applied[c] = 1
    BY <1>0, <1>4 DEF ArriveCutOk, OnceCall
  <2>3. CASE Finish(c, Failure(FALSE))
    BY <1>0, <1>f, <2>3, FinishSim
  <2>4. CASE AttemptFails(c, "body")
    BY <1>0, <2>4, FailsSim
  <2>5. CASE Finish(c, Answer("ok", NoBody, None))
    BY <1>0, <1>a, <2>1, <2>2, <2>5, FinishSim
  <2> QED BY <1>4, <2>3, <2>4, <2>5 DEF ArriveCutOk
<1>5. CASE ArriveStatus(c)
  <2> DEFINE kind == call[c].reply.kind
  <2>1. kind \in {"transient", "refused"}
    BY <1>5 DEF ArriveStatus
  <2>2. Answer(kind, NoBody, None) \in Result
    BY <1>0, <2>1, Results
  <2>3. CASE Finish(c, Failure(FALSE))
    BY <1>0, <1>f, <2>3, FinishSim
  <2>4. CASE Finish(c, Answer(kind, NoBody, None))
    <3>1. call[c].write /\ kind = "refused" => applied[c] = 0
      BY <1>0 DEF OnceCall
    <3> HIDE DEF kind
    <3> QED BY <1>0, <1>a, <2>1, <2>2, <2>4, <3>1, FinishSim
  <2>5. CASE /\ CanRetryResponse(c, kind)
             /\ \/ RetryOrGiveUp(c, [call[c] EXCEPT !.lastErr = "other", !.lastResp = FALSE])
                \/ RetryOrGiveUp(c, [call[c] EXCEPT !.lastResp = TRUE])
    <3>1. ~call[c].write
      BY <2>5 DEF CanRetryResponse, MethodRetryable
    <3>2. call'[c].write = call[c].write
      <4>1. ASSUME NEW x \in Call, x.write = call[c].write, RetryOrGiveUp(c, x)
            PROVE  call'[c].write = call[c].write
        BY <1>0, <4>1, RetryStep
      <4>2. /\ [call[c] EXCEPT !.lastErr = "other", !.lastResp = FALSE] \in Call
            /\ [call[c] EXCEPT !.lastErr = "other", !.lastResp = FALSE].write = call[c].write
            /\ [call[c] EXCEPT !.lastResp = TRUE] \in Call
            /\ [call[c] EXCEPT !.lastResp = TRUE].write = call[c].write
        BY <1>0 DEF Call
      <4> QED BY <2>5, <4>1, <4>2
    <3> QED BY <1>0, <3>1, <3>2 DEF Sim, OnceCall, OnceStep, Phase, Claim
  <2> QED BY <1>5, <2>3, <2>4, <2>5 DEF ArriveStatus
<1> QED BY <1>1, <1>2, <1>3, <1>4, <1>5

LEMMA CallStepSim ==
    ASSUME ~RetryWrite, TransportInv, OnceInv, NEW c \in Calls, CallStep(c)
    PROVE  Sim(c)
<1>1. CASE Start(c) \/ Prepare(c) \/ Backoff(c)
  BY <1>1, SendSim
<1>2. CASE PrepareFails(c)
  <2>0. OnceCall(call[c], applied[c]) /\ call[c].pc = "prepare" /\ UNCHANGED applied
    BY <1>2 DEF OnceInv, PrepareFails
  <2>1. call[c].write => applied[c] = 0
    BY <2>0 DEF OnceCall
  <2>2. CASE Finish(c, Failure(TRUE))
    <3>1. Failure(TRUE) \in Result /\ Failure(TRUE).kind = "error"
      BY Results DEF Failure
    <3> QED BY <2>0, <2>1, <2>2, <3>1, FinishSim
  <2>3. ASSUME NEW kind \in {"refused by hook", "unsent"}, AttemptFails(c, kind)
        PROVE  Sim(c)
    BY <2>0, <2>1, <2>3, FailsSim
  <2> QED BY <1>2, <2>2, <2>3 DEF PrepareFails
<1>3. CASE Unsent(c) \/ Lost(c) \/ ServeRead(c) \/ ServeWrite(c) \/ ServeError(c)
  BY <1>3, NetworkSim
<1>4. CASE ArriveError(c) \/ ArriveUnmodified(c) \/ ArriveOk(c) \/ ArriveCutOk(c) \/ ArriveStatus(c)
  BY <1>4, ArriveSim
<1>5. CASE Cancel(c)
  <2> DEFINE r == [NoResult EXCEPT !.kind = "cancelled"]
  <2>1. r \in Result /\ r.kind = "cancelled" /\ ~r.unsent
    BY Results DEF NoResult
  <2>2. Finish(c, r) /\ call[c].pc = "backoff" /\ UNCHANGED applied
    BY <1>5 DEF Cancel
  <2> HIDE DEF r
  <2> QED BY <2>1, <2>2, FinishSim
<1> QED BY <1>1, <1>2, <1>3, <1>4, <1>5 DEF CallStep

LEMMA OneCallMoves ==
    ASSUME TransportInv, TransportInv', NEW c \in Calls, CallStep(c)
    PROVE  \A d \in Calls : d # c => call'[d] = call[d] /\ applied'[d] = applied[d]
<1>0. call \in [Calls -> Call] /\ applied \in [Calls -> 0..MaxAttempts]
  BY DEF TransportInv, TransportTypeOK
<1>1. UNCHANGED applied \/ Executed(c)
  BY DEF CallStep, Start, Prepare, PrepareFails, Unsent, Lost, ServeRead, ServeWrite, ServeError,
     MaybeExecuted, ArriveError, ArriveUnmodified, ArriveOk, ArriveCutOk, ArriveStatus, Backoff, Cancel
<1>2. \E x : call' = [call EXCEPT ![c] = x]
  BY DEF CallStep, Start, Prepare, PrepareFails, Unsent, Lost, ServeRead, ServeWrite, ServeError,
     ArriveError, ArriveUnmodified, ArriveOk, ArriveCutOk, ArriveStatus, Backoff, Cancel,
     Arrives, AttemptFails, RetryOrGiveUp, Finish, Set
<1> QED BY <1>0, <1>1, <1>2 DEF Executed

phaseBar == [c \in Calls |-> Phase(call[c])]
claimBar == [c \in Calls |-> Claim(call[c])]

LEMMA BarStep ==
    ASSUME applied \in [Calls -> Nat], applied' \in [Calls -> Nat], NEW c \in Calls,
           \A d \in Calls : d # c => call'[d] = call[d] /\ applied'[d] = applied[d],
           OnceStep(call[c], applied[c], call'[c], applied'[c])
    PROVE  \/ UNCHANGED <<phaseBar, applied, claimBar>>
           \/ /\ phaseBar[c] = "new" /\ phaseBar' = [phaseBar EXCEPT ![c] = "open"]
              /\ UNCHANGED <<applied, claimBar>>
           \/ /\ phaseBar[c] = "open" /\ applied[c] = 0
              /\ applied' = [applied EXCEPT ![c] = 1]
              /\ UNCHANGED <<phaseBar, claimBar>>
           \/ \E said \in {"done", "not done", "unknown"} :
                 /\ phaseBar[c] = "open"
                 /\ said = "done" => applied[c] = 1
                 /\ said = "not done" => applied[c] = 0
                 /\ phaseBar' = [phaseBar EXCEPT ![c] = "closed"]
                 /\ claimBar' = [claimBar EXCEPT ![c] = said]
                 /\ UNCHANGED applied
<1>1. /\ phaseBar[c] = Phase(call[c]) /\ claimBar[c] = Claim(call[c])
      /\ phaseBar' = [phaseBar EXCEPT ![c] = Phase(call'[c])]
      /\ claimBar' = [claimBar EXCEPT ![c] = Claim(call'[c])]
      /\ applied' = [applied EXCEPT ![c] = applied'[c]]
  <2>1. \A d \in Calls : /\ phaseBar'[d] = Phase(call'[d]) /\ claimBar'[d] = Claim(call'[d])
                         /\ d # c => Phase(call'[d]) = Phase(call[d]) /\ Claim(call'[d]) = Claim(call[d])
    BY DEF phaseBar, claimBar
  <2> QED BY <2>1 DEF phaseBar, claimBar
<1>2. ASSUME Phase(call'[c]) = Phase(call[c]) PROVE phaseBar' = phaseBar
  BY <1>1, <1>2 DEF phaseBar
<1>3. ASSUME Claim(call'[c]) = Claim(call[c]) PROVE claimBar' = claimBar
  BY <1>1, <1>3 DEF claimBar
<1>4. ASSUME applied'[c] = applied[c] PROVE applied' = applied
  BY <1>1, <1>4
<1>5. Claim(call'[c]) \in {"done", "not done", "unknown"}
  BY DEF Claim
<1> HIDE DEF phaseBar, claimBar
<1> QED BY <1>1, <1>2, <1>3, <1>4, <1>5 DEF OnceStep

LEMMA OnceRefinesInit == TransportInit => Once!Init
<1> SUFFICES ASSUME TransportInit PROVE Once!Init
  OBVIOUS
<1>1. ASSUME NEW c \in Calls PROVE Phase(call[c]) = "new" /\ Claim(call[c]) = "unknown"
  BY DEF TransportInit, Phase, Claim, NoResult
<1>2. applied = [c \in Calls |-> 0]
  BY DEF TransportInit
<1> QED BY <1>1, <1>2 DEF Once!Init, Phase, Claim

LEMMA OnceRefinesStep ==
    ASSUME ~RetryWrite
    PROVE  /\ TransportInv /\ TransportInv' /\ OnceInv /\ [TransportNext]_transportVars
              => OnceInv' /\ [Once!Next]_(Once!onceVars)
<1> SUFFICES ASSUME TransportInv, TransportInv', OnceInv, [TransportNext]_transportVars
             PROVE  OnceInv' /\ [Once!Next]_(Once!onceVars)
  OBVIOUS
<1>1. ASSUME NEW c \in Calls, CallStep(c) PROVE OnceInv' /\ [Once!Next]_(Once!onceVars)
  <2>1. Sim(c)
    BY <1>1, CallStepSim
  <2>2. \A d \in Calls : d # c => call'[d] = call[d] /\ applied'[d] = applied[d]
    BY <1>1, OneCallMoves
  <2>3. OnceInv'
    BY <2>1, <2>2 DEF Sim, OnceInv
  <2>4. applied \in [Calls -> Nat] /\ applied' \in [Calls -> Nat]
    BY DEF TransportInv, TransportTypeOK
  <2>5. [Once!Next]_(Once!onceVars)
    BY <2>1, <2>2, <2>4, BarStep
       DEF Sim, Once!Next, Once!Open, Once!Execute, Once!Close, Once!onceVars, phaseBar, claimBar, Phase, Claim
  <2> QED BY <2>3, <2>5
<1>2. ASSUME UNCHANGED <<call, applied>> PROVE OnceInv' /\ [Once!Next]_(Once!onceVars)
  BY <1>2 DEF OnceInv, Once!onceVars
<1>3. \/ \E c \in Calls : CallStep(c)
      \/ UNCHANGED <<call, applied>>
  BY DEF TransportNext, ServerChanges, RotateToken, Evict, transportVars
<1> QED BY <1>1, <1>2, <1>3

(* While RetryWrite is off, a write is executed at most once and what its  *)
(* caller is told of it is true: the transport implements WriteOnce, for   *)
(* any number of calls and attempts.                                       *)
THEOREM WriteOnceCorrect == ASSUME ~RetryWrite PROVE TransportSpec => WriteOnceHolds
<1>1. TransportInv /\ OnceInv /\ TransportInv' /\ [TransportNext]_transportVars
        => OnceInv' /\ [Once!Next]_(Once!onceVars)
  BY OnceRefinesStep
<1> QED BY <1>1, InvCorrect, OnceInitInv, OnceRefinesInit, PTL
        DEF TransportSpec, WriteOnceHolds, Once!Spec

(* On the round tripper an answer to the last attempt is not hidden by an  *)
(* error of an earlier one.                                                *)
THEOREM LastResponseCorrect == TransportSpec => LastResponseReturned
<1> DEFINE Kept == \A c \in Calls :
         /\ call[c].pc = "arrived" /\ call[c].reply.kind = "transient" /\ ~call[c].reply.cut
         /\ call'[c].pc = "done" /\ call[c].path = "rt"
         => call'[c].result.kind = "transient"
<1>1. TransportInv /\ TransportInv' /\ [TransportNext]_transportVars => [Kept]_transportVars
  <2> SUFFICES ASSUME TransportInv, TransportInv', TransportNext, NEW c \in Calls,
                      call[c].pc = "arrived", call[c].reply.kind = "transient", ~call[c].reply.cut,
                      call'[c].pc = "done", call[c].path = "rt"
               PROVE  call'[c].result.kind = "transient"
    OBVIOUS
  <2>1. call[c] \in Call /\ call \in [Calls -> Call]
    BY DEF TransportInv, TransportTypeOK
  <2>2. PICK d \in Calls : CallStep(d)
    BY DEF TransportNext, ServerChanges, RotateToken, Evict
  <2>3. d = c
    BY <2>1, <2>2, OneCallMoves
  <2>4. ArriveStatus(c)
    BY <2>2, <2>3 DEF CallStep, Start, Prepare, PrepareFails, Unsent, Lost, ServeRead, ServeWrite,
       ServeError, ArriveError, ArriveUnmodified, ArriveOk, ArriveCutOk, Backoff, Cancel
  <2>5. Answer("transient", NoBody, None).kind = "transient"
    BY DEF Answer
  <2>6. CASE Finish(c, Answer("transient", NoBody, None))
    <3>1. NoBody \in Body \cup {NoBody}
      OBVIOUS
    <3>2. Answer("transient", NoBody, None) \in Result
      BY <3>1, Results
    <3> QED BY <2>1, <2>5, <2>6, <3>2, FinishStep
  <2>7. CASE RetryOrGiveUp(c, [call[c] EXCEPT !.lastResp = TRUE])
    <3> DEFINE x == [call[c] EXCEPT !.lastResp = TRUE]
    <3>1. x \in Call /\ x.lastResp /\ x.path = "rt"
      BY <2>1 DEF Call
    <3>2. RetryOrGiveUp(c, x)
      BY <2>7
    <3> HIDE DEF x
    <3> QED BY <2>1, <2>5, <3>1, <3>2, RetryStep
  <2> QED BY <2>4, <2>6, <2>7 DEF ArriveStatus
<1> QED BY <1>1, InvCorrect, PTL DEF TransportSpec, LastResponseReturned

-----------------------------------------------------------------------------
(* The token source: what a caller has.                                    *)
Gotten == [token : Token, at : Nat, kept : BOOLEAN]

(* The values that the variables take.                                     *)
TokenTypeOK ==
    /\ clock \in Nat
    /\ kept \in Token
    /\ where \in [Askers -> {"away", "waiting", "fetching"}]
    /\ answer \in [Askers -> Token]
    /\ got \in [Askers -> Gotten]

AnswerOf(c) ==
    answer[c] # NoToken =>
        /\ where[c] = "fetching"
        /\ answer[c].issued <= clock
        /\ clock <= answer[c].issued + MaxDelay
        /\ answer[c].told => answer[c].expires = Dies(answer[c])
        /\ ~answer[c].told => answer[c].life = FallbackTTL
AnswerOK == \A c \in Askers : AnswerOf(c)

Honest(t) ==
    /\ t.told => t.expires = Dies(t)
    /\ Dies(t) <= t.expires
    /\ t.expires <= Dies(t) + MaxDelay
KeptOK == Honest(kept)

Good(g) ==
    /\ g.kept /\ g.token.told => g.at + Margin < Dies(g.token)
    /\ g.kept => g.at + Margin < Dies(g.token) + MaxDelay
    /\ ~g.kept /\ g.token.life > MaxDelay => g.at < Dies(g.token)
GotOK == \A c \in Askers : Good(got[c])

OneFetch == \A c, d \in Askers :
    where[c] = "fetching" /\ where[d] = "fetching" => c = d

DueOf(c) ==
    /\ where[c] = "fetching" => clock + Margin >= Dies(kept)
    /\ answer[c] # NoToken => answer[c].issued + Margin >= Dies(kept)
DueOK == \A c \in Askers : DueOf(c)

IInv == TokenTypeOK /\ AnswerOK /\ KeptOK /\ GotOK /\ OneFetch /\ DueOK
-----------------------------------------------------------------------------
LEMMA InitIInv == TokenInit => IInv
  BY TokenSourceAssumption, SMT
     DEF TokenInit, IInv, TokenTypeOK, AnswerOK, AnswerOf, KeptOK, Honest, GotOK,
         Good, OneFetch, DueOK, DueOf, Dies, NoToken, Nothing, Token, Gotten

(* A call begins: nothing that the invariant speaks of changes, but where  *)
(* the caller is.                                                          *)
LEMMA AskIInv == ASSUME NEW c \in Askers, IInv, Ask(c) PROVE IInv'
<1>1. TokenTypeOK'
  BY DEF IInv, TokenTypeOK, Ask
<1>2. AnswerOK'
  BY DEF IInv, TokenTypeOK, AnswerOK, AnswerOf, Ask, Dies
<1>3. KeptOK' /\ GotOK'
  BY DEF IInv, KeptOK, GotOK, Honest, Good, Ask, Dies
<1>4. OneFetch'
  BY DEF IInv, TokenTypeOK, OneFetch, Ask
<1>5. DueOK'
  BY DEF IInv, TokenTypeOK, DueOK, DueOf, Ask, Dies
<1> QED BY <1>1, <1>2, <1>3, <1>4, <1>5 DEF IInv

LEMMA ServeIInv == ASSUME NEW c \in Askers, IInv, Serve(c) PROVE IInv'
<1> DEFINE g == [token |-> kept, at |-> clock, kept |-> TRUE]
<1>1. TokenTypeOK'
  <2>1. g \in Gotten
    BY DEF IInv, TokenTypeOK, Gotten
  <2> HIDE DEF g
  <2>2. got' = [got EXCEPT ![c] = g]
    BY DEF Serve, g
  <2> QED BY <2>1, <2>2 DEF IInv, TokenTypeOK, Serve
<1>2. AnswerOK'
  BY DEF IInv, TokenTypeOK, AnswerOK, AnswerOf, Serve, Dies
<1>3. KeptOK'
  BY DEF IInv, KeptOK, Honest, Serve, Dies
<1>4. GotOK'
  <2>1. Good(g)
    BY TokenSourceAssumption, SMT
       DEF IInv, TokenTypeOK, KeptOK, Honest, Good, Serve, Fresh, Dies, Token
  <2> HIDE DEF g
  <2>2. got' = [got EXCEPT ![c] = g]
    BY DEF Serve, g
  <2>3. \A d \in Askers : got'[d] = g \/ got'[d] = got[d]
    BY <2>2 DEF IInv, TokenTypeOK
  <2> QED BY <2>1, <2>3 DEF IInv, GotOK, Good, Dies
<1>5. OneFetch'
  BY DEF IInv, TokenTypeOK, OneFetch, Serve
<1>6. DueOK'
  BY DEF IInv, TokenTypeOK, DueOK, DueOf, Serve, Dies
<1> QED BY <1>1, <1>2, <1>3, <1>4, <1>5, <1>6 DEF IInv

(* A fetch begins where the token is due.                                  *)
LEMMA FetchIInv == ASSUME NEW c \in Askers, IInv, Fetch(c) PROVE IInv'
<1>1. TokenTypeOK'
  BY DEF IInv, TokenTypeOK, Fetch
<1>2. AnswerOK'
  BY DEF IInv, TokenTypeOK, AnswerOK, AnswerOf, Fetch, Dies
<1>3. KeptOK' /\ GotOK'
  BY DEF IInv, KeptOK, GotOK, Honest, Good, Fetch, Dies
<1>4. OneFetch'
  BY DEF IInv, TokenTypeOK, OneFetch, Fetch, Unlocked
<1>5. DueOK'
  <2>1. clock + Margin >= Dies(kept)
    <3>1. CASE kept = NoToken
      BY <3>1, TokenSourceAssumption, SMT DEF IInv, TokenTypeOK, NoToken, Dies
    <3>2. CASE kept # NoToken
      BY <3>2, TokenSourceAssumption, SMT
         DEF IInv, TokenTypeOK, KeptOK, Honest, Fetch, Fresh, Dies, Token
    <3> QED BY <3>1, <3>2
  <2> QED BY <2>1 DEF IInv, TokenTypeOK, DueOK, DueOf, Fetch, Dies
<1> QED BY <1>1, <1>2, <1>3, <1>4, <1>5 DEF IInv

LEMMA IssueIInv == ASSUME NEW c \in Askers, IInv, Issue(c) PROVE IInv'
<1> PICK life \in Lives, told \in BOOLEAN :
      /\ told \/ life = FallbackTTL
      /\ answer' = [answer EXCEPT ![c] =
            [issued |-> clock, life |-> life, told |-> told,
             expires |-> IF told THEN clock + life ELSE 0]]
  BY DEF Issue
<1> DEFINE t == [issued |-> clock, life |-> life, told |-> told,
                 expires |-> IF told THEN clock + life ELSE 0]
<1>1. /\ t \in Token
      /\ t.issued = clock
      /\ t.told => t.expires = Dies(t)
      /\ ~t.told => t.life = FallbackTTL
  BY TokenSourceAssumption DEF IInv, TokenTypeOK, Token, Dies
<1>2. answer' = [answer EXCEPT ![c] = t]
  OBVIOUS
<1> HIDE DEF t
<1>3. answer'[c] = t /\ \A d \in Askers : d # c => answer'[d] = answer[d]
  BY <1>2 DEF IInv, TokenTypeOK
<1>4. TokenTypeOK'
  BY <1>1, <1>2 DEF IInv, TokenTypeOK, Issue
<1>5. AnswerOK'
  <2> SUFFICES ASSUME NEW d \in Askers PROVE AnswerOf(d)'
    BY DEF AnswerOK
  <2>1. CASE d = c
    BY <2>1, <1>1, <1>3, TokenSourceAssumption
       DEF IInv, TokenTypeOK, AnswerOf, Issue, Dies
  <2>2. CASE d # c
    BY <2>2, <1>3 DEF IInv, AnswerOK, AnswerOf, Issue, Dies
  <2> QED BY <2>1, <2>2
<1>6. KeptOK' /\ GotOK'
  BY DEF IInv, KeptOK, GotOK, Honest, Good, Issue, Dies
<1>7. OneFetch'
  BY DEF IInv, OneFetch, Issue
<1>8. DueOK'
  BY <1>1, <1>3 DEF IInv, DueOK, DueOf, Issue, Dies
<1> QED BY <1>4, <1>5, <1>6, <1>7, <1>8 DEF IInv

(* The answer arrives.  Nobody else fetches, so no other answer is on its  *)
(* way that the new token could outlive.                                   *)
LEMMA ReceiveIInv == ASSUME NEW c \in Askers, IInv, Receive(c) PROVE IInv'
<1> DEFINE t == Believed(answer[c])
           g == [token |-> t, at |-> clock, kept |-> FALSE]
<1>1. /\ answer[c] \in Token
      /\ answer[c].issued <= clock
      /\ clock <= answer[c].issued + MaxDelay
      /\ answer[c].told => answer[c].expires = Dies(answer[c])
      /\ ~answer[c].told => answer[c].life = FallbackTTL
  BY DEF IInv, TokenTypeOK, AnswerOK, AnswerOf, Receive
<1>2. clock \in Nat
  BY DEF IInv, TokenTypeOK
<1>3. /\ t \in Token
      /\ t.issued = answer[c].issued /\ t.life = answer[c].life
      /\ t.told = answer[c].told
      /\ t.expires = IF t.told THEN answer[c].expires ELSE clock + FallbackTTL
  BY <1>1, <1>2, TokenSourceAssumption DEF Believed, Token
<1>4. kept' = t /\ got' = [got EXCEPT ![c] = g] /\ clock' = clock
  BY DEF Receive
<1>5. g \in Gotten
  BY <1>2, <1>3 DEF Gotten
<1>6. Honest(t)
  BY <1>1, <1>2, <1>3, TokenSourceAssumption DEF Honest, Dies, Token
<1>7. Good(g)
  BY <1>1, <1>2, <1>3, TokenSourceAssumption DEF Good, Dies, Token
<1> HIDE DEF t, g
<1>8. TokenTypeOK'
  <2>1. NoToken \in Token
    BY DEF NoToken, Token
  <2> QED BY <1>3, <1>4, <1>5, <2>1 DEF IInv, TokenTypeOK, Receive
<1>9. AnswerOK'
  BY DEF IInv, TokenTypeOK, AnswerOK, AnswerOf, Receive, Dies
<1>10. KeptOK'
  BY <1>4, <1>6 DEF KeptOK, Honest, Dies
<1>11. GotOK'
  <2>1. \A d \in Askers : got'[d] = g \/ got'[d] = got[d]
    BY <1>4 DEF IInv, TokenTypeOK
  <2> QED BY <1>7, <2>1 DEF IInv, GotOK, Good, Dies
<1>12. OneFetch'
  BY DEF IInv, TokenTypeOK, OneFetch, Receive
<1>13. \A d \in Askers : where'[d] # "fetching" /\ answer'[d] = NoToken
  BY DEF IInv, TokenTypeOK, OneFetch, AnswerOK, AnswerOf, Receive
<1>14. DueOK'
  BY <1>13 DEF DueOK, DueOf
<1> QED BY <1>8, <1>9, <1>10, <1>11, <1>12, <1>14 DEF IInv

LEMMA FailFetchIInv == ASSUME NEW c \in Askers, IInv, FailFetch(c) PROVE IInv'
<1>1. TokenTypeOK'
  <2>1. NoToken \in Token /\ Nothing \in Gotten
    BY DEF NoToken, Nothing, Token, Gotten
  <2> QED BY <2>1 DEF IInv, TokenTypeOK, FailFetch
<1>2. AnswerOK'
  BY DEF IInv, TokenTypeOK, AnswerOK, AnswerOf, FailFetch, Dies
<1>3. KeptOK'
  BY DEF IInv, KeptOK, Honest, FailFetch, Dies
<1>4. GotOK'
  <2>1. Good(Nothing)
    BY TokenSourceAssumption, SMT DEF Good, Nothing, NoToken, Dies
  <2>2. \A d \in Askers : got'[d] = Nothing \/ got'[d] = got[d]
    BY DEF IInv, TokenTypeOK, FailFetch
  <2> QED BY <2>1, <2>2 DEF IInv, GotOK, Good, Dies
<1>5. OneFetch'
  BY DEF IInv, TokenTypeOK, OneFetch, FailFetch
<1>6. DueOK'
  BY DEF IInv, TokenTypeOK, DueOK, DueOf, FailFetch, Dies
<1> QED BY <1>1, <1>2, <1>3, <1>4, <1>5, <1>6 DEF IInv

LEMMA TickIInv == ASSUME IInv, Tick PROVE IInv'
<1>1. clock \in Nat /\ clock' = clock + 1
  BY DEF IInv, TokenTypeOK, Tick
<1>2. TokenTypeOK'
  BY <1>1 DEF IInv, TokenTypeOK, Tick
<1>3. AnswerOK'
  <2> SUFFICES ASSUME NEW d \in Askers, answer[d] # NoToken PROVE AnswerOf(d)'
    BY DEF AnswerOK, AnswerOf, Tick
  <2>1. answer[d] \in Token /\ AnswerOf(d) /\ clock < answer[d].issued + MaxDelay
    BY DEF IInv, TokenTypeOK, AnswerOK, Tick
  <2>2. answer'[d] = answer[d] /\ where'[d] = where[d]
    BY DEF Tick
  <2> QED BY <1>1, <2>1, <2>2, TokenSourceAssumption DEF AnswerOf, Dies, Token
<1>4. KeptOK' /\ GotOK'
  BY DEF IInv, KeptOK, GotOK, Honest, Good, Tick, Dies
<1>5. OneFetch'
  BY DEF IInv, OneFetch, Tick
<1>6. DueOK'
  <2>1. Dies(kept) \in Nat
    BY DEF IInv, TokenTypeOK, Token, Dies
  <2> QED BY <1>1, <2>1, TokenSourceAssumption
         DEF IInv, DueOK, DueOf, Tick, Dies
<1> QED BY <1>2, <1>3, <1>4, <1>5, <1>6 DEF IInv

LEMMA StutterIInv == ASSUME IInv, UNCHANGED tokenVars PROVE IInv'
  BY DEF IInv, TokenTypeOK, AnswerOK, AnswerOf, KeptOK, Honest, GotOK, Good,
         OneFetch, DueOK, DueOf, Dies, tokenVars

(* The invariant that the properties rest on.                              *)
THEOREM TokenIInv == TokenSpec => []IInv
<1>1. IInv /\ [TokenNext]_tokenVars => IInv'
  BY AskIInv, ServeIInv, FetchIInv, IssueIInv, ReceiveIInv, FailFetchIInv,
     TickIInv, StutterIInv DEF TokenNext
<1> QED BY InitIInv, <1>1, PTL DEF TokenSpec

(* The cache, the answers and what callers have are what they should be.   *)
THEOREM TokenTypeCorrect == TokenSpec => []TokenTypeOK
  BY TokenIInv, PTL DEF IInv

-----------------------------------------------------------------------------
(* Token never hands out a token from the cache that a request sent within *)
(* the margin would carry too late.                                        *)
THEOREM InFlightValidCorrect == TokenSpec => []InFlightValid
<1>1. IInv => InFlightValid
  <2> SUFFICES ASSUME IInv, NEW c \in Askers
        PROVE  LET g == got[c]
               IN  /\ g.kept /\ g.token.told /\ clock <= g.at + Margin =>
                          clock < Dies(g.token)
                   /\ g.kept /\ clock + MaxDelay <= g.at + Margin =>
                          clock < Dies(g.token)
                   /\ ~g.kept /\ g.token.life > MaxDelay => g.at < Dies(g.token)
    BY DEF InFlightValid
  <2>1. got[c] \in Gotten /\ Good(got[c]) /\ clock \in Nat
    BY DEF IInv, TokenTypeOK, GotOK
  <2> QED BY <2>1, TokenSourceAssumption, SMT DEF Good, Gotten, Token, Dies
<1> QED BY TokenIInv, <1>1, PTL

(* Concurrent callers collapse onto one fetch: a token is replaced only    *)
(* by one that was issued when the margin of the old one had begun.        *)
THEOREM FetchesSpacedCorrect == TokenSpec => FetchesSpaced
<1> DEFINE Replaces == kept' # kept /\ kept # NoToken =>
                           kept'.issued + Margin >= Dies(kept)
<1>1. IInv /\ [TokenNext]_tokenVars => [Replaces]_tokenVars
  <2> SUFFICES ASSUME IInv, TokenNext, kept' # kept
        PROVE kept'.issued + Margin >= Dies(kept)
    OBVIOUS
  <2>1. PICK c \in Askers : Receive(c)
    BY DEF TokenNext, Ask, Serve, Fetch, Issue, FailFetch, Tick
  <2>2. answer[c] \in Token /\ DueOf(c) /\ answer[c] # NoToken
    BY <2>1 DEF IInv, TokenTypeOK, DueOK, Receive
  <2>3. kept'.issued = answer[c].issued
    BY <2>1, <2>2 DEF Receive, Believed, Token
  <2> QED BY <2>2, <2>3 DEF DueOf
<1> QED BY TokenIInv, <1>1, PTL DEF TokenSpec, FetchesSpaced
=============================================================================
