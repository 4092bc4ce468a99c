----------------------------- MODULE Transport -----------------------------
(***************************************************************************)
(* The HTTP pipeline of package transport under concurrent calls: token,   *)
(* conditional request, attempt, retry, ETag cache.                        *)
(*                                                                         *)
(* A call takes one of the two paths the package offers.  On "do"          *)
(* (Client.do) the request is authenticated and made conditional once and  *)
(* RetryConfig.Do repeats it as it is; the cache sees the final response.  *)
(* On "rt" (retryingRoundTripper over clientRoundTripper) every attempt    *)
(* authenticates the same request object anew and has its response         *)
(* processed by the cache before the retry loop sees it.                   *)
(*                                                                         *)
(* All reads are GETs of one resource, whose ETag is its version; writes   *)
(* are non-idempotent requests (POST, PATCH).  What a body holds is the    *)
(* token it was served to and the version.  The ETag cache is keyed by the *)
(* token, the rest of its key being the same for all reads here.  Between  *)
(* two steps of a call other calls, the server, token rotation and         *)
(* eviction run, so replies are late and cross each other.                 *)
(***************************************************************************)
EXTENDS Naturals

CONSTANTS
    Calls,       \* one call each
    MaxAttempts, \* RetryConfig.MaxAttempts, positive
    RetryWrite,  \* RetryConfig.RetryWrite
    MaxVersion,  \* bound on the versions of the resource
    MaxToken     \* bound on the tokens of the token source

ASSUME TransportAssumption ==
    /\ MaxAttempts \in Nat \ {0}
    /\ RetryWrite \in BOOLEAN
    /\ MaxVersion \in Nat \ {0}
    /\ MaxToken \in Nat \ {0}

VARIABLES
    version, \* of the resource, at the server
    token,   \* the token the token source hands out now
    cache,   \* ETagCache.entries: per key, the body stored, or NoBody
    call,    \* per call: where it is, the request's headers, its locals, its result
    applied  \* history: per call, how often the server executed the write

transportVars == <<version, token, cache, call, applied>>

None == 0
Versions == 1..MaxVersion
Tokens == 1..MaxToken
Body == [tok : Tokens, ver : Versions]
NoBody == [tok |-> None, ver |-> None]

(* What comes back from the network.  "unsent" is a DNS or dial error and  *)
(* "lost" any other network error; "transient" is a status that may be     *)
(* retried (429, 5xx, rate-limited 403), "refused" any other error status, *)
(* "unmodified" a 304.  A cut reply fails while its body is read.          *)
Reply == [kind : {"none", "unsent", "lost", "ok", "unmodified", "transient", "refused"},
          cut : BOOLEAN, body : Body \cup {NoBody}]
NoReply == [kind |-> "none", cut |-> FALSE, body |-> NoBody]

(* What the caller gets: a response ("ok", "transient", "refused") or an   *)
(* error.  named is the version in If-None-Match of a replayed response.   *)
(* unsent tells an error that proves that no attempt went out.             *)
Result == [kind : {"none", "ok", "transient", "refused", "error", "cancelled"},
           body : Body \cup {NoBody}, named : Versions \cup {None}, unsent : BOOLEAN]
NoResult == [kind |-> "none", body |-> NoBody, named |-> None, unsent |-> FALSE]

Call == [pc : {"new", "prepare", "flight", "arrived", "backoff", "done"},
         path : {"do", "rt"},
         write : BOOLEAN,
         attempt : 1..MaxAttempts,
         tok : Tokens \cup {None},       \* the Authorization header
         inm : Versions \cup {None},     \* the If-None-Match header
         reply : Reply,
         lastErr : {"none", "unsent", "other"},
         lastResp : BOOLEAN,             \* lastResp # nil
         result : Result]

----------------------------------------------------------------------------
(* RetryConfig: which outcomes may be repeated.                            *)

MethodRetryable(c) == ~call[c].write \/ RetryWrite

CanRetryResponse(c, kind) == kind = "transient" /\ MethodRetryable(c)

CanRetryErrorAnyMethod(c, kind) == TRUE
CanRetryError(c, kind) == MethodRetryable(c) \/ kind = "unsent"

(* The key of the cache for the request as it stands (etagKey).            *)
EtagKeyWithoutAuthorization(c) == 1
EtagKey(c) == call[c].tok

----------------------------------------------------------------------------
TransportInit ==
    /\ version = 1
    /\ token = 1
    /\ cache = [t \in Tokens |-> NoBody]
    /\ call \in [Calls -> {[pc |-> "new", path |-> p, write |-> w, attempt |-> 1, tok |-> None,
                            inm |-> None, reply |-> NoReply, lastErr |-> "none",
                            lastResp |-> FALSE, result |-> NoResult] :
                              p \in {"do", "rt"}, w \in BOOLEAN}]
    /\ applied = [c \in Calls |-> 0]

Set(c, new) == call' = [call EXCEPT ![c] = new]

Finish(c, result) == Set(c, [call[c] EXCEPT !.pc = "done", !.reply = NoReply, !.result = result])

Answer(kind, body, named) == [kind |-> kind, body |-> body, named |-> named, unsent |-> FALSE]
Failure(unsent) == [kind |-> "error", body |-> NoBody, named |-> None, unsent |-> unsent]

(* The end of the loop.  After a repeatable outcome of attempt x, wait for *)
(* the next attempt, or give up with what the attempts left behind: Do     *)
(* returns lastErr beside lastResp and its caller looks at the error       *)
(* first, the round tripper returns lastResp without an error.             *)
RetryOrGiveUpOffByOne(c, x) ==
    IF x.attempt <= MaxAttempts
    THEN Set(c, [x EXCEPT !.pc = "backoff", !.reply = NoReply])
    ELSE Set(c, [x EXCEPT !.pc = "done", !.reply = NoReply,
                          !.result = IF x.lastResp /\ (x.path = "rt" \/ x.lastErr = "none")
                                     THEN Answer("transient", NoBody, None)
                                     ELSE Failure(x.lastErr = "unsent")])

RetryOrGiveUpErrorFirst(c, x) ==
    IF x.attempt < MaxAttempts
    THEN Set(c, [x EXCEPT !.pc = "backoff", !.reply = NoReply])
    ELSE Set(c, [x EXCEPT !.pc = "done", !.reply = NoReply,
                          !.result = IF x.lastResp /\ x.lastErr = "none"
                                     THEN Answer("transient", NoBody, None)
                                     ELSE Failure(x.lastErr = "unsent")])

RetryOrGiveUp(c, x) ==
    IF x.attempt < MaxAttempts
    THEN Set(c, [x EXCEPT !.pc = "backoff", !.reply = NoReply])
    ELSE Set(c, [x EXCEPT !.pc = "done", !.reply = NoReply,
                          !.result = IF x.lastResp /\ (x.path = "rt" \/ x.lastErr = "none")
                                     THEN Answer("transient", NoBody, None)
                                     ELSE Failure(x.lastErr = "unsent")])

(* A network error, or what the loop takes for one.                        *)
AttemptFails(c, kind) ==
    IF CanRetryError(c, kind)
    THEN RetryOrGiveUp(c, [call[c] EXCEPT !.lastErr = IF kind = "unsent" THEN kind ELSE "other"])
    ELSE Finish(c, Failure(FALSE))

Start(c) ==
    /\ call[c].pc = "new"
    /\ Set(c, [call[c] EXCEPT !.pc = "prepare"])
    /\ UNCHANGED <<version, token, cache, applied>>

(* Authentication, request hooks, applyConditional: If-None-Match is added *)
(* to a read without one when the cache holds a body for the key.          *)
Prepare(c) ==
    /\ call[c].pc = "prepare"
    /\ LET known == IF call[c].write \/ call[c].inm # None THEN call[c].inm
                    ELSE cache[token].ver
       IN  Set(c, [call[c] EXCEPT !.pc = "flight", !.tok = token, !.inm = known])
    /\ UNCHANGED <<version, token, cache, applied>>

(* The token source or a request hook refuses.  On "do" nothing was sent   *)
(* and the error is returned; on "rt" it is an attempt that failed, and an *)
(* address the token source could not dial passes for the request's own.   *)
PrepareFails(c) ==
    /\ call[c].pc = "prepare"
    /\ IF call[c].path = "do"
       THEN Finish(c, Failure(TRUE))
       ELSE \E kind \in {"refused by hook", "unsent"} : AttemptFails(c, kind)
    /\ UNCHANGED <<version, token, cache, applied>>

----------------------------------------------------------------------------
(* The network and the server.                                             *)

Got(kind, cut, body) == [kind |-> kind, cut |-> cut, body |-> body]

Arrives(c, reply) == Set(c, [call[c] EXCEPT !.pc = "arrived", !.reply = reply])

Executed(c) == applied' = [applied EXCEPT ![c] = @ + 1]
MaybeExecuted(c) == \/ call[c].write /\ Executed(c)
                    \/ UNCHANGED applied

(* The attempt ends with a network error; unless it was never sent, a      *)
(* write may have been executed.                                           *)
Unsent(c) ==
    /\ call[c].pc = "flight"
    /\ Arrives(c, Got("unsent", FALSE, NoBody))
    /\ UNCHANGED <<version, token, cache, applied>>

Lost(c) ==
    /\ call[c].pc = "flight"
    /\ Arrives(c, Got("lost", FALSE, NoBody))
    /\ MaybeExecuted(c)
    /\ UNCHANGED <<version, token, cache>>

(* The server answers; a transient answer to a write leaves open whether   *)
(* the write was executed, a refusal does not.                             *)
ServeRead(c) ==
    /\ call[c].pc = "flight" /\ ~call[c].write
    /\ IF call[c].inm = version
       THEN Arrives(c, Got("unmodified", FALSE, NoBody))
       ELSE \E cut \in BOOLEAN :
               Arrives(c, Got("ok", cut, [tok |-> call[c].tok, ver |-> version]))
    /\ UNCHANGED <<version, token, cache, applied>>

ServeWrite(c) ==
    /\ call[c].pc = "flight" /\ call[c].write
    /\ \E cut \in BOOLEAN : Arrives(c, Got("ok", cut, NoBody))
    /\ Executed(c)
    /\ UNCHANGED <<version, token, cache>>

ServeError(c) ==
    /\ call[c].pc = "flight"
    /\ \E cut \in BOOLEAN :
          \/ Arrives(c, Got("transient", cut, NoBody)) /\ MaybeExecuted(c)
          \/ Arrives(c, Got("refused", cut, NoBody)) /\ UNCHANGED applied
    /\ UNCHANGED <<version, token, cache>>

ServerChanges ==
    /\ version < MaxVersion
    /\ version' = version + 1
    /\ UNCHANGED <<token, cache, call, applied>>

RotateToken ==
    /\ token < MaxToken
    /\ token' = token + 1
    /\ UNCHANGED <<version, cache, call, applied>>

(* The cache's LRU list pushes an entry out for another URL's.             *)
Evict(t) ==
    /\ cache[t] # NoBody
    /\ cache' = [cache EXCEPT ![t] = NoBody]
    /\ UNCHANGED <<version, token, call, applied>>

----------------------------------------------------------------------------
(* The reply is processed.                                                 *)

ArriveError(c) ==
    /\ call[c].pc = "arrived" /\ call[c].reply.kind \in {"unsent", "lost"}
    /\ AttemptFails(c, call[c].reply.kind)
    /\ UNCHANGED <<version, token, cache, applied>>

(* A 304 becomes the cached body; without one it is an error, on "do"      *)
(* after the loop and on "rt" inside it.                                   *)
ArriveUnmodified(c) ==
    /\ call[c].pc = "arrived" /\ call[c].reply.kind = "unmodified"
    /\ LET e == cache[EtagKey(c)]
       IN  IF e # NoBody THEN Finish(c, Answer("ok", e, call[c].inm))
           ELSE IF call[c].path = "rt" THEN AttemptFails(c, "entry gone")
           ELSE Finish(c, Failure(FALSE))
    /\ UNCHANGED <<version, token, cache, applied>>

(* A whole 200: a read is stored, unless it is not cacheable.              *)
ArriveOkNewToken(c) ==
    /\ call[c].pc = "arrived" /\ call[c].reply.kind = "ok" /\ ~call[c].reply.cut
    /\ \/ UNCHANGED cache
       \/ ~call[c].write /\ cache' = [cache EXCEPT ![token] = call[c].reply.body]
    /\ Finish(c, Answer("ok", call[c].reply.body, None))
    /\ UNCHANGED <<version, token, applied>>

ArriveOk(c) ==
    /\ call[c].pc = "arrived" /\ call[c].reply.kind = "ok" /\ ~call[c].reply.cut
    /\ \/ UNCHANGED cache
       \/ ~call[c].write /\ cache' = [cache EXCEPT ![EtagKey(c)] = call[c].reply.body]
    /\ Finish(c, Answer("ok", call[c].reply.body, None))
    /\ UNCHANGED <<version, token, applied>>

(* A 200 whose body breaks off.  "do" reads the body and fails; on "rt"    *)
(* the cache reads a cacheable body inside the loop, and leaves any other  *)
(* to the caller.                                                          *)
ArriveCutOk(c) ==
    /\ call[c].pc = "arrived" /\ call[c].reply.kind = "ok" /\ call[c].reply.cut
    /\ \/ call[c].path = "do" /\ Finish(c, Failure(FALSE))
       \/ call[c].path = "rt" /\ ~call[c].write /\ AttemptFails(c, "body")
       \/ call[c].path = "rt" /\ Finish(c, Answer("ok", NoBody, None))
    /\ UNCHANGED <<version, token, cache, applied>>

ArriveStatus(c) ==
    LET kind == call[c].reply.kind
        cut == call[c].reply.cut
    IN  /\ call[c].pc = "arrived" /\ kind \in {"transient", "refused"}
        /\ IF call[c].path = "do" /\ cut THEN Finish(c, Failure(FALSE))
           ELSE IF ~CanRetryResponse(c, kind) THEN Finish(c, Answer(kind, NoBody, None))
           ELSE IF cut THEN RetryOrGiveUp(c, [call[c] EXCEPT !.lastErr = "other", !.lastResp = FALSE])
           ELSE RetryOrGiveUp(c, [call[c] EXCEPT !.lastResp = TRUE])
        /\ UNCHANGED <<version, token, cache, applied>>

(* The backoff ends: with the next attempt, which "do" sends as it is, or  *)
(* because the caller's context does.                                      *)
Backoff(c) ==
    /\ call[c].pc = "backoff"
    /\ Set(c, [call[c] EXCEPT !.pc = IF call[c].path = "do" THEN "flight" ELSE "prepare",
                              !.attempt = @ + 1])
    /\ UNCHANGED <<version, token, cache, applied>>

Cancel(c) ==
    /\ call[c].pc = "backoff"
    /\ Finish(c, [NoResult EXCEPT !.kind = "cancelled"])
    /\ UNCHANGED <<version, token, cache, applied>>

CallStep(c) ==
    \/ Start(c) \/ Prepare(c) \/ PrepareFails(c)
    \/ Unsent(c) \/ Lost(c) \/ ServeRead(c) \/ ServeWrite(c) \/ ServeError(c)
    \/ ArriveError(c) \/ ArriveUnmodified(c) \/ ArriveOk(c) \/ ArriveCutOk(c) \/ ArriveStatus(c)
    \/ Backoff(c) \/ Cancel(c)

TransportNext == \/ \E c \in Calls : CallStep(c)
                 \/ ServerChanges
                 \/ RotateToken
                 \/ \E t \in Tokens : Evict(t)

TransportSpec == TransportInit /\ [][TransportNext]_transportVars

----------------------------------------------------------------------------
TransportTypeOK ==
    /\ version \in Versions
    /\ token \in Tokens
    /\ cache \in [Tokens -> Body \cup {NoBody}]
    /\ call \in [Calls -> Call]
    /\ applied \in [Calls -> 0..MaxAttempts]

(* The transport implements WriteOnce for its writes while RetryWrite is   *)
(* off: no write is executed twice, and what the caller is told is true.   *)
Once == INSTANCE WriteOnce WITH
    phase <- [c \in Calls |-> IF ~call[c].write \/ call[c].pc = "new" THEN "new"
                              ELSE IF call[c].pc = "done" THEN "closed" ELSE "open"],
    effects <- applied,
    claim <- [c \in Calls |-> IF ~call[c].write THEN "unknown"
                              ELSE IF call[c].result.kind = "ok" THEN "done"
                              ELSE IF call[c].result.kind = "refused" \/ call[c].result.unsent
                                   THEN "not done"
                              ELSE "unknown"]

WriteOnceHolds == Once!Spec

(* etagKey: "a refreshed token ... never serves another principal's cached *)
(* payload".  A body a read returns was served to the token the read last  *)
(* carried, however the token rotated and whatever crossed it.             *)
NoCrossPrincipal ==
    \A c \in Calls :
       call[c].result.body # NoBody => call[c].result.body.tok = call[c].tok

(* A body the cache holds was served by the server to the entry's token.   *)
(* A read with If-None-Match names a version the server has published.     *)
CacheFaithful ==
    /\ \A t \in Tokens : cache[t] # NoBody => cache[t].tok = t /\ cache[t].ver <= version
    /\ \A c \in Calls : call[c].inm <= version

(* ETagCache: "a 304 answer is transparently turned back into the cached   *)
(* 200 response".  The body a 304 is replaced with is not older than the   *)
(* version the request named and the server confirmed.                     *)
ReplayNotStale ==
    \A c \in Calls :
       LET r == call[c].result IN r.named # None => r.body.ver >= r.named

(* retryingRoundTripper: "a received response is not a transport error".   *)
(* When the attempts are used up and the last one got a whole response,    *)
(* the caller gets it: an error of an earlier attempt does not hide it.    *)
(* (RetryConfig.Do returns both, and Client.do lets the error win.)        *)
LastResponseReturned ==
    [][\A c \in Calls :
         /\ call[c].pc = "arrived" /\ call[c].reply.kind = "transient" /\ ~call[c].reply.cut
         /\ call'[c].pc = "done" /\ call[c].path = "rt"
         => call'[c].result.kind = "transient"]_transportVars
============================================================================
