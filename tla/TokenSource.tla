----------------------------- MODULE TokenSource -----------------------------
(***************************************************************************)
(* InstallationTokenSource of package githubapp: one installation token,   *)
(* cached until shortly before it expires, and fetched anew by the first   *)
(* caller that finds it so, while the others wait at the mutex.            *)
(*                                                                         *)
(* Between the platform's issuing of a token and its arrival time passes,  *)
(* at most MaxDelay: a request that went out is not repeated (a token      *)
(* request is a POST) and the client gives up on it after transport's      *)
(* DefaultTimeout, half of the default margin.  The clocks of the platform *)
(* and the client agree.                                                   *)
(***************************************************************************)
EXTENDS Naturals

CONSTANTS
    Askers,      \* callers of Token
    Margin,      \* margin()
    FallbackTTL, \* fallbackTTL()
    Lives,       \* how long the platform's tokens may live
    MaxDelay,    \* from issue to arrival
    MaxClock     \* bound: the time

ASSUME TokenSourceAssumption ==
    /\ Margin \in Nat /\ FallbackTTL \in Nat
    /\ Lives \subseteq Nat \ {0}
    /\ MaxDelay \in Nat /\ MaxDelay <= Margin
    /\ MaxClock \in Nat

VARIABLES
    clock,
    kept,    \* s.token and s.expiresAt
    where,   \* per asker: "away", at the mutex ("waiting") or in the fetch
    answer,  \* per asker: the platform's answer on its way
    got      \* per asker: the token that its latest call returned

tokenVars == <<clock, kept, where, answer, got>>

(* A token dies life after its issue.  The answer tells so, unless it      *)
(* leaves expires_at out, which the platform does only for the documented  *)
(* life.  expires is what the source believes.                             *)
NoToken == [issued |-> 0, life |-> 0, told |-> TRUE, expires |-> 0]
Token == [issued : Nat, life : Nat, told : BOOLEAN, expires : Nat]
Dies(t) == t.issued + t.life

(* What a caller has: the token, when it got it, and whether it was kept.  *)
Nothing == [token |-> NoToken, at |-> 0, kept |-> FALSE]

TokenInit ==
    /\ clock = 0
    /\ kept = NoToken
    /\ where = [c \in Askers |-> "away"]
    /\ answer = [c \in Askers |-> NoToken]
    /\ got = [c \in Askers |-> Nothing]

-----------------------------------------------------------------------------
Ask(c) ==
    /\ where[c] = "away"
    /\ where' = [where EXCEPT ![c] = "waiting"]
    /\ UNCHANGED <<clock, kept, answer, got>>

(* Who fetches does so under the mutex.                                    *)
Unlocked == \A c \in Askers : where[c] # "fetching"

(* Mutant: the token is kept up to its end.                                *)
FreshToTheEnd == kept # NoToken /\ clock < kept.expires
Fresh == kept # NoToken /\ clock + Margin < kept.expires

Serve(c) ==
    /\ where[c] = "waiting" /\ Unlocked /\ Fresh
    /\ where' = [where EXCEPT ![c] = "away"]
    /\ got' = [got EXCEPT ![c] = [token |-> kept, at |-> clock, kept |-> TRUE]]
    /\ UNCHANGED <<clock, kept, answer>>

(* Mutant: the mutex is not held during the fetch.                         *)
FetchUnlocked(c) ==
    /\ where[c] = "waiting" /\ ~Fresh
    /\ where' = [where EXCEPT ![c] = "fetching"]
    /\ UNCHANGED <<clock, kept, answer, got>>
Fetch(c) ==
    /\ where[c] = "waiting" /\ Unlocked /\ ~Fresh
    /\ where' = [where EXCEPT ![c] = "fetching"]
    /\ UNCHANGED <<clock, kept, answer, got>>

(* The platform receives the request and issues a token.                   *)
Issue(c) ==
    /\ where[c] = "fetching" /\ answer[c] = NoToken
    /\ \E life \in Lives, told \in BOOLEAN :
          /\ told \/ life = FallbackTTL
          /\ answer' = [answer EXCEPT ![c] =
                [issued |-> clock, life |-> life, told |-> told,
                 expires |-> IF told THEN clock + life ELSE 0]]
    /\ UNCHANGED <<clock, kept, where, got>>

Believed(t) == [t EXCEPT !.expires = IF t.told THEN @ ELSE clock + FallbackTTL]

Receive(c) ==
    /\ where[c] = "fetching" /\ answer[c] # NoToken
    /\ LET t == Believed(answer[c])
       IN  /\ kept' = t
           /\ got' = [got EXCEPT ![c] = [token |-> t, at |-> clock, kept |-> FALSE]]
    /\ where' = [where EXCEPT ![c] = "away"]
    /\ answer' = [answer EXCEPT ![c] = NoToken]
    /\ UNCHANGED clock

(* Before or after the platform received the request; the cache stays.     *)
FailFetch(c) ==
    /\ where[c] = "fetching"
    /\ where' = [where EXCEPT ![c] = "away"]
    /\ answer' = [answer EXCEPT ![c] = NoToken]
    /\ got' = [got EXCEPT ![c] = Nothing]
    /\ UNCHANGED <<clock, kept>>

Tick ==
    /\ clock < MaxClock
    /\ \A c \in Askers : answer[c] # NoToken => clock < answer[c].issued + MaxDelay
    /\ clock' = clock + 1
    /\ UNCHANGED <<kept, where, answer, got>>

TokenNext ==
    \/ \E c \in Askers : Ask(c) \/ Serve(c) \/ Fetch(c) \/ Issue(c)
                         \/ Receive(c) \/ FailFetch(c)
    \/ Tick

TokenSpec == TokenInit /\ [][TokenNext]_tokenVars

-----------------------------------------------------------------------------
(* A token that the cache hands out lives on for the margin, so that a     *)
(* request sent within it goes out with a token that is valid; where the   *)
(* platform left the expiry out, the margin is shorter by the answer's     *)
(* delay.  One that was just fetched is alive unless it lived no longer    *)
(* than the answer took.                                                   *)
InFlightValid ==
    \A c \in Askers :
        LET g == got[c]
        IN  /\ g.kept /\ g.token.told /\ clock <= g.at + Margin =>
                   clock < Dies(g.token)
            /\ g.kept /\ clock + MaxDelay <= g.at + Margin =>
                   clock < Dies(g.token)
            /\ ~g.kept /\ g.token.life > MaxDelay => g.at < Dies(g.token)

(* Whoever asks and whenever: a token replaces another only when that one  *)
(* had no more than the margin to live.                                    *)
FetchesSpaced ==
    [][kept' # kept /\ kept # NoToken =>
           kept'.issued + Margin >= Dies(kept)]_tokenVars
=============================================================================
