----------------------------- MODULE CommitWait ------------------------------
(***************************************************************************)
(* WaitForCommitStatus: a client polls the statuses of a commit until the  *)
(* latest ones of the contexts it wants are final together, while others   *)
(* report.  A poll takes several requests.                                 *)
(***************************************************************************)
EXTENDS Posts

(* Statuses are reported, listed and waited for, and nothing else is.      *)
ASSUME CommitWaitAssumption ==
    \A t \in Topics, c \in Clients : \A q \in Calls(t, c) :
        IF t = "statuses" THEN q.op \in {"report", "liststatuses", "wait"}
        ELSE q.op # "wait"

Poll == <<Page(1), [do |-> "judge"]>>
Tick == [do |-> "tick"]

(* A poll that fails is made again at the next tick.                       *)
WaitPlan(o) == IF o.delay THEN PlanOr(<<Tick>>, <<Tick>>)
               ELSE PlanOr(Poll, <<Tick>>)

BeginWait(c) ==
    \E q \in Calls(topic, c) :
        q.op = "wait" /\ Start(c, q, WaitPlan(q.o), NoPost)

(* Mutant: the last of each context.                                       *)
LatestCommitStatusesLast(s) ==
    {i \in DOMAIN s : \A j \in DOMAIN s : s[j].text = s[i].text => j <= i}
(* The statuses of a list that are the first of their contexts.            *)
LatestCommitStatuses(s) ==
    {i \in DOMAIN s : \A j \in DOMAIN s : s[j].text = s[i].text => i <= j}

CombineCommitStatusStates(states) ==
    CASE "error" \in states -> "error"
      [] "error" \notin states /\ "failure" \in states -> "failure"
      [] states \cap {"error", "failure"} = {} /\ "canceled" \in states ->
            "canceled"
      [] states = {"success"} -> "success"
      [] OTHER -> "pending"

Terminal(state) == state \in {"success", "failure", "error", "canceled"}

FoldTerminalStates(s, want) ==
    LET chosen == {i \in LatestCommitStatuses(s) :
                      want = {} \/ s[i].text \in want}
    IN  IF \E w \in want : \A i \in chosen : s[i].text # w THEN "pending"
        ELSE CombineCommitStatusStates(
                 {NormalizeCommitStatusState(s[i].state) : i \in chosen})

(* A commit that is not found ends the wait.                               *)
MissCommit(c) ==
    /\ Doing(c, "page") /\ call[c].op = "wait"
    /\ call' = [call EXCEPT ![c] = Finished(@, "failed")]
    /\ UNCHANGED <<setting, posts, nextPost, runs, faults, others>>

Judge(c) ==
    /\ Doing(c, "judge")
    /\ LET state == FoldTerminalStates(call[c].seen, call[c].o.want)
       IN  call' = [call EXCEPT ![c] =
               IF Terminal(state) THEN Finished(@, state)
               ELSE [@ EXCEPT !.steps = <<Tick>>, !.seen = << >>, !.at = {}]]
    /\ UNCHANGED <<setting, posts, nextPost, runs, faults, others>>

(* Between polls: the next one, or the end of the caller's context or of   *)
(* the budget, whichever is taken when several are ready.                  *)
TickOn(c) ==
    /\ Doing(c, "tick")
    /\ call' = [call EXCEPT ![c].steps = Poll, ![c].spare = <<Tick>>]
    /\ UNCHANGED <<setting, posts, nextPost, runs, faults, others>>
GiveUp(c) ==
    /\ Doing(c, "tick")
    /\ call' = [call EXCEPT ![c] = Finished(@, "failed")]
    /\ UNCHANGED <<setting, posts, nextPost, runs, faults, others>>

WaitNext ==
    \E c \in Clients : \/ BeginWait(c) \/ MissCommit(c) \/ Judge(c)
                       \/ TickOn(c) \/ GiveUp(c)

Rest ==
    /\ \A c \in Clients : ~Active(c)
    /\ UNCHANGED vars

Init == PostsInit
Next == PostsNext \/ WaitNext \/ Rest
Spec == Init /\ [][Next]_vars

-----------------------------------------------------------------------------
(* The newest report of each context wanted, among those of a moment.      *)
Newest(S, want) ==
    {p \in S : /\ p.kind = "status"
               /\ want = {} \/ p.text \in want
               /\ \A q \in S : q.kind = "status" /\ q.text = p.text =>
                      q.id <= p.id}

(* The wait ends with a verdict only if it was the verdict of the newest   *)
(* reports at one moment of the poll, its beginning: success only when     *)
(* every wanted context was there with success, and anything else only     *)
(* when the newest report of a wanted context said so and none said worse. *)
(* Reports shift the pages while the poll is under way; that is harmless   *)
(* as long as no more of them come in than a page holds, which is one. The *)
(* second page may otherwise hold some that the first did not show, and    *)
(* the first of a context in the list is not the latest at any moment.     *)
(* And the list has to fit the pages a walk reads: the rest is left out.   *)
VerdictTrue ==
    [][\A c \in Clients :
        LET r == call[c]
            said == {NormalizeCommitStatusState(p.state) :
                        p \in Newest(r.at, r.o.want)}
            out == call'[c].out
        IN  (/\ r.op = "wait" /\ Active(c) /\ Terminal(out)
             /\ Cardinality(posts \ r.at) <= 1
             /\ Cardinality(posts) <= maxAllPages) =>
            /\ \A w \in r.o.want : \E p \in r.at : p.text = w
            /\ out \in said
            /\ out = "success" => said = {"success"}
            /\ out \in {"failure", "canceled"} => "error" \notin said
            /\ out = "canceled" => "failure" \notin said]_vars
=============================================================================
