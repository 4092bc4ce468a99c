-------------------------------- MODULE Posts --------------------------------
(***************************************************************************)
(* Clients that comment, review, react, mark notifications, make branches, *)
(* add collaborators, report commit statuses and make repositories through *)
(* a backend.  Each request of a call is a step of its own and may fail    *)
(* before it takes effect or lose its answer after it did.  What they      *)
(* leave are posts, and the platform gives one of them per page of a list. *)
(***************************************************************************)
EXTENDS PostRequests, FiniteSets, SequencesExt

CONSTANTS
    Clients,
    Topics,        \* the kinds of thing that calls of a run are about
    Calls(_, _),   \* by topic and client: records of op and o
    MaxRuns,       \* bound: calls
    MaxFaults,     \* bound: failed requests
    MaxOthers,     \* bound: posts and pushes of others
    MaxPages       \* the page budget of a walk (DefaultIterMaxPages)

ASSUME PostsAssumption ==
    /\ MaxRuns \in Nat /\ MaxFaults \in Nat /\ MaxOthers \in Nat
    /\ MaxPages \in Nat
    /\ Topics \subseteq {"comments", "notes", "reviews", "onissue",
                         "oncomment", "oncr", "oncrcomment", "inbox",
                         "branches", "members", "statuses", "repos"}

VARIABLES
    backend, topic,
    posts,      \* id, author, kind, text, the platform's state for it, and
                \* what its author asked for in the words of the SDK
    nextPost,
    call,       \* per client, its current or last call
    runs, faults, others

vars == <<backend, topic, posts, nextPost, call, runs, faults, others>>
setting == <<backend, topic>>

-----------------------------------------------------------------------------
(* The calls.                                                              *)

PlanOf(q) ==
    CASE topic \in {"comments", "notes"} -> CommentCall(backend, q.op, q.o)
      [] topic = "reviews" -> ReviewCall(backend, q.op, q.o)
      [] topic \in {"onissue", "oncomment", "oncr", "oncrcomment"} ->
            ReactionCall(backend, q.op, q.o)
      [] topic = "inbox" -> InboxCall(backend, q.op, q.o)
      [] topic = "branches" -> BranchCall(backend, q.op, q.o)
      [] topic = "members" -> MemberCall(backend, q.op, q.o)
      [] topic = "statuses" -> StatusCall(backend, q.op, q.o)
      [] topic = "repos" -> RepositoryCall(backend, q.op, q.o)

(* The kinds of post that a topic lists and its calls name: where a        *)
(* backend has no reviews, approvals or notes stand for them.              *)
Kinds ==
    CASE topic = "comments" -> {"note"}
      [] topic = "notes" -> {"note", "inline"}
      [] topic = "reviews" -> CASE backend = "gitlab" -> {"approval"}
                                [] backend = "tencentcode" -> {"note"}
                                [] OTHER -> {"review"}
      [] topic = "inbox" -> {"notice"}
      [] topic = "branches" -> {"branch"}
      [] topic = "members" -> {"member"}
      [] topic = "statuses" -> {"status"}
      [] topic = "repos" -> {"repo"}
      [] OTHER -> {"reaction"}

NoPost == [id |-> 0, by |-> "", kind |-> "", text |-> "", state |-> "",
           asked |-> ""]

NamesOne == {"editcomment", "deletenote", "editnote", "dismiss", "unreact",
             "markone", "dropbranch", "dropmember", "droprepo", "getreview"}
Targets(op) ==
    IF op \in NamesOne
    THEN {p \in posts : p.kind \in Kinds /\ p.text # "main"}
    ELSE {NoPost}

Idle == [op |-> "none", o |-> << >>, steps |-> << >>, spare |-> << >>,
         out |-> "idle", seen |-> << >>, next |-> 0, target |-> NoPost,
         alone |-> FALSE, failed |-> FALSE, at |-> {}]

Active(c) == call[c].steps # << >>
Doing(c, kind) == Active(c) /\ Head(call[c].steps).do = kind
Step(c) == Head(call[c].steps)

Finished(r, out) ==
    [r EXCEPT !.steps = << >>, !.spare = << >>, !.out = out, !.seen = << >>,
              !.at = {}]
Onward(r) ==
    IF Len(r.steps) = 1 THEN Finished(r, "ok")
    ELSE [r EXCEPT !.steps = Tail(@)]

(* A request that failed: some calls log it and go on, without what hangs  *)
(* on it; others try another way once; the rest return the error.          *)
Quit(r) ==
    LET s == Head(r.steps)
        f == [r EXCEPT !.failed = TRUE]
    IN  CASE s.do = "hunks" -> Onward([f EXCEPT !.steps =
                                   SubSeq(@, 1 + s.lost, Len(@))])
          [] s.do = "glance" \/ (s.do = "post" /\ s.tolerated) -> Onward(f)
          [] s.do \notin {"hunks", "glance"} /\ r.spare # << >> /\
             ~(s.do = "post" /\ s.tolerated) ->
                [f EXCEPT !.steps = r.spare, !.spare = << >>, !.seen = << >>]
          [] OTHER -> Finished(f, "failed")

(* The answer comes, and the call goes on from r; the answer of a request  *)
(* that took effect is lost; the platform refuses.                         *)
Reply(c, r) == call' = [call EXCEPT ![c] = Onward(r)] /\ UNCHANGED faults
Answer(c) ==
    \/ Reply(c, call[c])
    \/ /\ faults < MaxFaults
       /\ faults' = faults + 1
       /\ call' = [call EXCEPT ![c] = Quit(@)]
Refuse(c) ==
    /\ call' = [call EXCEPT ![c] = Quit(@)]
    /\ UNCHANGED <<posts, nextPost, faults>>

Made(c, kind, text, state, asked) ==
    [id |-> nextPost, by |-> c, kind |-> kind, text |-> text,
     state |-> state, asked |-> asked]
MainNow == {p \in posts : p.kind = "branch" /\ p.text = "main"}
Main == CHOOSE p \in MainNow : TRUE

-----------------------------------------------------------------------------
(* What is there at first: some posts of clients, the head of the main     *)
(* branch at commit 1, notices and statuses of others.                     *)
Early ==
    CASE topic = "inbox" ->
            [by : {"other"}, kind : {"notice"}, text : {"news"},
             state : {"unread", "read"}, asked : {""}]
      [] topic = "branches" ->
            [by : {"other"}, kind : {"branch"}, text : {"topic"}, state : {1},
             asked : {""}]
      [] topic = "members" ->
            [by : {"other"}, kind : {"member"}, text : {"ann"}, state : {""},
             asked : {""}]
      [] topic = "statuses" ->
            {p \in [by : {"other"}, kind : {"status"}, text : {"ci", "lint"},
                    state : {"success", "failure"},
                    asked : {"success", "failure"}] :
                /\ p.asked = p.state
                /\ p.text = "lint" => p.state = "success"}
      [] topic = "repos" ->
            [by : {"other"}, kind : {"repo"}, text : {"app"},
             state : {"org", "else"}, asked : {""}]
      [] topic = "reviews" ->
            [by : Clients, kind : Kinds, text : {"old"},
             state : {"APPROVED"}, asked : {"APPROVE"}]
      [] topic \in {"comments", "notes"} ->
            [by : Clients, kind : Kinds, text : {"old"}, state : {""},
             asked : {""}]
      [] OTHER ->
            {p \in [by : Clients, kind : {"reaction"},
                    text : {"heart", IF backend = "gitlab" THEN "tada"
                                     ELSE "hooray"},
                    state : {""}, asked : {"heart", "hooray"}] :
                (p.text = "heart") = (p.asked = "heart")}

Numbered(s) ==
    {[id |-> i, by |-> s[i].by, kind |-> s[i].kind, text |-> s[i].text,
      state |-> s[i].state, asked |-> s[i].asked] : i \in DOMAIN s}

MainAtFirst ==
    [by |-> "other", kind |-> "branch", text |-> "main", state |-> 1,
     asked |-> ""]

(* A user is there once: as a member, a branch name, with one reaction; a  *)
(* name is there once among the repositories of an owner.                  *)
Once(p) ==
    CASE p.kind \in {"branch", "member", "request"} -> p.text
      [] p.kind = "reaction" -> <<p.by, p.text>>
      [] p.kind = "repo" ->
            <<p.text, IF p.state = "own" THEN p.by ELSE p.state>>
      [] p.kind = "approval" -> p.by
      [] OTHER -> p.id
Same(p, q) == p.kind = q.kind /\ Once(p) = Once(q)

PostsInit ==
    /\ backend \in Backends
    /\ topic \in Topics
    /\ \E n \in 0..2 : \E s \in [1..n -> Early] :
        /\ posts = Numbered(IF topic = "branches" THEN <<MainAtFirst>> \o s
                            ELSE s)
        /\ nextPost = n + IF topic = "branches" THEN 2 ELSE 1
    /\ \A p, q \in posts : Same(p, q) => p = q
    /\ call = [c \in Clients |-> Idle]
    /\ runs = 0 /\ faults = 0 /\ others = 0

(* Call q of c, and what the caller has seen when it makes it.             *)
Start(c, q, plan, target) ==
    /\ ~Active(c)
    /\ runs < MaxRuns
    /\ runs' = runs + 1
    /\ call' = [d \in Clients |->
           IF d = c
           THEN [Idle EXCEPT !.op = q.op, !.o = q.o, !.out = "",
                             !.steps = plan.first, !.spare = plan.spare,
                             !.next = nextPost, !.target = target,
                             !.at = MainNow,
                             !.alone = \A e \in Clients : ~Active(e)]
           ELSE [call[d] EXCEPT !.alone = @ /\ ~Active(d)]]
    /\ UNCHANGED <<setting, posts, nextPost, faults, others>>

Begin(c) ==
    \E q \in Calls(topic, c) : q.op # "wait" /\
        \E target \in Targets(q.op) : Start(c, q, PlanOf(q), target)

(* A request that does not take effect.                                    *)
Fail(c) ==
    /\ Active(c)
    /\ Step(c).do \notin {"unsupported", "return", "judge", "tick"}
    /\ faults < MaxFaults
    /\ faults' = faults + 1
    /\ call' = [call EXCEPT ![c] = Quit(@)]
    /\ UNCHANGED <<setting, posts, nextPost, runs, others>>

NotSupported(c) ==
    /\ Doing(c, "unsupported")
    /\ Refuse(c)
    /\ UNCHANGED <<setting, runs, others>>

-----------------------------------------------------------------------------
(* Posts are made: twice where that means something, otherwise the second  *)
(* is refused or left out.  An approval may be refused.  A repository      *)
(* whose owner was not found is its maker's.                               *)
AskedIn(o) ==
    CASE "event" \in DOMAIN o -> o.event
      [] "emoji" \in DOMAIN o -> o.emoji
      [] "state" \in DOMAIN o -> o.state
      [] "owner" \in DOMAIN o -> PlaceOf(o.owner)
      [] OTHER -> ""

AddPost(c) ==
    /\ Doing(c, "post")
    /\ LET s == Step(c)
           lost == s.kind = "repo" /\ call[c].failed
           p == Made(c, s.kind, s.text, IF lost THEN "own" ELSE s.state,
                     AskedIn(call[c].o))
           inline == [p EXCEPT !.id = @ + 1, !.kind = "inline", !.state = ""]
           there == \E q \in posts : Same(p, q)
           stay == IF s.over THEN {q \in posts : q.kind # s.kind} ELSE posts
       IN  \/ ~s.over /\ there /\ Refuse(c)
           \/ s.kind = "review" /\ s.state = "APPROVED" /\ Refuse(c)
           \/ /\ ~s.over /\ there /\ Answer(c)
              /\ UNCHANGED <<posts, nextPost>>
           \/ /\ s.over \/ ~there
              /\ posts' = stay \cup {p} \cup (IF s.inline THEN {inline} ELSE {})
              /\ nextPost' = nextPost + IF s.inline THEN 2 ELSE 1
              /\ Answer(c)
    /\ UNCHANGED <<setting, runs, others>>

PutPost(c) ==
    /\ Doing(c, "put")
    /\ LET hit == {p \in posts : p.id = call[c].target.id}
       IN  \/ hit = {} /\ Refuse(c)
           \/ /\ hit # {}
              /\ posts' = (posts \ hit) \cup
                          {[p EXCEPT !.text = Step(c).text] : p \in hit}
              /\ Answer(c)
              /\ UNCHANGED nextPost
    /\ UNCHANGED <<setting, runs, others>>

(* The post named, the caller's approval, or its reaction with the emoji   *)
(* of the first one listed of the user it names.                           *)
Hit(c) ==
    LET r == call[c]
        mine == {p \in posts : p.by = c}
        first == SelectInSeq(r.seen, LAMBDA p : p.by = r.target.by)
    IN  CASE Step(c).which = "named" -> {p \in posts : p.id = r.target.id}
          [] Step(c).which = "approval" -> {p \in mine : p.kind = "approval"}
          [] OTHER -> {p \in mine : first # 0 /\ p.kind = "reaction" /\
                                    p.text = r.seen[first].text}

TakePost(c) ==
    /\ Doing(c, "take")
    /\ \/ Hit(c) = {} /\ Step(c).gone = "refused" /\ Refuse(c)
       \/ /\ Hit(c) = {} /\ Step(c).gone = "fine" /\ Reply(c, call[c])
          /\ UNCHANGED <<posts, nextPost>>
       \/ /\ Hit(c) # {}
          /\ posts' = posts \ Hit(c)
          /\ Answer(c)
          /\ UNCHANGED nextPost
    /\ UNCHANGED <<setting, runs, others>>

-----------------------------------------------------------------------------
(* Lists: notices and statuses with the newest first, the others with the  *)
(* oldest first.                                                           *)
Shown(c) ==
    {p \in posts : /\ p.kind \in Kinds
                   /\ (p.kind = "notice" /\ p.state = "read") =>
                         ShowsRead(backend, call[c].o)}
Before(p, q) ==
    IF topic \in {"inbox", "statuses"} THEN p.id > q.id ELSE p.id < q.id
InOrder(S) == SetToSortSeq(S, Before)
OnPage(S, n) ==
    {p \in S : Cardinality({q \in S : Before(q, p)}) = n - 1}

(* The walk ends at an empty page, and so it does, without an error, after *)
(* as many pages as it is allowed.                                         *)
maxAllPages == 50
ReadPage(c) ==
    /\ Doing(c, "page")
    /\ LET n == Step(c).n
           page == IF n > maxAllPages THEN {} ELSE OnPage(Shown(c), n)
           r == [call[c] EXCEPT !.at = IF n = 1 /\ call[c].op = "wait"
                                       THEN posts ELSE @]
       IN  \/ page = {} /\ Reply(c, r)
           \/ /\ \E p \in page :
                    call' = [call EXCEPT ![c] =
                        [r EXCEPT !.seen = Append(@, p),
                                  !.steps[1] = Page(n + 1)]]
              /\ UNCHANGED faults
    /\ UNCHANGED <<setting, posts, nextPost, runs, others>>

ReadWhole(c) ==
    /\ Doing(c, "whole")
    /\ LET list == InOrder(Shown(c))
       IN  Reply(c, [call[c] EXCEPT !.seen =
               IF Step(c).first THEN SubSeq(list, 1, Min({1, Len(list)}))
               ELSE list])
    /\ UNCHANGED <<setting, posts, nextPost, runs, others>>

ReadOne(c) ==
    /\ Doing(c, "find")
    /\ LET found == IF Step(c).which = "named"
                    THEN {p \in posts : p.id = call[c].target.id}
                    ELSE OnPage(Shown(c), 1)
       IN  \/ found = {} /\ Refuse(c)
           \/ \E p \in found :
                  /\ Reply(c, [call[c] EXCEPT !.seen = <<p>>])
                  /\ UNCHANGED <<posts, nextPost>>
    /\ UNCHANGED <<setting, runs, others>>

(* Each, over ListRepos: an empty page ends the walk, and so does one that *)
(* lies beyond the budget, with an error.                                  *)
Owned(owner) == {p \in posts : p.kind = "repo" /\ p.state = owner}
PageShown(s) ==
    LET list == InOrder(IF s.pages = "sifted"
                        THEN {p \in posts : p.kind = "repo"}
                        ELSE Owned(s.owner))
    IN  IF s.pages = "whole" THEN list
        ELSE SelectSeq(SubSeq(list, s.n, Min({s.n, Len(list)})),
                       LAMBDA p : p.state = s.owner)
WalkRepos(c) ==
    /\ Doing(c, "walk")
    /\ LET s == Step(c)
           page == PageShown(s)
       IN  \/ s.n > MaxPages /\ Refuse(c)
           \/ s.n <= MaxPages /\ page = << >> /\ Reply(c, call[c])
              /\ UNCHANGED <<posts, nextPost>>
           \/ /\ s.n <= MaxPages /\ page # << >>
              /\ call' = [call EXCEPT ![c].seen = @ \o page,
                                      ![c].steps[1].n = @ + 1]
              /\ UNCHANGED <<posts, nextPost, faults>>
    /\ UNCHANGED <<setting, runs, others>>

(* Reads whose answers are kept nowhere.                                   *)
ReadAside(c) ==
    /\ Active(c) /\ Step(c).do \in {"hunks", "glance", "lookup"}
    /\ Reply(c, call[c])
    /\ UNCHANGED <<setting, posts, nextPost, runs, others>>

ReturnList(c) ==
    /\ Doing(c, "return")
    /\ Reply(c, call[c])
    /\ UNCHANGED <<setting, posts, nextPost, runs, others>>

-----------------------------------------------------------------------------
(* Notices and branches.                                                   *)
Marked(c) ==
    {p \in posts : /\ p.kind = "notice"
                   /\ CASE Step(c).which = "one" -> p.id = call[c].target.id
                        [] Step(c).which = "seen" -> p.id < call[c].next
                        [] Step(c).which = "all" -> TRUE}
MarkNotices(c) ==
    /\ Doing(c, "mark")
    /\ posts' = (posts \ Marked(c)) \cup
                {[p EXCEPT !.state = "read"] : p \in Marked(c)}
    /\ Answer(c)
    /\ UNCHANGED <<setting, nextPost, runs, others>>

ReadHead(c) ==
    /\ Doing(c, "head")
    /\ Reply(c, [call[c] EXCEPT !.seen = <<Main>>])
    /\ UNCHANGED <<setting, posts, nextPost, runs, others>>

ForkBranch(c) ==
    /\ Doing(c, "fork")
    /\ LET s == Step(c)
           from == IF s.from = "read" THEN call[c].seen[1] ELSE Main
           p == Made(c, "branch", s.name, from.state, "")
       IN  \/ (\E q \in posts : Same(p, q)) /\ Refuse(c)
           \/ /\ \A q \in posts : ~Same(p, q)
              /\ posts' = posts \cup {p}
              /\ nextPost' = nextPost + 1
              /\ Answer(c)
    /\ UNCHANGED <<setting, runs, others>>

(* Others: a notice arrives, the main branch moves.                        *)
Disturb ==
    /\ others < MaxOthers
    /\ others' = others + 1
    /\ call' = [c \in Clients |-> [call[c] EXCEPT !.alone = @ /\ ~Active(c)]]
    /\ UNCHANGED <<setting, runs, faults>>
Arrive ==
    /\ topic = "inbox"
    /\ posts' = posts \cup {Made("other", "notice", "news", "unread", "")}
    /\ nextPost' = nextPost + 1
    /\ Disturb
Push ==
    /\ topic = "branches"
    /\ posts' = (posts \ {Main}) \cup {[Main EXCEPT !.state = @ + 1]}
    /\ UNCHANGED nextPost
    /\ Disturb

PostsNext ==
    \/ \E c \in Clients :
        \/ Begin(c) \/ Fail(c) \/ NotSupported(c)
        \/ AddPost(c) \/ PutPost(c) \/ TakePost(c)
        \/ ReadPage(c) \/ ReadWhole(c) \/ ReadOne(c) \/ WalkRepos(c)
        \/ ReadAside(c) \/ ReturnList(c)
        \/ MarkNotices(c) \/ ReadHead(c) \/ ForkBranch(c)
    \/ Arrive \/ Push
-----------------------------------------------------------------------------
(* The name and place of a fork, as far as the backend asks for them.      *)
ForkName(o) ==
    IF o.name = "" \/ backend \in {"gitee", "gitcode", "tencentcode"}
    THEN "app" ELSE o.name
ForkPlace(o) ==
    IF backend \in {"gitcode", "tencentcode"} THEN "own" ELSE PlaceOf(o.owner)

(* What a call asks to be made, and of what kind.                          *)
Wished(r) ==
    CASE r.op \in {"comment", "note"} -> {<<"note", r.o.text>>}
      [] r.op = "discuss" -> {<<"note", r.o.text>>, <<"inline", r.o.text>>}
      [] r.op = "review" ->
            {<<k, r.o.text>> : k \in {"review", "note", "inline"}}
      [] r.op = "request" -> {<<"request", r.o.text>>}
      [] r.op = "react" -> {<<"reaction", r.o.emoji>>}
      [] r.op = "branch" -> {<<"branch", r.o.name>>}
      [] r.op = "addmember" -> {<<"member", r.o.name>>}
      [] r.op = "report" -> {<<"status", r.o.context>>}
      [] r.op = "newrepo" -> {<<"repo", r.o.name>>}
      [] r.op = "fork" -> {<<"repo", ForkName(r.o)>>}
      [] OTHER -> {}

(* A review that GitLab and GitCode begin anew after a failure: its text   *)
(* may be there twice then, but not its inline comments.                   *)
StartsOver(r) == r.op = "review" /\ backend \in {"gitlab", "gitcode"}
MayMake(r, part) ==
    IF StartsOver(r) /\ r.failed /\ part = "note" THEN 2 ELSE 1

(* Its text is a review or a note.                                         *)
Part(p) == IF p.kind = "review" THEN "note" ELSE p.kind

(* What may be taken besides the post a call names: on Gitea and Forgejo a *)
(* reaction of the caller, on GitLab its approval and the reviewers before.*)
MayTake(c, p) ==
    LET r == call[c]
    IN  \/ r.op \in NamesOne /\ p.id = r.target.id
        \/ /\ r.op = "unreact" /\ backend \in {"gitea", "forgejo"}
           /\ p.kind = "reaction" /\ p.by = c
        \/ /\ r.op = "dismiss" /\ backend = "gitlab"
           /\ p.kind = "approval" /\ p.by = c
        \/ r.op = "request" /\ backend = "gitlab" /\ p.kind = "request"

(* GitLab and Gitee drop the time up to which notices are marked.          *)
MayChange(r, p) ==
    \/ r.op \in {"editcomment", "editnote", "markone"} /\ p.id = r.target.id
    \/ /\ r.op = "markall" /\ p.kind = "notice"
       /\ r.o.upto = "seen" /\ backend \notin {"gitlab", "gitee"} =>
              p.id < r.next

(* The commits that the main branch had since the call began: its commits  *)
(* are numbered as they come in.                                           *)
HeadsSince(r) == UNION {p.state..Main.state : p \in r.at}

(* A step of a call makes nothing but what the call asks for, in its       *)
(* author's name and once (a review that starts over, twice), and takes or *)
(* changes nothing but what it names, whatever others do between its       *)
(* requests; a branch begins at the commit the main branch has now, on     *)
(* GitHub, where the call reads it first, at one that it had since the     *)
(* call began.                                                             *)
PostsOnlyNamed ==
    [][\A c \in Clients : call[c].steps # call'[c].steps /\ Active(c) =>
        LET r == call[c]
            new == {p \in posts' : p.id >= nextPost}
            made == {p \in posts' : p.id >= r.next /\ p.by = c}
        IN  /\ \A p \in new :
                   /\ p.by = c
                   /\ <<p.kind, IF p.kind = "reaction"
                                THEN ShownEmoji(backend, p.text)
                                ELSE p.text>> \in Wished(r)
                   /\ p.kind = "branch" =>
                         p.state \in IF backend = "github" THEN HeadsSince(r)
                                     ELSE {Main.state}
            /\ \A p \in made :
                   Cardinality({q \in made : Part(q) = Part(p)}) <=
                       MayMake(call'[c], Part(p))
            /\ \A p \in posts \ posts' :
                   LET left == {q \in posts' : q.id = p.id}
                   IN  IF left = {} THEN MayTake(c, p) ELSE MayChange(r, p)
            /\ \A p, q \in posts \ posts' :
                   r.op \in {"unreact", "dismiss"} => p = q]_vars

-----------------------------------------------------------------------------
(* Whether the platform has no reason to refuse a call to which nobody     *)
(* objects.                                                                *)
Expected(c) ==
    LET r == call[c]
        mine == {p \in posts : p.by = c}
        there(kind, text) == \E p \in posts : p.kind = kind /\ p.text = text
    IN  CASE r.op = "react" ->
                \A p \in mine : ShownEmoji(backend, p.text) # r.o.emoji
          [] r.op = "unreact" -> r.target.by = c
          [] r.op = "dismiss" -> backend = "gitlab" => r.target.by = c
          [] r.op = "branch" -> ~there("branch", r.o.name)
          [] r.op = "addmember" -> ~there("member", r.o.name)
          [] r.op = "request" -> ~there("request", r.o.text)
          [] r.op = "newrepo" -> ~there("repo", r.o.name)
          [] r.op = "fork" -> ~there("repo", ForkName(r.o))
          [] r.op = "listrepos" -> backend # "tencentcode"
          [] r.op = "review" -> r.o.event # "APPROVE"
          [] OTHER -> TRUE

(* The lists that are empty whatever there is: reactions on comments.      *)
ShowsNothing ==
    \/ backend = "gitlab" /\ topic \in {"oncomment", "oncrcomment"}
    \/ backend \in {"gitea", "forgejo"} /\ topic = "oncrcomment"

(* The lists of one page.                                                  *)
ShowsSome(r) ==
    r.op = "listinbox" /\ (backend \in {"gitlab", "gitee"} \/
                            r.o.page = "first")

Verdict == [APPROVE |-> "approved", REQUEST_CHANGES |-> "changes_requested",
            COMMENT |-> "commented"]

(* What a caller is shown is what the author asked for, where the backend  *)
(* has a word for it: GitLab and Tencent Code have no verdicts, and Gitee  *)
(* shows what is pending as success.                                       *)
ShownAsAsked(p) ==
    CASE p.kind = "reaction" -> ShownEmoji(backend, p.text) = p.asked
      [] p.kind = "review" -> ConvertReview(backend, p) = Verdict[p.asked]
      [] p.kind = "status" ->
            LET shown == NormalizeCommitStatusState(p.state)
            IN  /\ p.asked = "success" => shown = "success"
                /\ shown = "success" => p.asked = "success" \/
                                        backend = "gitee"
      [] OTHER -> TRUE

ListTrue(c) ==
    LET seen == call[c].seen
    IN  /\ \A i, j \in DOMAIN seen : seen[i].id = seen[j].id => i = j
        /\ ToSet(seen) \subseteq Shown(c)
        /\ ShowsNothing \/ ShowsSome(call[c]) \/ ToSet(seen) = Shown(c)
        /\ \A p \in ToSet(seen) : ShownAsAsked(p)

(* A walk shows the repositories of the owner: on Gitea and Forgejo only   *)
(* those before the first page that has none of them, on Tencent Code the  *)
(* whole list again for each page until the budget is spent.               *)
WalkTrue(r) ==
    LET seen == ToSet(r.seen)
        owned == Owned(r.o.owner)
    IN  /\ Len(r.seen) = Cardinality(seen)
        /\ seen \subseteq owned
        /\ \/ seen = owned
           \/ /\ backend \in {"gitea", "forgejo"}
              /\ \E p \in posts : p.kind = "repo" /\ p \notin owned

(* GitLab and Tencent Code make a note of a review, Tencent Code without   *)
(* its comments; GitLab leaves out those outside the diff.                 *)
ReviewTrue(r, new) ==
    LET kinds == {p.kind : p \in new}
    IN  CASE backend = "tencentcode" -> kinds = {"note"}
          [] backend = "gitlab" ->
                kinds = {"note"} \cup
                        IF r.o.inline = "in" THEN {"inline"} ELSE {}
          [] OTHER ->
                /\ kinds = {"review"} \cup
                           IF r.o.inline = "none" THEN {} ELSE {"inline"}
                /\ \A p \in new : p.kind = "review" => ShownAsAsked(p)

(* Discussions lose their place in the diff on four platforms.             *)
NoteTrue(r, kinds) ==
    kinds = IF r.op = "discuss" /\
               backend \in {"github", "gitlab", "tencentcode"}
            THEN {"inline"} ELSE {"note"}

(* The status words of the platforms that the backends translate to.       *)
StatusWords ==
    CASE backend = "gitlab" ->
            {"pending", "running", "success", "failed", "canceled"}
      [] backend \in {"gitea", "forgejo"} ->
            {"pending", "success", "error", "failure", "warning"}
      [] backend = "gitee" ->
            {"success", "failure", "neutral", "cancelled", "timed_out"}

Gone(p) == \A q \in posts' : q.id # p.id

Delivered(c) ==
    LET r == call[c]
        new == {p \in posts' : p.id >= r.next}
        there(kind, text) == \E p \in posts' : p.kind = kind /\ p.text = text
    IN  CASE r.op \in {"comment", "note", "discuss"} ->
                NoteTrue(r, {p.kind : p \in new})
          [] r.op \in {"editcomment", "editnote"} ->
                \E p \in posts' : p.id = r.target.id /\ p.text = r.o.text
          [] r.op \in {"deletenote", "dropbranch", "dropmember", "dismiss",
                       "droprepo"} ->
                Gone(r.target)
          [] r.op = "unreact" ->
                \/ Gone(r.target)
                \/ /\ backend \in {"gitea", "forgejo"}
                   /\ \E p \in posts : p.by = c /\ p # r.target
          [] r.op = "review" -> ~call'[c].failed => ReviewTrue(r, new)
          [] r.op = "request" ->
                backend = "tencentcode" \/ there("request", r.o.text)
          [] r.op = "react" ->
                \E p \in posts' : /\ p.kind = "reaction" /\ p.by = c
                                  /\ ShownEmoji(backend, p.text) = r.o.emoji
          [] r.op = "markone" ->
                \A p \in posts' : p.id = r.target.id => p.state = "read"
          [] r.op = "markall" ->
                \A p \in posts' : p.id < r.next => p.state = "read"
          [] r.op = "branch" ->
                \E p \in posts' : /\ p.kind = "branch" /\ p.text = r.o.name
                                  /\ p.state = Main.state
          [] r.op = "addmember" -> there("member", r.o.name)
          [] r.op = "report" ->
                \A p \in new :
                    /\ ShownAsAsked(p)
                    /\ \/ backend \in {"github", "gitcode", "tencentcode"}
                       \/ p.state \in StatusWords
          [] r.op = "getreview" ->
                \/ r.seen[1].id = r.target.id
                \/ backend = "gitlab" /\ Cardinality(Shown(c)) > 1
          [] r.op = "newrepo" ->
                \E p \in posts' :
                    /\ p.kind = "repo" /\ p.text = r.o.name
                    /\ \/ p.state = PlaceOf(r.o.owner)
                       \/ p.state = "own" /\ backend = "tencentcode"
                       \/ /\ p.state = "own" /\ backend = "gitlab"
                          /\ call'[c].failed
          [] r.op = "fork" ->
                \E p \in posts' : /\ p.kind = "repo"
                                  /\ p.text = ForkName(r.o)
                                  /\ p.state = ForkPlace(r.o)
          [] r.op = "listrepos" -> WalkTrue(r)
          [] r.op = "wait" -> TRUE
          [] OTHER -> ListTrue(c)

(* A call that nobody disturbs and the platform has no reason to refuse    *)
(* fails only with a request of its own.  When it succeeds, the platform   *)
(* holds what was asked for, and a list shows everything, as it was meant. *)
PostsDelivered ==
    [][\A c \in Clients :
        LET r == call[c]
        IN  (Active(c) /\ call'[c].out # "" /\ r.alone /\ r.op # "wait" /\
             Expected(c)) =>
                /\ call'[c].out = "ok" => Delivered(c)
                /\ call'[c].out = "failed" =>
                       faults' # faults \/ Doing(c, "unsupported")]_vars
=============================================================================
