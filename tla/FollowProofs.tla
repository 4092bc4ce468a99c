---------------------------- MODULE FollowProofs ----------------------------
(***************************************************************************)
(* Proofs about Follow, for any number of changes and of deliveries that   *)
(* overtake or come again.  What was sent and has not arrived yet would    *)
(* still make the follower's picture what the thing is: in its order,      *)
(* while nothing overtook (InOrder), and whatever did for the state that   *)
(* the objects say with their time (StateOK) and the comments (NotesOK).   *)
(***************************************************************************)
EXTENDS Follow, SequenceTheorems, TLAPS

(* The words of hooks, of actions, of states and for what is followed.     *)
Hooknames == {"pull_request", "issues", "issue_comment",
              "pull_request_review_comment", "push", "tag_push", "create",
              "delete", "merge_request", "issue", "note", "pipeline",
              "Issue Hook"}
Actions == {"", "open", "opened", "close", "closed", "merge", "reopen",
            "reopened", "edited", "update", "synchronize", "created",
            "deleted"}
Conditions == {"", "none", "open", "opened", "closed", "rejected", "merged",
               "success", "failed", "canceled"}
Kinds == {"nothing", "issue", "cr", "branch", "tag", "pipeline"}

Delivery == [hook : Hooknames, action : Actions, state : Conditions,
             merged : BOOLEAN, ref : Kinds, after : Nat, note : Nat, at : Nat,
             on : Kinds]
Picture == [said : Conditions, state : Conditions, at : Nat, head : Int,
            notes : SUBSET Nat]
World == [state : Conditions, head : Nat,
          notes : SUBSET [id : Nat, hook : Hooknames], at : Nat]

(* The values that the variables take.                                     *)
FollowTypeOK ==
    /\ source \in Backends
    /\ thing \in Things
    /\ thing = "pipeline" => source = "gitlab"
    /\ world \in World
    /\ line \in Seq(Delivery)
    /\ seen \in Picture
    /\ late \in Nat

-----------------------------------------------------------------------------
(* The issue or change request in the event of a delivery d that backend b *)
(* parses, where thing t is followed, and the one that it is about.        *)
Shown(b, t, d) == IF t = "cr" THEN ParseWebhookEvent(b, d).cr
                  ELSE ParseWebhookEvent(b, d).issue
About(e) == CASE e.cr.there -> "cr"
              [] e.issue.there /\ ~e.cr.there -> "issue"
              [] OTHER -> ""

(* What a delivery sets a part of the picture to: the set of one value, or *)
(* of none.                                                                *)
Opens(t) == IF t = "cr" THEN "opened" ELSE "open"
Said(b, t, d) ==
    LET e == ParseWebhookEvent(b, d)
    IN  IF e.kind # t THEN {}
        ELSE IF e.act \in {"opened", "reopened"} THEN {Opens(t)}
        ELSE {e.act} \cap {"closed", "merged", "failed", "canceled"}
Stated(b, t, d) == {Shown(b, t, d).state} \ {""}
Noted(b, t, n, d) ==
    LET e == ParseWebhookEvent(b, d)
    IN  IF e.kind # "comment" \/ About(e) # t \/ e.note # n THEN {}
        ELSE IF e.act = "created" THEN {{n}}
        ELSE IF e.act = "deleted" THEN {{}} ELSE {}
Headed(b, t, d) ==
    LET e == ParseWebhookEvent(b, d)
    IN  IF e.ref # t THEN {}
        ELSE IF e.act = "deleted" THEN {0} ELSE {e.commit} \ {-1}
Found(b, t, d) ==
    LET e == ParseWebhookEvent(b, d)
    IN  IF e.ref # t THEN {}
        ELSE IF e.act = "deleted" \/ e.commit = 0 THEN {"gone"} ELSE {"there"}

(* A picture with x, and with what is yet to come in s, ends with y.       *)
Owes(s, x, y) ==
    /\ \A i \in DOMAIN s :
          s[i] # {} /\ (\A j \in DOMAIN s : j > i => s[j] = {}) => s[i] = y
    /\ (\A i \in DOMAIN s : s[i] = {}) => x = y

-----------------------------------------------------------------------------
Told(b, w) == {n.id : n \in {x \in w.notes :
                    b = "github" => x.hook # "issue_comment"}}
States(t) == {Opens(t), "closed"} \cup IF t = "cr" THEN {"merged"} ELSE {}

WorldOK ==
    /\ Tracked => world.state \in States(thing) \cup {"none"}
    /\ \A n \in world.notes : n.id \in 1..world.at /\ n.hook \in NoteHooks
    /\ \A m, n \in world.notes : m.id = n.id => m = n
    /\ ~Tracked \/ world.state = "none" => world.notes = {}

(* Whether the object of an event has a time, when it has a state.         *)
Timely(b, t) ==
    t = "cr" \/ (t = "issue" /\ b \notin {"gitcode", "tencentcode"})

(* A delivery of before the time now.                                      *)
DeliveryOK(b, t, now, d) ==
    LET e == ParseWebhookEvent(b, d)
        o == Shown(b, t, d)
    IN  /\ d \in Delivery
        /\ d.at \in 1..now
        /\ e.commit \in Int /\ e.note \in 0..now
        /\ o.state \in Conditions /\ o.at \in {0, d.at}
        /\ Timely(b, t) /\ o.state # "" => o.at = d.at
        /\ t = "pipeline" => d.hook = "pipeline"
LineOK == \A i \in DOMAIN line : DeliveryOK(source, thing, world.at, line[i])

(* Of the states that objects say, in the picture and on their way, those  *)
(* of the latest time are the one of the thing.                            *)
StateOK == Tracked /\ Timed => \E k \in 0..world.at :
    /\ seen.at <= k /\ (seen.at = k => seen.state = world.state)
    /\ \A i \in DOMAIN line : Stated(source, thing, line[i]) # {} =>
          /\ line[i].at <= k
          /\ line[i].at = k => Stated(source, thing, line[i]) = {world.state}
    /\ \/ seen.at = k
       \/ \E i \in DOMAIN line :
             Stated(source, thing, line[i]) # {} /\ line[i].at = k

(* A comment that is told is in the picture or on its way.                 *)
NotesOK == Tracked => \A n \in Told(source, world) :
    /\ \/ n \in seen.notes
       \/ \E i \in DOMAIN line : Noted(source, thing, n, line[i]) = {{n}}
    /\ \A i \in DOMAIN line : Noted(source, thing, n, line[i]) # {{}}

(* What the line owes the picture while nothing overtook.                  *)
TimesOK ==
    /\ seen.at <= world.at
    /\ \A i \in DOMAIN line : seen.at <= line[i].at
    /\ \A i, j \in DOMAIN line : i < j => line[i].at <= line[j].at
TrackedOwed(b, t, w, l, s) ==
    /\ Owes([i \in DOMAIN l |-> Said(b, t, l[i])], {s.said}, {w.state})
    /\ Owes([i \in DOMAIN l |-> Stated(b, t, l[i])], {s.state}, {w.state})
    /\ \A n \in 1..w.at :
          Owes([i \in DOMAIN l |-> Noted(b, t, n, l[i])],
               {s.notes \cap {n}}, {Told(b, w) \cap {n}})
    /\ s.notes \subseteq 1..w.at
BranchOwed(b, w, l, s) ==
    /\ Owes([i \in DOMAIN l |-> Headed(b, "branch", l[i])], {s.head}, {w.head})
    /\ w.head = 0 => \A i \in DOMAIN l : Headed(b, "branch", l[i]) = {} =>
          \E j \in DOMAIN l : j > i /\ Headed(b, "branch", l[j]) # {}
IsThere(head) == IF head = 0 THEN "gone" ELSE "there"
TagOwed(b, w, l, s) == (b \in {"gitlab", "tencentcode"} => w.head # 0) =>
    Owes([i \in DOMAIN l |-> Found(b, "tag", l[i])], {IsThere(s.head)},
         {IsThere(w.head)})
PipelineOwed(w, l, s) ==
    /\ w.state \in {"none", "success", "failed", "canceled"}
    /\ l # << >> => l[Len(l)].state = w.state /\ w.state # "none"
    /\ l = << >> /\ w.state # "success" => s.said = w.state

InOrder == late = 0 =>
    /\ TimesOK
    /\ Tracked => TrackedOwed(source, thing, world, line, seen)
    /\ thing = "branch" => BranchOwed(source, world, line, seen)
    /\ thing = "tag" => TagOwed(source, world, line, seen)
    /\ thing = "pipeline" => PipelineOwed(world, line, seen)

FollowInv == /\ FollowTypeOK /\ WorldOK /\ LineOK
             /\ StateOK /\ NotesOK /\ InOrder

-----------------------------------------------------------------------------
(* The events that deliveries are turned into.                             *)
LEMMA CRActions ==
    ASSUME NEW m
    PROVE  /\ NormalizeCRAction("opened", m) = "opened"
           /\ NormalizeCRAction("open", m) = "opened"
           /\ NormalizeCRAction("reopened", m) = "reopened"
           /\ NormalizeCRAction("reopen", m) = "reopened"
           /\ NormalizeCRAction("closed", m) = IF m THEN "merged" ELSE "closed"
           /\ NormalizeCRAction("close", m) = IF m THEN "merged" ELSE "closed"
           /\ NormalizeCRAction("merge", m) = "merged"
           /\ \A a \in {"synchronize", "edited", "update"} :
                  NormalizeCRAction(a, m) = "updated"
BY DEF NormalizeCRAction

LEMMA IssueActions ==
    /\ \A a \in {"opened", "open"} : NormalizeIssueAction(a) = "opened"
    /\ \A a \in {"reopened", "reopen"} : NormalizeIssueAction(a) = "reopened"
    /\ \A a \in {"closed", "close"} : NormalizeIssueAction(a) = "closed"
    /\ \A a \in {"edited", "update"} : NormalizeIssueAction(a) = "updated"
BY DEF NormalizeIssueAction

LEMMA StateWords ==
    /\ \A m : MapStateToCR("merged", m) = "merged"
    /\ \A m : MapStateToCR("closed", m) = IF m THEN "merged" ELSE "closed"
    /\ \A m : MapStateToCR("open", m) = "opened"
    /\ \A m : MapStateToCR("opened", m) = "opened"
    /\ GitlabIssueState("closed") = "closed"
    /\ GitlabIssueState("opened") = "open"
BY DEF MapStateToCR, GitlabIssueState

(* The words that a change is sent with.                                   *)
LEMMA WordGithub ==
    ASSUME LikeGithub, source \in Backends
    PROVE  /\ Word("open") = {"opened"} /\ Word("reopen") = {"reopened"}
           /\ Word("close") = {"closed"} /\ Word("merge") = {"closed"}
           /\ Word("edit") = {"edited"} /\ Word("push") = {"synchronize"}
           /\ Word("comment") = {"created"} /\ Word("erase") = {"deleted"}
BY DEF Word, LikeGithub, Backends

LEMMA WordGitlab ==
    ASSUME ~LikeGithub, source \in Backends
    PROVE  /\ Word("open") = {"open"} /\ Word("reopen") = {"reopen"}
           /\ Word("close") = {"close"}
           /\ Word("merge") \subseteq {"merge", "close"}
           /\ source # "gitee" => Word("merge") = {"merge"}
           /\ Word("edit") = {"update"} /\ Word("push") = {"update"}
           /\ Word("comment") = {"created"} /\ Word("erase") = {"deleted"}
BY DEF Word, LikeGithub, Backends

RawCR(b, state) ==
    IF b \in {"github", "gitea", "forgejo", "gitcode"}
    THEN IF state = "opened" THEN {"open"} ELSE {"closed"}
    ELSE IF state = "opened" /\ b = "gitee" THEN {"open"} ELSE {state}
RawIssue(b, state) ==
    IF state = "open"
    THEN IF b \in {"gitlab", "tencentcode"} THEN {"opened"} ELSE {"open"}
    ELSE IF b = "gitee" THEN {"closed", "rejected"} ELSE {"closed"}

LEMMA RawIs ==
    ASSUME source \in Backends, NEW w
    PROVE  /\ thing = "cr" /\ w.state \in {"opened", "closed", "merged"} =>
                 Raw(w) = RawCR(source, w.state)
           /\ thing = "issue" /\ w.state \in {"open", "closed"} =>
                 Raw(w) = RawIssue(source, w.state)
BY DEF Raw, LikeGithub, LikeGitlab, Backends, RawCR, RawIssue

(* The event d is of t itself, in which act happened to it at the time at. *)
Turned(b, t, d, act, state, at) ==
    LET e == ParseWebhookEvent(b, d)
    IN  /\ e.kind = t /\ e.act = act /\ e.note = 0
        /\ Shown(b, t, d).state = state /\ Shown(b, t, d).at = at
        /\ e.commit \in Int

Turning == {"open", "reopen", "close", "merge", "edit", "push"}
ActOf(change) == CASE change = "open" -> "opened"
                   [] change = "reopen" -> "reopened"
                   [] change = "close" -> "closed"
                   [] change = "merge" -> "merged"
                   [] OTHER -> "updated"
Fits(t, change, state) ==
    /\ change \in Turning
    /\ state \in States(t)
    /\ change \in {"open", "reopen"} => state = Opens(t)
    /\ change = "close" => state = "closed"
    /\ change = "merge" => state = "merged"

(* What the platforms send of a change request, and what is made of it.    *)
LEMMA CRStateGithub ==
    ASSUME source \in {"github", "gitea", "forgejo", "gitcode"}, thing = "cr",
           NEW w, w.state \in States("cr"), NEW s \in Raw(w)
    PROVE  /\ MapStateToCR(s, w.state = "merged") = w.state
           /\ w.state = CASE s # "closed" -> "opened"
                          [] w.state = "merged" -> "merged"
                          [] OTHER -> "closed"
<1>1. LikeGithub /\ source \in Backends  BY DEF LikeGithub, Backends
<1>2. s \in RawCR(source, w.state)  BY <1>1, RawIs DEF States, Opens
<1>3. \/ s = "open" /\ w.state = "opened"
      \/ s = "closed" /\ w.state \in {"closed", "merged"}
  BY <1>2 DEF RawCR, States, Opens
<1>4. MapStateToCR(s, w.state = "merged") = w.state  BY <1>3, StateWords
<1> QED  BY <1>3, <1>4

LEMMA CRGithub ==
    ASSUME source \in {"github", "gitea", "forgejo", "gitcode"}, thing = "cr",
           NEW change, NEW w, Fits("cr", change, w.state),
           NEW a \in Word(change)
    PROVE  NormalizeCRAction(a, w.state = "merged") = ActOf(change)
<1> DEFINE m == w.state = "merged"
<1>1. LikeGithub /\ source \in Backends  BY DEF LikeGithub, Backends
<1>2. /\ NormalizeCRAction("closed", m) = IF m THEN "merged" ELSE "closed"
      /\ NormalizeCRAction("opened", m) = "opened"
      /\ NormalizeCRAction("reopened", m) = "reopened"
      /\ NormalizeCRAction("synchronize", m) = "updated"
      /\ NormalizeCRAction("edited", m) = "updated"
  BY CRActions
<1>3. CASE change = "open"  BY <1>1, <1>2, <1>3, WordGithub DEF ActOf
<1>4. CASE change = "reopen"  BY <1>1, <1>2, <1>4, WordGithub DEF ActOf
<1>5. CASE change = "close"  BY <1>1, <1>2, <1>5, WordGithub DEF ActOf, Fits
<1>6. CASE change = "merge"  BY <1>1, <1>2, <1>6, WordGithub DEF ActOf, Fits
<1>7. CASE change = "edit"  BY <1>1, <1>2, <1>7, WordGithub DEF ActOf
<1>8. CASE change = "push"  BY <1>1, <1>2, <1>8, WordGithub DEF ActOf
<1> QED  BY <1>3, <1>4, <1>5, <1>6, <1>7, <1>8 DEF Turning, Fits

LEMMA CROthers ==
    ASSUME source \in {"gitlab", "tencentcode", "gitee"}, thing = "cr",
           NEW change, NEW w, Fits("cr", change, w.state), 
           NEW a \in Word(change), NEW s \in Raw(w)
    PROVE  /\ MapStateToCR(s, FALSE) = w.state
           /\ (s = "merged") = (w.state = "merged")
           /\ NormalizeCRAction(a, w.state = "merged") = ActOf(change)
<1>1. ~LikeGithub /\ source \in Backends  BY DEF LikeGithub, Backends
<1>2. s \in RawCR(source, w.state)  BY <1>1, RawIs DEF Fits, States, Opens
<1>3. s = w.state \/ (s = "open" /\ w.state = "opened")
  BY <1>2 DEF RawCR, Fits, States, Opens
<1>4. NormalizeCRAction(a, w.state = "merged") = ActOf(change)
  <2> DEFINE m == w.state = "merged"
  <2>1. change \in Turning  BY DEF Fits, States, Opens
  <2>2. /\ NormalizeCRAction("close", m) = IF m THEN "merged" ELSE "closed"
        /\ NormalizeCRAction("open", m) = "opened"
        /\ NormalizeCRAction("merge", m) = "merged"
        /\ NormalizeCRAction("reopen", m) = "reopened"
        /\ NormalizeCRAction("update", m) = "updated"
    BY CRActions
  <2>3. CASE change = "open"  BY <1>1, <2>2, <2>3, WordGitlab DEF ActOf
  <2>4. CASE change = "reopen"  BY <1>1, <2>2, <2>4, WordGitlab DEF ActOf
  <2>5. CASE change = "close"
    BY <1>1, <2>2, <2>5, WordGitlab DEF ActOf, Fits, States, Opens
  <2>6. CASE change = "merge"
    BY <1>1, <2>2, <2>6, WordGitlab DEF ActOf, Fits, States, Opens
  <2>7. CASE change = "edit"  BY <1>1, <2>2, <2>7, WordGitlab DEF ActOf
  <2>8. CASE change = "push"  BY <1>1, <2>2, <2>8, WordGitlab DEF ActOf
  <2> QED  BY <2>1, <2>3, <2>4, <2>5, <2>6, <2>7, <2>8 DEF Turning
<1>5. MapStateToCR(s, FALSE) = w.state
  BY <1>3, StateWords DEF Fits, States, Opens
<1> QED  BY <1>3, <1>4, <1>5 DEF Fits, States, Opens

(* The event of a change request's own hook *)
LEMMA CRHeard ==
    ASSUME source \in Backends, thing = "cr",
           NEW w, w.at \in Nat, w.head \in Nat,
           NEW change, Fits("cr", change, w.state),
           NEW a \in Word(change), NEW s \in Raw(w),
           NEW d, d = Payload(HookOf, a, s, 0, w)
    PROVE  Turned(source, "cr", d, ActOf(change), w.state, w.at)
<1>1. /\ d.action = a /\ d.state = s /\ d.merged = (w.state = "merged")
      /\ d.at = w.at /\ d.after \in Nat /\ d.hook = HookOf
  BY DEF Payload
<1>2. HookOf = IF LikeGitlab THEN "merge_request" ELSE "pull_request"
  BY DEF HookOf
<1>3. CASE source \in {"github", "gitea", "forgejo", "gitcode"}
  <2>1. d.hook = "pull_request"  BY <1>1, <1>2, <1>3 DEF LikeGitlab
  <2>2. /\ NormalizeCRAction(a, w.state = "merged") = ActOf(change)
        /\ MapStateToCR(s, w.state = "merged") = w.state
        /\ w.state = CASE s # "closed" -> "opened"
                       [] w.state = "merged" -> "merged"
                       [] OTHER -> "closed"
    BY <1>3, CRGithub, CRStateGithub DEF Fits
  <2>3. NormalizeCRAction(d.action, d.merged) = ActOf(change)
    BY <1>1, <2>2
  <2>4. MapStateToCR(d.state, d.merged) = w.state  BY <1>1, <2>2
  <2>5. GithubConvertPR(d) = Object(w.state, w.at)
    BY <1>1, <2>2 DEF GithubConvertPR
  <2>6. GitcodeConvertPullRequest(d) = Object(w.state, w.at)
    BY <1>1, <2>2 DEF GitcodeConvertPullRequest
  <2> DEFINE e == [Event("cr", ActOf(change)) EXCEPT !.cr = Object(w.state, w.at),
                                              !.commit = d.after]
  <2>7. ParseWebhookEvent(source, d) = e
    <3>1. CASE source = "github"
      BY <3>1, <2>1, <2>3, <2>5 DEF ParseWebhookEvent, GithubEvent
    <3>2. CASE source = "gitea"
      BY <3>2, <2>1, <2>3, <2>4, <1>1 DEF ParseWebhookEvent, GiteaEvent
    <3>3. CASE source = "forgejo"
      BY <3>3, <2>1, <2>3, <2>4, <1>1
         DEF ParseWebhookEvent, ForgejoEvent, GiteaEvent
    <3>4. CASE source = "gitcode"
      BY <3>4, <2>1, <2>3, <2>6 DEF ParseWebhookEvent, GitcodeEvent
    <3> QED  BY <1>3, <3>1, <3>2, <3>3, <3>4
  <2>8. /\ e.kind = "cr" /\ e.act = ActOf(change) /\ e.note = 0
        /\ e.commit \in Int /\ e.cr = Object(w.state, w.at)
    BY <1>1 DEF Event
  <2> HIDE DEF e
  <2> QED  BY <2>7, <2>8 DEF Turned, Shown, Object
<1>4. CASE source \in {"gitlab", "tencentcode", "gitee"}
  <2>1. d.hook = IF source = "gitee" THEN "pull_request" ELSE "merge_request"
    BY <1>1, <1>2, <1>4 DEF LikeGitlab
  <2>2. /\ MapStateToCR(s, FALSE) = w.state
        /\ (s = "merged") = (w.state = "merged")
        /\ NormalizeCRAction(a, w.state = "merged") = ActOf(change)
    BY <1>4, CROthers
  <2>3. /\ MapStateToCR(d.state, FALSE) = w.state
        /\ MapStateToCR(d.state, d.state = "merged") = w.state
        /\ NormalizeCRAction(d.action, d.state = "merged") = ActOf(change)
        /\ NormalizeCRAction(d.action, w.state = "merged") = ActOf(change)
    BY <1>1, <2>2, StateWords
  <2> DEFINE e == [Event("cr", ActOf(change)) EXCEPT !.cr = Object(w.state, w.at),
                                              !.commit = d.after]
             g == [Event("cr", ActOf(change)) EXCEPT !.cr = Object(w.state, w.at)]
  <2>7. ParseWebhookEvent(source, d) \in {e, g}
    <3>1. CASE source = "gitlab"
      BY <3>1, <2>1, <2>3, <1>1 DEF ParseWebhookEvent, GitlabEvent
    <3>2. CASE source = "tencentcode"
      BY <3>2, <2>1, <2>3, <1>1 DEF ParseWebhookEvent, TencentcodeEvent
    <3>3. CASE source = "gitee"
      BY <3>3, <2>1, <2>3, <1>1 DEF ParseWebhookEvent, GiteeEvent
    <3> QED  BY <1>4, <3>1, <3>2, <3>3
  <2>8. /\ e.kind = "cr" /\ e.act = ActOf(change) /\ e.note = 0
        /\ e.commit \in Int /\ e.cr = Object(w.state, w.at)
        /\ g.kind = "cr" /\ g.act = ActOf(change) /\ g.note = 0
        /\ g.commit \in Int /\ g.cr = Object(w.state, w.at)
    BY <1>1 DEF Event
  <2> HIDE DEF e, g
  <2> QED  BY <2>7, <2>8 DEF Turned, Shown, Object
<1> QED  BY <1>3, <1>4 DEF Backends

(* An issue in the words of the platforms.                                 *)
IssueAt(b, at) == IF b \in {"gitcode", "tencentcode"} THEN 0 ELSE at
IssueState(b, s) ==
    IF b \in {"gitlab", "tencentcode"} THEN GitlabIssueState(s)
    ELSE IF b = "github" THEN s
    ELSE IF b = "gitee" THEN IF s \in {"closed", "rejected"} THEN "closed"
                             ELSE "open"
    ELSE IF s = "closed" THEN "closed" ELSE "open"

LEMMA IssueWords ==
    ASSUME source \in Backends, thing = "issue",
           NEW w, w.state \in States("issue"), NEW s \in Raw(w)
    PROVE  IssueState(source, s) = w.state
<1>1. s \in RawIssue(source, w.state)  BY RawIs DEF States, Opens
<1> QED  BY <1>1, StateWords DEF RawIssue, IssueState, States, Opens, Backends

LEMMA IssueTurns ==
    ASSUME source \in Backends, NEW w, NEW change,
           Fits("issue", change, w.state), change # "push", NEW a \in Word(change)
    PROVE  NormalizeIssueAction(a) = ActOf(change)
<1>1. change \in {"open", "reopen", "close", "edit"}
  BY DEF Fits, Turning, States, Opens
<1>2. CASE LikeGithub
  BY <1>1, <1>2, WordGithub, IssueActions DEF ActOf
<1>3. CASE ~LikeGithub
  BY <1>1, <1>3, WordGitlab, IssueActions DEF ActOf
<1> QED  BY <1>2, <1>3

(* The event of an issue's own hook.                                       *)
LEMMA IssueHeard ==
    ASSUME source \in Backends, thing = "issue", NEW w, w.at \in Nat,
           NEW change, Fits("issue", change, w.state), change # "push",
           NEW a \in Word(change), NEW s \in Raw(w),
           NEW d, d = Payload(HookOf, a, s, 0, w)
    PROVE  Turned(source, "issue", d, ActOf(change), w.state,
                  IssueAt(source, w.at))
<1>1. /\ d.action = a /\ d.state = s /\ d.at = w.at /\ d.on = "issue"
      /\ d.hook = CASE LikeGithub -> "issues"
                     [] LikeGitlab -> "issue"
                     [] OTHER -> "Issue Hook"
  BY DEF Payload, HookOf
<1>2. /\ IssueState(source, d.state) = w.state
      /\ NormalizeIssueAction(d.action) = ActOf(change)
  BY <1>1, IssueWords, IssueTurns DEF Fits
<1> DEFINE o == Object(w.state, IssueAt(source, w.at))
           e == [Event("issue", ActOf(change)) EXCEPT !.issue = o]
           g == [Event("issue", ActOf(change)) EXCEPT !.issue = o, !.cr = Missing]
<1>3. ParseWebhookEvent(source, d) \in {e, g}
  <2>1. CASE source = "github"
    <3>1. d.hook = "issues"  BY <1>1, <2>1 DEF LikeGithub, LikeGitlab
    <3> QED  BY <1>1, <1>2, <2>1, <3>1
             DEF ParseWebhookEvent, GithubEvent, IssueState, IssueAt
  <2>2. CASE source \in {"gitea", "forgejo"}
    <3>1. d.hook = "issues"  BY <1>1, <2>2 DEF LikeGithub, LikeGitlab
    <3>2. IF d.state = "closed" THEN w.state = "closed" ELSE w.state = "open"
      BY <1>2, <2>2 DEF IssueState
    <3>3. ParseWebhookEvent(source, d) =
             GiteaAttachIssue(Event("issue", ActOf(change)), d)
      BY <1>2, <2>2, <3>1 DEF ParseWebhookEvent, GiteaEvent, ForgejoEvent
    <3>4. d.on # "cr" /\ IssueAt(source, w.at) = d.at
      BY <1>1, <2>2 DEF IssueAt
    <3> QED  BY <3>2, <3>3, <3>4 DEF GiteaAttachIssue
  <2>3. CASE source = "gitcode"
    <3>1. d.hook = "issues"  BY <1>1, <2>3 DEF LikeGithub, LikeGitlab
    <3>2. IF d.state = "closed" THEN w.state = "closed" ELSE w.state = "open"
      BY <1>2, <2>3 DEF IssueState
    <3>3. ParseWebhookEvent(source, d) =
             GitcodeAttachIssue(Event("issue", ActOf(change)), d)
      BY <1>2, <2>3, <3>1 DEF ParseWebhookEvent, GitcodeEvent
    <3>4. d.on # "cr" /\ IssueAt(source, w.at) = 0
      BY <1>1, <2>3 DEF IssueAt
    <3> QED  BY <3>2, <3>3, <3>4 DEF GitcodeAttachIssue
  <2>4. CASE source \in {"gitlab", "tencentcode"}
    <3>1. d.hook = "issue"  BY <1>1, <2>4 DEF LikeGithub, LikeGitlab
    <3>2. GitlabIssueState(d.state) = w.state  BY <1>2, <2>4 DEF IssueState
    <3>3. CASE source = "gitlab"
      BY <1>1, <1>2, <3>1, <3>2, <3>3
         DEF ParseWebhookEvent, GitlabEvent, IssueAt
    <3>4. CASE source = "tencentcode"
      BY <1>2, <3>1, <3>2, <3>4
         DEF ParseWebhookEvent, TencentcodeEvent, TencentcodeIssueState, IssueAt
    <3> QED  BY <2>4, <3>3, <3>4
  <2>5. CASE source = "gitee"
    <3>1. d.hook = "Issue Hook"  BY <1>1, <2>5 DEF LikeGithub, LikeGitlab
    <3> QED  BY <1>1, <1>2, <2>5, <3>1
             DEF ParseWebhookEvent, GiteeEvent, IssueState, IssueAt
  <2> QED  BY <2>1, <2>2, <2>3, <2>4, <2>5 DEF Backends
<1>4. /\ e.kind = "issue" /\ e.act = ActOf(change) /\ e.note = 0
      /\ e.commit \in Int /\ e.issue = o
      /\ g.kind = "issue" /\ g.act = ActOf(change) /\ g.note = 0
      /\ g.commit \in Int /\ g.issue = o
  BY DEF Event
<1> HIDE DEF e, g
<1> QED  BY <1>3, <1>4 DEF Turned, Shown, Object

LEMMA ObjectIs ==
    \A state, at : /\ Object(state, at).there = TRUE
                   /\ Object(state, at).state = state
                   /\ Object(state, at).at = at
BY DEF Object

(* The event of a comment on a t that it shows as o, platform by platform. *)
Remark(b, t, d, act, note, o) ==
    LET e == ParseWebhookEvent(b, d)
    IN  /\ e.kind = "comment" /\ e.act = act /\ e.note = note
        /\ e.commit = -1
        /\ About(e) = t /\ Shown(b, t, d) = o

LEMMA RemarkIs ==
    ASSUME NEW b, NEW t, NEW d, NEW e, e = ParseWebhookEvent(b, d),
           NEW act, NEW note, NEW state, NEW at,
           e.kind = "comment", e.act = act, e.note = note, e.commit = -1,
           \/ t = "cr" /\ e.cr = Object(state, at)
           \/ t = "issue" /\ e.cr = Missing /\ e.issue = Object(state, at)
    PROVE  Remark(b, t, d, act, note, Object(state, at))
<1>1. PICK o : o = Object(state, at)  OBVIOUS
<1>2. o.there  BY <1>1, ObjectIs
<1>3. ~Missing.there  BY DEF Missing
<1>4. About(e) = t /\ Shown(b, t, d) = o
  BY <1>1, <1>2, <1>3 DEF About, Shown
<1> QED  BY <1>1, <1>4 DEF Remark

(* A comment, as each of the platforms with comments tells of it.          *)
LEMMA GithubRemark ==
    ASSUME NEW d, d.hook = "issue_comment", d.action # "",
           d.on \in {"issue", "cr"}
    PROVE  Remark("github", d.on, d, d.action, 0,
                  IF d.on = "cr" THEN Object("", 0) ELSE Object(d.state, d.at))
<1>1. PICK e : e = ParseWebhookEvent("github", d)  OBVIOUS
<1>2. GithubCommentAction(d.action) = d.action  BY DEF GithubCommentAction
<1>3. /\ e.kind = "comment" /\ e.act = d.action /\ e.commit = -1 /\ e.note = 0
      /\ e.issue = Object(d.state, d.at)
      /\ e.cr = IF d.on = "cr" THEN Object("", 0) ELSE Missing
  BY <1>1, <1>2 DEF ParseWebhookEvent, GithubEvent, Event
<1> QED  BY <1>1, <1>3, RemarkIs

LEMMA GithubRemarkOnDiff ==
    ASSUME NEW d, d.hook = "pull_request_review_comment", d.action # "",
           NEW state, GithubConvertPR(d) = Object(state, d.at)
    PROVE  Remark("github", "cr", d, d.action, d.note, Object(state, d.at))
<1>1. PICK e : e = ParseWebhookEvent("github", d)  OBVIOUS
<1>2. GithubCommentAction(d.action) = d.action  BY DEF GithubCommentAction
<1>3. /\ e.kind = "comment" /\ e.act = d.action /\ e.commit = -1
      /\ e.note = d.note /\ e.cr = GithubConvertPR(d)
  BY <1>1, <1>2 DEF ParseWebhookEvent, GithubEvent, Event
<1> QED  BY <1>1, <1>3, RemarkIs

LEMMA GiteaRemark ==
    ASSUME NEW b \in {"gitea", "forgejo", "gitcode"},
           NEW d, d.hook = "issue_comment", d.on \in {"issue", "cr"},
           NEW state, state = IF d.state = "closed" THEN "closed" ELSE "open"
    PROVE  Remark(b, d.on, d, "created", d.note,
                  IF d.on = "cr" THEN Object("", 0)
                  ELSE Object(state, IssueAt(b, d.at)))
<1>1. PICK e : e = ParseWebhookEvent(b, d)  OBVIOUS
<1>2. /\ e.kind = "comment" /\ e.act = "created" /\ e.commit = -1
      /\ e.note = d.note
      /\ e.issue = Object(state, IssueAt(b, d.at))
      /\ e.cr = IF d.on = "cr" THEN Object("", 0) ELSE Missing
  <2>1. CASE b = "gitcode"
    <3>1. e = GitcodeAttachIssue(CommentCreated(d), d)
      BY <1>1, <2>1 DEF ParseWebhookEvent, GitcodeEvent
    <3> QED
      BY <2>1, <3>1 DEF GitcodeAttachIssue, CommentCreated, Event, IssueAt
  <2>2. CASE b # "gitcode"
    <3>1. e = GiteaAttachIssue(CommentCreated(d), d)
      BY <1>1, <2>2 DEF ParseWebhookEvent, GiteaEvent, ForgejoEvent
    <3> QED  BY <2>2, <3>1 DEF GiteaAttachIssue, CommentCreated, Event, IssueAt
  <2> QED  BY <2>1, <2>2
<1> QED  BY <1>1, <1>2, RemarkIs

LEMMA NoteOnCR ==
    ASSUME NEW b \in {"gitlab", "tencentcode", "gitee"},
           NEW d, d.hook = "note", d.on = "cr"
    PROVE  Remark(b, "cr", d, "created", d.note, Object("", 0))
<1>1. PICK e : e = ParseWebhookEvent(b, d)  OBVIOUS
<1>2. /\ e.kind = "comment" /\ e.act = "created" /\ e.commit = -1
      /\ e.note = d.note /\ e.cr = Object("", 0)
  BY <1>1 DEF ParseWebhookEvent, GitlabEvent, TencentcodeEvent, GiteeEvent,
              CommentCreated, Event
<1> QED  BY <1>1, <1>2, RemarkIs

LEMMA NoteOnIssue ==
    ASSUME NEW b \in {"gitlab", "tencentcode", "gitee"},
           NEW d, d.hook = "note", d.on = "issue"
    PROVE  Remark(b, "issue", d, "created", d.note,
                  IF b = "gitlab" THEN Object(GitlabIssueState(d.state), d.at)
                  ELSE IF b = "gitee" THEN Object("", d.at) ELSE Object("", 0))
<1>1. PICK e : e = ParseWebhookEvent(b, d)  OBVIOUS
<1>2. CASE b = "gitlab"
  <2>1. /\ e.kind = "comment" /\ e.act = "created" /\ e.commit = -1
        /\ e.note = d.note /\ e.cr = Missing
        /\ e.issue = Object(GitlabIssueState(d.state), d.at)
    BY <1>1, <1>2 DEF ParseWebhookEvent, GitlabEvent, CommentCreated, Event
  <2> QED  BY <1>1, <1>2, <2>1, RemarkIs
<1>3. CASE b = "tencentcode"
  <2>1. /\ e.kind = "comment" /\ e.act = "created" /\ e.commit = -1
        /\ e.note = d.note /\ e.cr = Missing /\ e.issue = Object("", 0)
    BY <1>1, <1>3 DEF ParseWebhookEvent, TencentcodeEvent, CommentCreated, Event
  <2> QED  BY <1>1, <1>3, <2>1, RemarkIs
<1>4. CASE b = "gitee"
  <2>1. /\ e.kind = "comment" /\ e.act = "created" /\ e.commit = -1
        /\ e.note = d.note /\ e.cr = Missing /\ e.issue = Object("", d.at)
    BY <1>1, <1>4 DEF ParseWebhookEvent, GiteeEvent, CommentCreated, Event
  <2> QED  BY <1>1, <1>4, <2>1, RemarkIs
<1> QED  BY <1>2, <1>3, <1>4

(* What a comment shows of the issue or change request is what that is, or *)
(* nothing.                                                                *)
ActOfNote(change) == IF change = "comment" THEN "created" ELSE "deleted"
NoteOf(b, hook, n) == IF b = "github" /\ hook = "issue_comment" THEN 0 ELSE n

(* A comment on a change request, or on an issue, on every platform.       *)
LEMMA CRCommentHeard ==
    ASSUME source \in Backends, thing = "cr", NEW w,
           w.state \in States("cr"), NEW change \in {"comment", "erase"},
           change = "erase" => source = "github",
           NEW hook \in NoteHooks, NEW n,
           NEW a \in Word(change), NEW s \in Raw(w),
           NEW d, d = Payload(hook, a, s, n, w)
    PROVE  \/ Remark(source, "cr", d, ActOfNote(change),
                     NoteOf(source, hook, n), Object("", 0))
           \/ Remark(source, "cr", d, ActOfNote(change),
                     NoteOf(source, hook, n), Object(w.state, d.at))
<1>1. /\ d.action = a /\ d.state = s /\ d.at = w.at /\ d.on = "cr"
      /\ d.merged = (w.state = "merged") /\ d.note = n /\ d.hook = hook
  BY DEF Payload
<1>2. a = ActOfNote(change) /\ a # ""
  BY WordGithub, WordGitlab DEF ActOfNote
<1>3. CASE source = "github" /\ hook = "issue_comment"
  BY <1>1, <1>2, <1>3, GithubRemark DEF NoteOf
<1>4. CASE source = "github" /\ hook # "issue_comment"
  <2>1. hook = "pull_request_review_comment"  BY <1>4 DEF NoteHooks, LikeGithub
  <2>2. GithubConvertPR(d) = Object(w.state, d.at)
    BY <1>1, <1>4, CRStateGithub DEF GithubConvertPR
  <2> QED  BY <1>1, <1>2, <1>4, <2>1, <2>2, GithubRemarkOnDiff DEF NoteOf
<1>5. CASE source \in {"gitlab", "tencentcode", "gitee"}
  <2>1. d.hook = "note"  BY <1>1, <1>5 DEF NoteHooks, LikeGithub
  <2> QED  BY <1>1, <1>2, <1>5, <2>1, NoteOnCR DEF NoteOf, ActOfNote
<1>6. CASE source \in {"gitea", "forgejo", "gitcode"}
  <2>1. d.hook = "issue_comment"  BY <1>1, <1>6 DEF NoteHooks, LikeGithub
  <2> QED  BY <1>1, <1>2, <1>6, <2>1, GiteaRemark DEF NoteOf, ActOfNote
<1> QED  BY <1>3, <1>4, <1>5, <1>6 DEF Backends

Shows(change, note, w, d) == \E state, at :
    /\ state \in {"", w.state} /\ at \in {0, d.at}
    /\ state = "" \/ at = IssueAt(source, d.at)
    /\ Remark(source, "issue", d, ActOfNote(change), note, Object(state, at))

LEMMA IssueCommentHeard ==
    ASSUME source \in Backends, thing = "issue", NEW w,
           w.state \in States("issue"), NEW change \in {"comment", "erase"},
           change = "erase" => source = "github",
           NEW hook \in NoteHooks, NEW n,
           NEW a \in Word(change), NEW s \in Raw(w),
           NEW d, d = Payload(hook, a, s, n, w)
    PROVE  Shows(change, NoteOf(source, hook, n), w, d)
<1>1. /\ d.action = a /\ d.state = s /\ d.at = w.at /\ d.on = "issue"
      /\ d.note = n /\ d.hook = hook
  BY DEF Payload
<1>2. a = ActOfNote(change) /\ a # ""
  BY WordGithub, WordGitlab DEF ActOfNote
<1>3. IssueState(source, d.state) = w.state  BY <1>1, IssueWords
<1>4. CASE source = "github"
  <2>1. hook = "issue_comment" /\ d.state = w.state
    BY <1>3, <1>4 DEF NoteHooks, LikeGithub, IssueState
  <2>2. Remark(source, "issue", d, ActOfNote(change), 0, Object(w.state, d.at))
    BY <1>1, <1>2, <1>4, <2>1, GithubRemark
  <2> QED  BY <1>4, <2>1, <2>2 DEF NoteOf, IssueAt, Shows
<1>5. CASE source \in {"gitlab", "tencentcode", "gitee"}
  <2>1. d.hook = "note"  BY <1>1, <1>5 DEF NoteHooks, LikeGithub
  <2>2. source = "gitlab" => GitlabIssueState(d.state) = w.state
    BY <1>3 DEF IssueState
  <2>3. Remark(source, "issue", d, ActOfNote(change), NoteOf(source, hook, n),
               IF source = "gitlab" THEN Object(GitlabIssueState(d.state), d.at)
               ELSE IF source = "gitee" THEN Object("", d.at)
               ELSE Object("", 0))
    BY <1>1, <1>2, <1>5, <2>1, NoteOnIssue DEF NoteOf, ActOfNote
  <2> QED  BY <1>5, <2>2, <2>3 DEF IssueAt, Shows
<1>6. CASE source \in {"gitea", "forgejo", "gitcode"}
  <2>1. d.hook = "issue_comment"  BY <1>1, <1>6 DEF NoteHooks, LikeGithub
  <2>2. w.state = IF d.state = "closed" THEN "closed" ELSE "open"
    BY <1>3, <1>6 DEF IssueState
  <2>3. Remark(source, "issue", d, ActOfNote(change), NoteOf(source, hook, n),
               Object(w.state, IssueAt(source, d.at)))
    BY <1>1, <1>2, <1>6, <2>1, <2>2, GiteaRemark DEF NoteOf, ActOfNote
  <2> QED  BY <2>3 DEF IssueAt, Shows
<1> QED  BY <1>4, <1>5, <1>6 DEF Backends

(* Of a ref or a pipeline an event shows no issue or change request.       *)
Bare(b, t, d, kind, act, ref, commit) ==
    LET e == ParseWebhookEvent(b, d)
    IN  /\ e.kind = kind /\ e.act = act /\ e.ref = ref /\ e.commit = commit
        /\ e.note = 0 /\ Shown(b, t, d) = Missing

(* The events of refs and pipelines.                                       *)
LEMMA PushHeard ==
    ASSUME NEW b \in Backends, NEW t, t # "cr", NEW d, d.hook = "push"
    PROVE  Bare(b, t, d, "push", "", "branch", d.after)
<1>1. PICK e : e = ParseWebhookEvent(b, d)  OBVIOUS
<1>2. e = PushEvent(d)
  BY <1>1 DEF Backends, ParseWebhookEvent, GithubEvent, GitlabEvent, GiteaEvent,
              ForgejoEvent, GiteeEvent, GitcodeEvent, TencentcodeEvent
<1>3. /\ e.kind = "push" /\ e.act = "" /\ e.ref = "branch"
      /\ e.commit = d.after /\ e.note = 0 /\ e.issue = Missing
  BY <1>2 DEF PushEvent, Event
<1> QED  BY <1>1, <1>3 DEF Bare, Shown

LEMMA OwnHeard ==
    ASSUME NEW b \in {"github", "gitea", "forgejo", "gitcode"},
           NEW t, t # "cr", NEW d, d.hook \in {"create", "delete"},
           NEW act, act = IF d.hook = "create" THEN "created" ELSE "deleted"
    PROVE  Bare(b, t, d, d.ref, act, d.ref, -1)
<1>1. PICK e : e = ParseWebhookEvent(b, d)  OBVIOUS
<1>2. e = RefEvent(d, act)
  BY <1>1 DEF ParseWebhookEvent, GithubEvent, GiteaEvent, ForgejoEvent,
              GitcodeEvent
<1>3. /\ e.kind = d.ref /\ e.act = act /\ e.ref = d.ref
      /\ e.commit = -1 /\ e.note = 0 /\ e.issue = Missing
  BY <1>2 DEF RefEvent, Event
<1> QED  BY <1>1, <1>3 DEF Bare, Shown

LEMMA TagHeard ==
    ASSUME NEW b \in Backends, b # "github", NEW t, t # "cr",
           NEW d, d.hook = "tag_push"
    PROVE  Bare(b, t, d, "tag", "created", "tag",
                IF b \in {"gitlab", "tencentcode"} THEN -1 ELSE d.after)
<1>1. PICK e : e = ParseWebhookEvent(b, d)  OBVIOUS
<1>2. CASE b \in {"gitlab", "tencentcode"}
  <2>1. e = TagCreated
    BY <1>1, <1>2 DEF ParseWebhookEvent, GitlabEvent, TencentcodeEvent
  <2>2. /\ e.kind = "tag" /\ e.act = "created" /\ e.ref = "tag"
        /\ e.commit = -1 /\ e.note = 0 /\ e.issue = Missing
    BY <2>1 DEF TagCreated, Event
  <2> QED  BY <1>1, <1>2, <2>2 DEF Bare, Shown
<1>3. CASE b \notin {"gitlab", "tencentcode"}
  <2>1. e = [TagCreated EXCEPT !.commit = d.after]
    BY <1>1, <1>3 DEF Backends, ParseWebhookEvent, GiteaEvent, ForgejoEvent,
                      GiteeEvent, GitcodeEvent
  <2>2. /\ e.kind = "tag" /\ e.act = "created" /\ e.ref = "tag"
        /\ e.commit = d.after /\ e.note = 0 /\ e.issue = Missing
    BY <2>1 DEF TagCreated, Event
  <2> QED  BY <1>1, <1>3, <2>2 DEF Bare, Shown
<1> QED  BY <1>2, <1>3

LEMMA PipelineHeard ==
    ASSUME NEW t, t # "cr", NEW d, d.hook = "pipeline"
    PROVE  IF d.state \in {"failed", "canceled"}
           THEN Bare("gitlab", t, d, "pipeline", d.state, "", d.after)
           ELSE Bare("gitlab", t, d, "", "", "", -1)
<1>1. PICK e : e = ParseWebhookEvent("gitlab", d)  OBVIOUS
<1>2. CASE d.state \in {"failed", "canceled"}
  <2>1. /\ e.kind = "pipeline" /\ e.act = d.state /\ e.ref = ""
        /\ e.commit = d.after /\ e.note = 0 /\ e.issue = Missing
    BY <1>1, <1>2 DEF ParseWebhookEvent, GitlabEvent, Event
  <2> QED  BY <1>1, <1>2, <2>1 DEF Bare, Shown
<1>3. CASE d.state \notin {"failed", "canceled"}
  <2>1. /\ e.kind = "" /\ e.act = "" /\ e.ref = ""
        /\ e.commit = -1 /\ e.note = 0 /\ e.issue = Missing
    BY <1>1, <1>3 DEF ParseWebhookEvent, GitlabEvent, NoEvent, Event
  <2> QED  BY <1>1, <1>3, <2>1 DEF Bare, Shown
<1> QED  BY <1>2, <1>3

(* What these events set a part of the picture to.                         *)
LEMMA TurnedSets ==
    ASSUME NEW b, NEW t \in {"issue", "cr"}, NEW d, NEW change, NEW state,
           NEW at, Turned(b, t, d, ActOf(change), state, at),
           Fits(t, change, state)
    PROVE  /\ Said(b, t, d) =
                 IF change \in {"edit", "push"} THEN {} ELSE {state}
           /\ Stated(b, t, d) = {state}
           /\ \A n : Noted(b, t, n, d) = {}
<1>1. PICK e : e = ParseWebhookEvent(b, d)  OBVIOUS
<1>2. e.kind = t /\ e.act = ActOf(change) /\ Shown(b, t, d).state = state
  BY <1>1 DEF Turned
<1>3. Said(b, t, d) = IF change \in {"edit", "push"} THEN {} ELSE {state}
  BY <1>1, <1>2 DEF Said, ActOf, Fits, Turning, Opens
<1>4. state # ""  BY DEF Fits, States, Opens
<1> QED  BY <1>1, <1>2, <1>3, <1>4 DEF Stated, Noted

-----------------------------------------------------------------------------
(* What is owed, as deliveries come to the line and are taken from it.     *)
LEMMA OwesAdded ==
    ASSUME NEW n \in Nat, NEW s, NEW r, DOMAIN s = 1..n, DOMAIN r = 1..(n + 1),
           \A i \in 1..n : r[i] = s[i],
           NEW x, NEW y, NEW z,
           \/ r[n + 1] = {} /\ Owes(s, x, y) /\ z = y
           \/ r[n + 1] # {} /\ z = r[n + 1]
    PROVE  Owes(r, x, z)
<1>1. CASE r[n + 1] = {} /\ Owes(s, x, y) /\ z = y
  <2>1. ASSUME NEW i \in DOMAIN r, r[i] # {},
               \A j \in DOMAIN r : j > i => r[j] = {}
        PROVE  r[i] = z
    <3>1. i \in 1..n /\ r[i] = s[i]  BY <1>1, <2>1
    <3>2. \A j \in DOMAIN s : j > i => s[j] = {}  BY <2>1
    <3> QED  BY <1>1, <2>1, <3>1, <3>2 DEF Owes
  <2>2. ASSUME \A i \in DOMAIN r : r[i] = {}  PROVE x = z
    <3>1. \A i \in DOMAIN s : s[i] = {}  BY <2>2
    <3> QED  BY <1>1, <3>1 DEF Owes
  <2> QED  BY <2>1, <2>2 DEF Owes
<1>2. CASE r[n + 1] # {} /\ z = r[n + 1]
  <2>1. n + 1 \in DOMAIN r  OBVIOUS
  <2>2. ASSUME NEW i \in DOMAIN r, \A j \in DOMAIN r : j > i => r[j] = {}
        PROVE  r[i] = z
    <3>1. ~(n + 1 > i)  BY <1>2, <2>1, <2>2
    <3>2. i = n + 1  BY <3>1
    <3> QED  BY <1>2, <3>2
  <2> QED  BY <1>2, <2>1, <2>2 DEF Owes
<1> QED  BY <1>1, <1>2

After(s, x) == IF s = {} THEN x ELSE s

LEMMA OwesTaken ==
    ASSUME NEW n \in Nat, NEW s, NEW r, DOMAIN s = 1..(n + 1), DOMAIN r = 1..n,
           \A i \in 1..n : r[i] = s[i + 1],
           NEW x, NEW y, Owes(s, x, y)
    PROVE  Owes(r, After(s[1], x), y)
<1>1. ASSUME NEW i \in DOMAIN r, r[i] # {},
             \A j \in DOMAIN r : j > i => r[j] = {}
      PROVE  r[i] = y
  <2>1. i + 1 \in DOMAIN s /\ s[i + 1] = r[i]  OBVIOUS
  <2>2. ASSUME NEW j \in DOMAIN s, j > i + 1 PROVE s[j] = {}
    <3>1. j - 1 \in 1..n /\ j - 1 > i /\ (j - 1) + 1 = j  BY <2>2
    <3>2. r[j - 1] = s[j]  BY <3>1
    <3> QED  BY <1>1, <3>1, <3>2
  <2> QED  BY <1>1, <2>1, <2>2 DEF Owes
<1>2. ASSUME \A i \in DOMAIN r : r[i] = {} PROVE After(s[1], x) = y
  <2>1. ASSUME NEW j \in DOMAIN s, j > 1 PROVE s[j] = {}
    <3>1. j - 1 \in 1..n /\ (j - 1) + 1 = j  BY <2>1
    <3> QED  BY <1>2, <3>1
  <2>2. 1 \in DOMAIN s  OBVIOUS
  <2>3. CASE s[1] # {}  BY <2>1, <2>2, <2>3 DEF Owes, After
  <2>4. CASE s[1] = {}
    <3>1. \A j \in DOMAIN s : s[j] = {}  BY <2>1, <2>4
    <3> QED  BY <2>4, <3>1 DEF Owes, After
  <2> QED  BY <2>3, <2>4
<1> QED  BY <1>1, <1>2 DEF Owes

-----------------------------------------------------------------------------
(* What hearing a delivery does to the picture.                            *)
LEMMA LaterOf ==
    ASSUME NEW a \in Nat, NEW b \in Nat
    PROVE  Max({a, b}) = IF a < b THEN b ELSE a
BY DEF Max

Stale(d) == /\ Shown(source, thing, d).at # 0
            /\ Shown(source, thing, d).at < seen.at

LEMMA HearNotes ==
    ASSUME FollowTypeOK, NEW d, DeliveryOK(source, thing, world.at, d),
           NEW e, e = ParseWebhookEvent(source, d)
    PROVE  /\ NotesAfter(e) \subseteq seen.notes \cup 1..world.at
           /\ \A n \in Nat \ {0} :
                 {NotesAfter(e) \cap {n}} =
                    After(Noted(source, thing, n, d), {seen.notes \cap {n}})
<1>1. e.note \in 0..world.at /\ world.at \in Nat /\ seen.notes \subseteq Nat
  BY DEF DeliveryOK, FollowTypeOK, World, Picture
<1>2. NotesAfter(e) = IF About(e) # thing \/ e.kind # "comment" THEN seen.notes
                      ELSE IF e.act = "created"
                      THEN seen.notes \cup ({e.note} \ {0})
                      ELSE IF e.act = "deleted" THEN seen.notes \ {e.note}
                      ELSE seen.notes
  BY DEF NotesAfter, About
<1>3. ASSUME NEW n \in Nat \ {0}
      PROVE  {NotesAfter(e) \cap {n}} =
                After(Noted(source, thing, n, d), {seen.notes \cap {n}})
  <2>1. CASE e.kind # "comment" \/ About(e) # thing
    BY <1>2, <2>1 DEF Noted, After
  <2>2. CASE e.kind = "comment" /\ About(e) = thing /\ e.act = "created"
    BY <1>1, <1>2, <2>2 DEF Noted, After
  <2>3. CASE e.kind = "comment" /\ About(e) = thing /\ e.act = "deleted"
    BY <1>1, <1>2, <2>3 DEF Noted, After
  <2>4. CASE /\ e.kind = "comment" /\ About(e) = thing
             /\ e.act \notin {"created", "deleted"}
    BY <1>1, <1>2, <2>4 DEF Noted, After
  <2> QED  BY <2>1, <2>2, <2>3, <2>4
<1> QED  BY <1>1, <1>2, <1>3

(* Hearing a delivery sets every part of the picture that is not stale.    *)
LEMMA HearOf ==
    ASSUME FollowTypeOK, NEW d, DeliveryOK(source, thing, world.at, d), Hear(d)
    PROVE  /\ seen' \in Picture
           /\ seen'.notes \subseteq seen.notes \cup 1..world.at
           /\ \A n \in Nat \ {0} :
                 {seen'.notes \cap {n}} =
                    After(Noted(source, thing, n, d), {seen.notes \cap {n}})
           /\ Stale(d) => /\ seen'.said = seen.said /\ seen'.head = seen.head
                          /\ seen'.state = seen.state /\ seen'.at = seen.at
           /\ ~Stale(d) =>
                 /\ {seen'.said} = After(Said(source, thing, d), {seen.said})
                 /\ {seen'.state} = After(Stated(source, thing, d), {seen.state})
                 /\ seen'.head =
                       LET e == ParseWebhookEvent(source, d)
                       IN  IF Headed(source, thing, d) # {}
                           THEN IF e.act = "deleted" THEN 0 ELSE e.commit
                           ELSE IF e.ref = thing /\ seen.head = 0 THEN -1
                           ELSE seen.head
                 /\ seen'.at = IF Stated(source, thing, d) # {}
                                  /\ seen.at < Shown(source, thing, d).at
                               THEN Shown(source, thing, d).at ELSE seen.at
<1>1. PICK e : e = ParseWebhookEvent(source, d)  OBVIOUS
<1>2. PICK o : o = Shown(source, thing, d)  OBVIOUS
<1>3. /\ seen.said \in Conditions /\ seen.state \in Conditions /\ seen.at \in Nat
      /\ seen.head \in Int /\ seen.notes \subseteq Nat /\ world.at \in Nat
      /\ o.state \in Conditions /\ o.at \in Nat /\ e.commit \in Int
  <2>1. /\ seen.said \in Conditions /\ seen.state \in Conditions /\ seen.at \in Nat
        /\ seen.head \in Int /\ seen.notes \subseteq Nat /\ world.at \in Nat
    BY DEF FollowTypeOK, Picture, World
  <2>2. o.state \in Conditions /\ o.at \in {0, d.at} /\ d.at \in 1..world.at
    BY <1>2 DEF DeliveryOK
  <2>3. e.commit \in Int  BY <1>1 DEF DeliveryOK
  <2> QED  BY <2>1, <2>2, <2>3
<1>4. seen' = IF Stale(d) THEN [seen EXCEPT !.notes = NotesAfter(e)]
              ELSE [said |-> Says(e), head |-> HeadAfter(e),
                    notes |-> NotesAfter(e),
                    state |-> IF o.state = "" THEN seen.state ELSE o.state,
                    at |-> IF o.state = "" THEN seen.at
                           ELSE Max({seen.at, o.at})]
  BY <1>1, <1>2 DEF Hear, Stale, Shown
<1>5. /\ NotesAfter(e) \subseteq seen.notes \cup 1..world.at
      /\ \A n \in Nat \ {0} :
            {NotesAfter(e) \cap {n}} =
               After(Noted(source, thing, n, d), {seen.notes \cap {n}})
  BY <1>1, HearNotes
<1>6. NotesAfter(e) \in SUBSET Nat  BY <1>3, <1>5
<1>7. CASE Stale(d)
  <2>1. seen' = [seen EXCEPT !.notes = NotesAfter(e)]  BY <1>4, <1>7
  <2>2. /\ seen' \in Picture /\ seen'.notes = NotesAfter(e)
        /\ seen'.said = seen.said /\ seen'.head = seen.head
        /\ seen'.state = seen.state /\ seen'.at = seen.at
    BY <1>6, <2>1 DEF FollowTypeOK, Picture
  <2> QED  BY <1>5, <1>7, <2>2
<1>8. CASE ~Stale(d)
  <2>1. {Says(e)} = After(Said(source, thing, d), {seen.said})
        /\ Says(e) \in Conditions
    <3>1. Said(source, thing, d) =
             IF e.kind # thing THEN {}
             ELSE IF e.act \in {"opened", "reopened"} THEN {Open}
             ELSE {e.act} \cap {"closed", "merged", "failed", "canceled"}
      BY <1>1 DEF Said, Open, Opens
    <3>2. CASE e.kind # thing  BY <1>3, <3>1, <3>2 DEF Says, After
    <3>3. CASE e.kind = thing /\ e.act \in {"opened", "reopened"}
      <4>1. Says(e) = Open  BY <3>3 DEF Says
      <4>2. Said(source, thing, d) = {Open}  BY <3>1, <3>3
      <4>3. Open \in Conditions  BY DEF Open, Conditions
      <4> QED  BY <4>1, <4>2, <4>3 DEF After
    <3>4. CASE /\ e.kind = thing
               /\ e.act \in {"closed", "merged", "failed", "canceled"}
      <4>1. PICK a : a = e.act  OBVIOUS
      <4>2. Says(e) = a  BY <3>4, <4>1 DEF Says
      <4>3. Said(source, thing, d) = {a}  BY <3>1, <3>4, <4>1
      <4>4. a \in Conditions
        BY <3>4, <4>1 DEF Conditions
      <4> QED  BY <4>2, <4>3, <4>4 DEF After
    <3>5. CASE /\ e.kind = thing /\ e.act \notin {"opened", "reopened"}
               /\ e.act \notin {"closed", "merged", "failed", "canceled"}
      <4>1. Says(e) = seen.said  BY <3>5 DEF Says
      <4>2. Said(source, thing, d) = {}  BY <3>1, <3>5
      <4> QED  BY <1>3, <4>1, <4>2 DEF After
    <3> QED  BY <3>2, <3>3, <3>4, <3>5
  <2>2. /\ HeadAfter(e) = IF Headed(source, thing, d) # {}
                          THEN IF e.act = "deleted" THEN 0 ELSE e.commit
                          ELSE IF e.ref = thing /\ seen.head = 0 THEN -1
                          ELSE seen.head
        /\ HeadAfter(e) \in Int
    BY <1>1, <1>3 DEF HeadAfter, Headed
  <2>3. PICK m : m = IF o.state = "" THEN seen.at ELSE Max({seen.at, o.at})
    OBVIOUS
  <2>4. Stated(source, thing, d) = {o.state} \ {""}  BY <1>2 DEF Stated
  <2>5. m \in Nat /\ m = IF Stated(source, thing, d) # {} /\ seen.at < o.at
                         THEN o.at ELSE seen.at
    BY <1>3, <2>3, <2>4, LaterOf
  <2>6. PICK x : x = IF o.state = "" THEN seen.state ELSE o.state  OBVIOUS
  <2>7. x \in Conditions /\ {x} = After(Stated(source, thing, d), {seen.state})
    BY <1>3, <2>4, <2>6 DEF After
  <2>8. seen' = [said |-> Says(e), head |-> HeadAfter(e),
                 notes |-> NotesAfter(e), state |-> x, at |-> m]
    BY <1>4, <1>8, <2>3, <2>6
  <2>9. /\ seen' \in Picture /\ seen'.notes = NotesAfter(e)
        /\ seen'.said = Says(e) /\ seen'.head = HeadAfter(e)
        /\ seen'.state = x /\ seen'.at = m
    BY <1>6, <2>1, <2>2, <2>5, <2>7, <2>8 DEF Picture
  <2> QED  BY <1>1, <1>2, <1>5, <1>8, <2>1, <2>2, <2>5, <2>7, <2>9
<1> QED  BY <1>7, <1>8

-----------------------------------------------------------------------------
(* A step in which the delivery at p of the line is heard, and the others  *)
(* stay.                                                                   *)
Heard(p) ==
    /\ Hear(line[p])
    /\ UNCHANGED <<source, thing, world>>
    /\ \A i \in DOMAIN line : i # p => \E j \in DOMAIN line' : line'[j] = line[i]
    /\ \A j \in DOMAIN line' : \E i \in DOMAIN line : line'[j] = line[i]

(* What stays of the line, of the states and of the comments.              *)
LEMMA HeardLine ==
    ASSUME LineOK, NEW p \in DOMAIN line, Heard(p)
    PROVE  LineOK'
<1>1. source' = source /\ thing' = thing /\ world' = world  BY DEF Heard
<1>2. ASSUME NEW j \in DOMAIN line'
      PROVE  DeliveryOK(source', thing', world'.at, line'[j])
  <2>1. PICK i \in DOMAIN line : line'[j] = line[i]  BY DEF Heard
  <2>2. DeliveryOK(source, thing, world.at, line[i])  BY DEF LineOK
  <2> QED  BY <1>1, <2>1, <2>2
<1> QED  BY <1>2 DEF LineOK

LEMMA HeardState ==
    ASSUME FollowTypeOK, LineOK, StateOK, NEW p \in DOMAIN line, Heard(p)
    PROVE  StateOK'
<1>1. source' = source /\ thing' = thing /\ world' = world  BY DEF Heard
<1> SUFFICES ASSUME Tracked, Timed
             PROVE  \E k \in 0..world.at :
                /\ seen'.at <= k /\ (seen'.at = k => seen'.state = world.state)
                /\ \A i \in DOMAIN line' : Stated(source, thing, line'[i]) # {} =>
                      /\ line'[i].at <= k
                      /\ line'[i].at = k =>
                            Stated(source, thing, line'[i]) = {world.state}
                /\ \/ seen'.at = k
                   \/ \E i \in DOMAIN line' :
                         Stated(source, thing, line'[i]) # {} /\ line'[i].at = k
  BY <1>1 DEF StateOK, Tracked, Timed
<1>2. PICK k \in 0..world.at :
         /\ seen.at <= k /\ (seen.at = k => seen.state = world.state)
         /\ \A i \in DOMAIN line : Stated(source, thing, line[i]) # {} =>
               /\ line[i].at <= k
               /\ line[i].at = k =>
                     Stated(source, thing, line[i]) = {world.state}
         /\ \/ seen.at = k
            \/ \E i \in DOMAIN line :
                  Stated(source, thing, line[i]) # {} /\ line[i].at = k
  BY DEF StateOK
<1>3. PICK d : d = line[p]  OBVIOUS
<1>4. DeliveryOK(source, thing, world.at, d) /\ Hear(d)
  BY <1>3 DEF LineOK, Heard
<1>5. PICK S : S = Stated(source, thing, d)  OBVIOUS
<1>6. /\ seen.at \in Nat /\ world.at \in Nat /\ d.at \in 1..world.at
      /\ k \in Nat
  <2>1. seen.at \in Nat /\ world.at \in Nat
    BY DEF FollowTypeOK, Picture, World
  <2>2. d.at \in 1..world.at  BY <1>4 DEF DeliveryOK
  <2> QED  BY <2>1, <2>2
<1>7. \A i \in DOMAIN line' : Stated(source, thing, line'[i]) # {} =>
         /\ line'[i].at <= k
         /\ line'[i].at = k => Stated(source, thing, line'[i]) = {world.state}
  <2> TAKE i \in DOMAIN line'
  <2>1. PICK j \in DOMAIN line : line'[i] = line[j]  BY DEF Heard
  <2> QED  BY <1>2, <2>1
<1>8. ASSUME NEW i \in DOMAIN line, i # p, Stated(source, thing, line[i]) # {},
             line[i].at = k
      PROVE  \E j \in DOMAIN line' :
                Stated(source, thing, line'[j]) # {} /\ line'[j].at = k
  <2>1. PICK j \in DOMAIN line' : line'[j] = line[i]  BY <1>8 DEF Heard
  <2> QED  BY <1>8, <2>1
<1>9. CASE S = {} \/ Stale(d)
  <2>1. seen'.at = seen.at /\ seen'.state = seen.state
    <3>1. CASE Stale(d)  BY <1>4, <3>1, HearOf
    <3>2. CASE S = {} /\ ~Stale(d)
      <4>1. {seen'.state} = {seen.state} /\ seen'.at = seen.at
        BY <1>4, <1>5, <3>2, HearOf DEF After
      <4> QED  BY <4>1
    <3> QED  BY <1>9, <3>1, <3>2
  <2>2. S # {} => d.at # k
    <3> SUFFICES ASSUME S # {}, Stale(d) PROVE d.at < seen.at
      BY <1>2, <1>6, <1>9
    <3>1. Shown(source, thing, d).at \in {0, d.at}  BY <1>4 DEF DeliveryOK
    <3> QED  BY <1>6, <3>1 DEF Stale
  <2>3. \/ seen'.at = k
        \/ \E i \in DOMAIN line' :
              Stated(source, thing, line'[i]) # {} /\ line'[i].at = k
    <3>1. CASE seen.at = k  BY <2>1, <3>1
    <3>2. CASE seen.at # k
      <4>1. PICK i \in DOMAIN line :
               Stated(source, thing, line[i]) # {} /\ line[i].at = k
        BY <1>2, <3>2
      <4>2. i # p  BY <1>3, <1>5, <2>2, <4>1
      <4> QED  BY <1>8, <4>1, <4>2
    <3> QED  BY <3>1, <3>2
  <2> QED  BY <1>2, <1>7, <2>1, <2>3
<1>10. CASE S # {} /\ ~Stale(d)
  <2>1. Shown(source, thing, d).state # ""  BY <1>5, <1>10 DEF Stated
  <2>2. Timely(source, thing)  BY DEF Timely, Tracked, Timed
  <2>3. Shown(source, thing, d).at = d.at  BY <1>4, <2>1, <2>2 DEF DeliveryOK
  <2>4. seen.at <= d.at  BY <1>6, <1>10, <2>3 DEF Stale
  <2>5. seen'.at = d.at /\ {seen'.state} = S
    <3>1. /\ {seen'.state} = S
          /\ seen'.at = IF seen.at < Shown(source, thing, d).at
                        THEN Shown(source, thing, d).at ELSE seen.at
      BY <1>4, <1>5, <1>10, HearOf DEF After
    <3> QED  BY <1>6, <2>3, <2>4, <3>1
  <2>6. d.at <= k /\ (d.at = k => S = {world.state})
    BY <1>2, <1>3, <1>5, <1>10
  <2>7. seen'.at <= k /\ (seen'.at = k => seen'.state = world.state)
    BY <2>5, <2>6
  <2>8. \/ seen'.at = k
        \/ \E i \in DOMAIN line' :
              Stated(source, thing, line'[i]) # {} /\ line'[i].at = k
    <3>1. CASE d.at = k  BY <2>5, <3>1
    <3>2. CASE d.at # k
      <4>1. seen.at # k  BY <1>6, <2>4, <2>6, <3>2
      <4>2. PICK i \in DOMAIN line :
               Stated(source, thing, line[i]) # {} /\ line[i].at = k
        BY <1>2, <4>1
      <4>3. i # p  BY <1>3, <3>2, <4>2
      <4> QED  BY <1>8, <4>2, <4>3
    <3> QED  BY <3>1, <3>2
  <2> QED  BY <1>7, <2>7, <2>8
<1> QED  BY <1>9, <1>10

LEMMA HeardNotes ==
    ASSUME FollowTypeOK, WorldOK, LineOK, NotesOK, NEW p \in DOMAIN line, Heard(p)
    PROVE  NotesOK'
<1>1. source' = source /\ thing' = thing /\ world' = world  BY DEF Heard
<1> SUFFICES ASSUME Tracked, NEW n \in Told(source, world)
             PROVE  /\ \/ n \in seen'.notes
                       \/ \E i \in DOMAIN line' :
                             Noted(source, thing, n, line'[i]) = {{n}}
                    /\ \A i \in DOMAIN line' :
                          Noted(source, thing, n, line'[i]) # {{}}
  BY <1>1 DEF NotesOK, Tracked
<1>2. n \in Nat \ {0}
  <2>1. PICK m \in world.notes : n = m.id  BY DEF Told
  <2>2. m.id \in 1..world.at /\ world.at \in Nat
    BY DEF WorldOK, FollowTypeOK, World
  <2> QED  BY <2>1, <2>2
<1>3. /\ \/ n \in seen.notes
         \/ \E i \in DOMAIN line : Noted(source, thing, n, line[i]) = {{n}}
      /\ \A i \in DOMAIN line : Noted(source, thing, n, line[i]) # {{}}
  BY DEF NotesOK
<1>4. PICK d : d = line[p]  OBVIOUS
<1>5. DeliveryOK(source, thing, world.at, d) /\ Hear(d)
  BY <1>4 DEF LineOK, Heard
<1>6. {seen'.notes \cap {n}} =
         After(Noted(source, thing, n, d), {seen.notes \cap {n}})
  BY <1>2, <1>5, HearOf
<1>7. Noted(source, thing, n, d) \in {{}, {{n}}}
  BY <1>3, <1>4 DEF Noted
<1>8. CASE Noted(source, thing, n, d) = {{n}}
  <2>1. {seen'.notes \cap {n}} = {{n}}  BY <1>6, <1>8 DEF After
  <2>2. n \in seen'.notes  BY <2>1
  <2>3. \A i \in DOMAIN line' : Noted(source, thing, n, line'[i]) # {{}}
    BY <1>3 DEF Heard
  <2> QED  BY <2>2, <2>3
<1>9. CASE Noted(source, thing, n, d) = {}
  <2>1. {seen'.notes \cap {n}} = {seen.notes \cap {n}}  BY <1>6, <1>9 DEF After
  <2>2. n \in seen'.notes <=> n \in seen.notes  BY <2>1
  <2>3. ASSUME NEW i \in DOMAIN line, Noted(source, thing, n, line[i]) = {{n}}
        PROVE  \E j \in DOMAIN line' : Noted(source, thing, n, line'[j]) = {{n}}
    <3>1. i # p  BY <1>4, <1>9, <2>3
    <3> QED  BY <2>3, <3>1 DEF Heard
  <2>4. \A i \in DOMAIN line' : Noted(source, thing, n, line'[i]) # {{}}
    BY <1>3 DEF Heard
  <2> QED  BY <1>3, <2>2, <2>3, <2>4
<1> QED  BY <1>7, <1>8, <1>9

-----------------------------------------------------------------------------
(* The first delivery is heard in its turn.                                *)
Taken == /\ line # << >> /\ Hear(line[1])
         /\ line' = Tail(line)
         /\ UNCHANGED <<source, thing, world, late>>

(* The first of the line is heard, in its order.                           *)
LEMMA LineTaken ==
    ASSUME line \in Seq(Delivery), Taken
    PROVE  \E n \in Nat : /\ DOMAIN line = 1..(n + 1) /\ DOMAIN line' = 1..n
                          /\ \A i \in 1..n : line'[i] = line[i + 1]
                          /\ Len(line) = n + 1
<1>1. Len(line) \in Nat /\ Len(line) # 0  BY DEF Taken
<1>2. PICK n \in Nat : Len(line) = n + 1
  <2>1. Len(line) - 1 \in Nat /\ Len(line) = (Len(line) - 1) + 1  BY <1>1
  <2> QED  BY <2>1
<1>3. /\ DOMAIN line = 1..(n + 1) /\ DOMAIN line' = 1..n
      /\ \A i \in 1..n : line'[i] = line[i + 1]
  BY <1>2 DEF Taken
<1> QED  BY <1>2, <1>3

(* What is owed of one part of the picture, once the first is heard.       *)
LEMMA OwesHeard ==
    ASSUME line \in Seq(Delivery), Taken, NEW s, NEW r,
           DOMAIN s = DOMAIN line, DOMAIN r = DOMAIN line',
           \A i \in DOMAIN line', j \in DOMAIN line :
              line'[i] = line[j] => r[i] = s[j],
           NEW x, NEW y, Owes(s, x, y)
    PROVE  Owes(r, After(s[1], x), y)
<1>1. PICK n \in Nat : /\ DOMAIN line = 1..(n + 1) /\ DOMAIN line' = 1..n
                       /\ \A i \in 1..n : line'[i] = line[i + 1]
  BY LineTaken
<1>2. \A i \in 1..n : r[i] = s[i + 1]
  <2> TAKE i \in 1..n
  <2>1. i \in DOMAIN line' /\ i + 1 \in DOMAIN line /\ line'[i] = line[i + 1]
    BY <1>1
  <2> QED  BY <2>1
<1> QED  BY <1>1, <1>2, OwesTaken

LEMMA TakenInOrder ==
    ASSUME FollowInv, late = 0, Taken
    PROVE  ~Stale(line[1]) /\ TimesOK'
<1>1. /\ line \in Seq(Delivery) /\ 1 \in DOMAIN line
      /\ seen.at \in Nat /\ world.at \in Nat
  BY DEF FollowInv, FollowTypeOK, Picture, World, Taken
<1>2. PICK d : d = line[1]  OBVIOUS
<1>3. DeliveryOK(source, thing, world.at, d) /\ Hear(d)
  BY <1>1, <1>2 DEF FollowInv, LineOK, Taken
<1>4. TimesOK  BY DEF FollowInv, InOrder
<1>5. /\ seen.at <= d.at /\ d.at \in 1..world.at
      /\ Shown(source, thing, d).at \in {0, d.at}
  BY <1>1, <1>2, <1>3, <1>4 DEF TimesOK, DeliveryOK
<1>6. ~Stale(d)  BY <1>1, <1>5 DEF Stale
<1>7. seen'.at \in Nat /\ seen'.at <= d.at
  <2>1. seen'.at = IF Stated(source, thing, d) # {}
                      /\ seen.at < Shown(source, thing, d).at
                   THEN Shown(source, thing, d).at ELSE seen.at
    BY <1>3, <1>6, HearOf DEF FollowInv
  <2> QED  BY <1>1, <1>5, <2>1
<1>8. /\ DOMAIN line' = 1..(Len(line) - 1) /\ Len(line) \in Nat
      /\ \A i \in 1..(Len(line) - 1) : line'[i] = line[i + 1]
  BY <1>1 DEF Taken
<1>9. world' = world  BY DEF Taken
<1>10. seen'.at <= world'.at  BY <1>1, <1>5, <1>7, <1>9
<1>11. ASSUME NEW i \in DOMAIN line' PROVE seen'.at <= line'[i].at
  <2>1. i + 1 \in DOMAIN line /\ 1 < i + 1 /\ line'[i] = line[i + 1]
    BY <1>1, <1>8
  <2>2. d.at <= line[i + 1].at  BY <1>1, <1>2, <1>4, <2>1 DEF TimesOK
  <2>3. line[i + 1].at \in Nat
    <3>1. line[i + 1] \in Delivery  BY <1>1, <2>1
    <3> QED  BY <3>1 DEF Delivery
  <2> QED  BY <1>5, <1>7, <2>1, <2>2, <2>3
<1>12. ASSUME NEW i \in DOMAIN line', NEW j \in DOMAIN line', i < j
       PROVE  line'[i].at <= line'[j].at
  <2>1. /\ i + 1 \in DOMAIN line /\ line'[i] = line[i + 1]
        /\ j + 1 \in DOMAIN line /\ line'[j] = line[j + 1] /\ i + 1 < j + 1
    BY <1>1, <1>8, <1>12
  <2> QED  BY <1>4, <2>1 DEF TimesOK
<1> QED  BY <1>2, <1>6, <1>10, <1>11, <1>12 DEF TimesOK

LEMMA TakenTracked ==
    ASSUME FollowInv, late = 0, Taken, Tracked
    PROVE  TrackedOwed(source, thing, world, line', seen')
<1>1. /\ line \in Seq(Delivery) /\ line # << >> /\ 1 \in DOMAIN line
      /\ line' = Tail(line) /\ world.at \in Nat
  BY DEF FollowInv, FollowTypeOK, World, Taken
<1>2. PICK d : d = line[1]  OBVIOUS
<1>3. DeliveryOK(source, thing, world.at, d) /\ Hear(d) /\ ~Stale(d)
  BY <1>1, <1>2, TakenInOrder DEF FollowInv, LineOK, Taken
<1>4. TrackedOwed(source, thing, world, line, seen)  BY DEF FollowInv, InOrder
<1>5. /\ {seen'.said} = After(Said(source, thing, d), {seen.said})
      /\ {seen'.state} = After(Stated(source, thing, d), {seen.state})
      /\ seen'.notes \subseteq seen.notes \cup 1..world.at
      /\ \A n \in Nat \ {0} :
            {seen'.notes \cap {n}} =
               After(Noted(source, thing, n, d), {seen.notes \cap {n}})
  BY <1>3, HearOf DEF FollowInv
<1>6. Owes([i \in DOMAIN line' |-> Said(source, thing, line'[i])],
           {seen'.said}, {world.state})
  <2> DEFINE s == [i \in DOMAIN line |-> Said(source, thing, line[i])]
             r == [i \in DOMAIN line' |-> Said(source, thing, line'[i])]
  <2>1. Owes(s, {seen.said}, {world.state})  BY <1>4 DEF TrackedOwed
  <2>2. {seen'.said} = After(s[1], {seen.said})
    <3>1. s[1] = Said(source, thing, d)  BY <1>1, <1>2
    <3> QED  BY <1>5, <3>1
  <2>3. /\ DOMAIN s = DOMAIN line /\ DOMAIN r = DOMAIN line'
        /\ \A i \in DOMAIN line', j \in DOMAIN line :
              line'[i] = line[j] => r[i] = s[j]
    OBVIOUS
  <2> HIDE DEF s, r
  <2>4. Owes(r, After(s[1], {seen.said}), {world.state})
    BY <1>1, <2>1, <2>3, OwesHeard
  <2>5. Owes(r, {seen'.said}, {world.state})  BY <2>2, <2>4
  <2> QED  BY <2>5 DEF r
<1>7. Owes([i \in DOMAIN line' |-> Stated(source, thing, line'[i])],
           {seen'.state}, {world.state})
  <2> DEFINE s == [i \in DOMAIN line |-> Stated(source, thing, line[i])]
             r == [i \in DOMAIN line' |-> Stated(source, thing, line'[i])]
  <2>1. Owes(s, {seen.state}, {world.state})  BY <1>4 DEF TrackedOwed
  <2>2. {seen'.state} = After(s[1], {seen.state})
    <3>1. s[1] = Stated(source, thing, d)  BY <1>1, <1>2
    <3> QED  BY <1>5, <3>1
  <2>3. /\ DOMAIN s = DOMAIN line /\ DOMAIN r = DOMAIN line'
        /\ \A i \in DOMAIN line', j \in DOMAIN line :
              line'[i] = line[j] => r[i] = s[j]
    OBVIOUS
  <2> HIDE DEF s, r
  <2>4. Owes(r, After(s[1], {seen.state}), {world.state})
    BY <1>1, <2>1, <2>3, OwesHeard
  <2>5. Owes(r, {seen'.state}, {world.state})  BY <2>2, <2>4
  <2> QED  BY <2>5 DEF r
<1>8. ASSUME NEW n \in 1..world.at
      PROVE  Owes([i \in DOMAIN line' |-> Noted(source, thing, n, line'[i])],
                  {seen'.notes \cap {n}}, {Told(source, world) \cap {n}})
  <2> DEFINE s == [i \in DOMAIN line |-> Noted(source, thing, n, line[i])]
             r == [i \in DOMAIN line' |-> Noted(source, thing, n, line'[i])]
  <2>1. Owes(s, {seen.notes \cap {n}}, {Told(source, world) \cap {n}})
    BY <1>4 DEF TrackedOwed
  <2>2. {seen'.notes \cap {n}} = After(s[1], {seen.notes \cap {n}})
    <3>1. s[1] = Noted(source, thing, n, d)  BY <1>1, <1>2
    <3> QED  BY <1>1, <1>5, <3>1
  <2>3. /\ DOMAIN s = DOMAIN line /\ DOMAIN r = DOMAIN line'
        /\ \A i \in DOMAIN line', j \in DOMAIN line :
              line'[i] = line[j] => r[i] = s[j]
    OBVIOUS
  <2> HIDE DEF s, r
  <2>4. Owes(r, After(s[1], {seen.notes \cap {n}}), {Told(source, world) \cap {n}})
    BY <1>1, <2>1, <2>3, OwesHeard
  <2>5. Owes(r, {seen'.notes \cap {n}}, {Told(source, world) \cap {n}})
    BY <2>2, <2>4
  <2> QED  BY <2>5 DEF r
<1>9. seen'.notes \subseteq 1..world.at  BY <1>4, <1>5 DEF TrackedOwed
<1> QED  BY <1>6, <1>7, <1>8, <1>9 DEF TrackedOwed

LEMMA TakenBranch ==
    ASSUME FollowInv, late = 0, Taken, thing = "branch"
    PROVE  BranchOwed(source, world, line', seen')
<1>1. line \in Seq(Delivery) /\ 1 \in DOMAIN line /\ seen.head \in Int
  BY DEF FollowInv, FollowTypeOK, Picture, Taken
<1>2. PICK d : d = line[1]  OBVIOUS
<1>3. DeliveryOK(source, thing, world.at, d) /\ Hear(d) /\ ~Stale(d)
  BY <1>1, <1>2, TakenInOrder DEF FollowInv, LineOK, Taken
<1>4. BranchOwed(source, world, line, seen)  BY DEF FollowInv, InOrder
<1>5. PICK n \in Nat : /\ DOMAIN line = 1..(n + 1) /\ DOMAIN line' = 1..n
                       /\ \A i \in 1..n : line'[i] = line[i + 1]
  BY <1>1, LineTaken
<1>6. seen'.head = LET e == ParseWebhookEvent(source, d)
                   IN  IF Headed(source, "branch", d) # {}
                       THEN IF e.act = "deleted" THEN 0 ELSE e.commit
                       ELSE IF e.ref = "branch" /\ seen.head = 0 THEN -1
                       ELSE seen.head
  BY <1>3, HearOf DEF FollowInv
<1> DEFINE s == [i \in DOMAIN line |-> Headed(source, "branch", line[i])]
           r == [i \in DOMAIN line' |-> Headed(source, "branch", line'[i])]
<1>7. Owes(s, {seen.head}, {world.head})  BY <1>4 DEF BranchOwed
<1>8. /\ DOMAIN s = DOMAIN line /\ DOMAIN r = DOMAIN line'
      /\ \A i \in DOMAIN line', j \in DOMAIN line :
            line'[i] = line[j] => r[i] = s[j]
      /\ s[1] = Headed(source, "branch", d)
      /\ \A i \in 1..n : r[i] = s[i + 1]
  BY <1>1, <1>2, <1>5
<1>9. world.head = 0 => \A i \in DOMAIN s : s[i] = {} =>
         \E j \in DOMAIN s : j > i /\ s[j] # {}
  <2> SUFFICES ASSUME world.head = 0, NEW i \in DOMAIN s, s[i] = {}
               PROVE  \E j \in DOMAIN s : j > i /\ s[j] # {}
    OBVIOUS
  <2>1. PICK j \in DOMAIN line : j > i /\ Headed(source, "branch", line[j]) # {}
    BY <1>4 DEF BranchOwed
  <2>2. s[j] # {}  BY <2>1
  <2> QED  BY <2>1, <2>2
<1>10. ASSUME world.head = 0, NEW i \in DOMAIN r, r[i] = {}
       PROVE  \E j \in DOMAIN r : j > i /\ r[j] # {}
  <2> HIDE DEF s, r
  <2>1. i \in 1..n /\ i + 1 \in DOMAIN s /\ s[i + 1] = {}
    BY <1>5, <1>8, <1>10
  <2>2. PICK j \in DOMAIN s : j > i + 1 /\ s[j] # {}  BY <1>9, <1>10, <2>1
  <2>3. j - 1 \in 1..n /\ (j - 1) + 1 = j /\ j - 1 > i
    BY <1>5, <1>8, <2>1, <2>2
  <2>4. r[j - 1] # {}  BY <1>8, <2>2, <2>3
  <2> QED  BY <1>5, <1>8, <2>3, <2>4
<1>11. Owes(r, {seen'.head}, {world.head})
  <2>1. s[1] # {} => s[1] = {seen'.head}
    <3>1. PICK e : e = ParseWebhookEvent(source, d)  OBVIOUS
    <3>2. Headed(source, "branch", d) # {} =>
             Headed(source, "branch", d) =
                {IF e.act = "deleted" THEN 0 ELSE e.commit}
      BY <3>1 DEF Headed
    <3> QED  BY <1>6, <1>8, <3>1, <3>2
  <2>2. s[1] = {} => seen'.head = seen.head \/ seen.head = 0
    BY <1>6, <1>8
  <2> HIDE DEF s, r
  <2>3. Owes(r, After(s[1], {seen.head}), {world.head})
    BY <1>1, <1>7, <1>8, OwesHeard
  <2>4. CASE s[1] # {} \/ seen'.head = seen.head
    <3>1. After(s[1], {seen.head}) = {seen'.head}  BY <2>1, <2>4 DEF After
    <3> QED  BY <2>3, <3>1
  <2>5. CASE s[1] = {} /\ seen'.head # seen.head
    <3>1. seen.head = 0 /\ After(s[1], {seen.head}) = {seen.head}
      BY <2>2, <2>5 DEF After
    <3>2. ~(\A i \in DOMAIN r : r[i] = {})
      <4>1. CASE world.head # 0
        BY <2>3, <3>1, <4>1 DEF Owes
      <4>2. CASE world.head = 0
        <5>1. PICK j \in DOMAIN s : j > 1 /\ s[j] # {}
          BY <1>1, <1>8, <1>9, <2>5, <4>2
        <5>2. j - 1 \in 1..n /\ (j - 1) + 1 = j  BY <1>5, <1>8, <5>1
        <5>3. r[j - 1] # {}  BY <1>8, <5>1, <5>2
        <5> QED  BY <1>5, <1>8, <5>2, <5>3
      <4> QED  BY <4>1, <4>2
    <3> QED  BY <2>3, <3>2 DEF Owes
  <2> QED  BY <2>4, <2>5
<1>12. world.head = 0 => \A i \in DOMAIN line' :
          Headed(source, "branch", line'[i]) = {} =>
             \E j \in DOMAIN line' :
                j > i /\ Headed(source, "branch", line'[j]) # {}
  <2> SUFFICES ASSUME world.head = 0, NEW i \in DOMAIN line',
                      Headed(source, "branch", line'[i]) = {}
               PROVE  \E j \in DOMAIN line' :
                         j > i /\ Headed(source, "branch", line'[j]) # {}
    OBVIOUS
  <2>1. i \in DOMAIN r /\ r[i] = {}  OBVIOUS
  <2>2. PICK j \in DOMAIN r : j > i /\ r[j] # {}  BY <1>10, <2>1
  <2> QED  BY <2>2
<1> QED  BY <1>11, <1>12 DEF BranchOwed

LEMMA TakenTag ==
    ASSUME FollowInv, late = 0, Taken, thing = "tag"
    PROVE  TagOwed(source, world, line', seen')
<1> SUFFICES ASSUME source \in {"gitlab", "tencentcode"} => world.head # 0
             PROVE  Owes([i \in DOMAIN line' |-> Found(source, "tag", line'[i])],
                         {IsThere(seen'.head)}, {IsThere(world.head)})
  BY DEF TagOwed
<1>1. /\ line \in Seq(Delivery) /\ 1 \in DOMAIN line /\ seen.head \in Int
  BY DEF FollowInv, FollowTypeOK, Picture, Taken
<1>2. PICK d : d = line[1]  OBVIOUS
<1>3. PICK e : e = ParseWebhookEvent(source, d)  OBVIOUS
<1>4. DeliveryOK(source, thing, world.at, d) /\ Hear(d) /\ ~Stale(d)
  BY <1>1, <1>2, TakenInOrder DEF FollowInv, LineOK, Taken
<1>5. e.commit \in Int  BY <1>3, <1>4 DEF DeliveryOK
<1>6. /\ Headed(source, "tag", d) =
             IF e.ref # "tag" THEN {}
             ELSE IF e.act = "deleted" THEN {0} ELSE {e.commit} \ {-1}
      /\ Found(source, "tag", d) =
             IF e.ref # "tag" THEN {}
             ELSE IF e.act = "deleted" \/ e.commit = 0 THEN {"gone"}
             ELSE {"there"}
  BY <1>3 DEF Headed, Found
<1>7. seen'.head = IF Headed(source, "tag", d) # {}
                   THEN IF e.act = "deleted" THEN 0 ELSE e.commit
                   ELSE IF e.ref = "tag" /\ seen.head = 0 THEN -1
                   ELSE seen.head
  BY <1>3, <1>4, HearOf DEF FollowInv
<1>8. {IsThere(seen'.head)} = After(Found(source, "tag", d), {IsThere(seen.head)})
  <2>1. CASE e.ref # "tag"  BY <1>6, <1>7, <2>1 DEF After
  <2>2. CASE e.ref = "tag" /\ (e.act = "deleted" \/ e.commit = 0)
    <3>1. seen'.head = 0  BY <1>6, <1>7, <2>2
    <3> QED  BY <1>6, <2>2, <3>1 DEF After, IsThere
  <2>3. CASE e.ref = "tag" /\ e.act # "deleted" /\ e.commit # 0
    <3>1. seen'.head # 0  BY <1>5, <1>6, <1>7, <2>3
    <3> QED  BY <1>6, <2>3, <3>1 DEF After, IsThere
  <2> QED  BY <2>1, <2>2, <2>3
<1> DEFINE s == [i \in DOMAIN line |-> Found(source, "tag", line[i])]
           r == [i \in DOMAIN line' |-> Found(source, "tag", line'[i])]
<1>9. Owes(s, {IsThere(seen.head)}, {IsThere(world.head)})
  BY DEF FollowInv, InOrder, TagOwed
<1>10. s[1] = Found(source, "tag", d)  BY <1>1, <1>2
<1>11. /\ DOMAIN s = DOMAIN line /\ DOMAIN r = DOMAIN line'
       /\ \A i \in DOMAIN line', j \in DOMAIN line :
             line'[i] = line[j] => r[i] = s[j]
  OBVIOUS
<1> HIDE DEF s, r
<1>12. Owes(r, After(s[1], {IsThere(seen.head)}), {IsThere(world.head)})
  BY <1>1, <1>9, <1>11, OwesHeard
<1>13. Owes(r, {IsThere(seen'.head)}, {IsThere(world.head)})
  BY <1>8, <1>10, <1>12
<1> QED  BY <1>13 DEF r

LEMMA TakenPipeline ==
    ASSUME FollowInv, late = 0, Taken, thing = "pipeline"
    PROVE  PipelineOwed(world, line', seen')
<1>1. /\ line \in Seq(Delivery) /\ 1 \in DOMAIN line /\ source = "gitlab"
  BY DEF FollowInv, FollowTypeOK, Taken
<1>2. PICK d : d = line[1]  OBVIOUS
<1>3. DeliveryOK(source, thing, world.at, d) /\ Hear(d) /\ ~Stale(d)
  BY <1>1, <1>2, TakenInOrder DEF FollowInv, LineOK, Taken
<1>4. PipelineOwed(world, line, seen)  BY DEF FollowInv, InOrder
<1>5. PICK n \in Nat : /\ DOMAIN line = 1..(n + 1) /\ DOMAIN line' = 1..n
                       /\ \A i \in 1..n : line'[i] = line[i + 1]
                       /\ Len(line) = n + 1
  BY <1>1, LineTaken
<1>6. line' = Tail(line) /\ Len(line') = n  BY <1>1, <1>5 DEF Taken
<1>7. line' # << >> =>
         line'[Len(line')].state = world.state /\ world.state # "none"
  <2> SUFFICES ASSUME line' # << >>
               PROVE  line'[n].state = world.state /\ world.state # "none"
    BY <1>6
  <2>1. n \in 1..n
    <3>1. n # 0  BY <1>1, <1>6
    <3> QED  BY <3>1
  <2>2. line'[n] = line[Len(line)]  BY <1>5, <2>1
  <2>3. line # << >>  BY DEF Taken
  <2> QED  BY <1>4, <2>2, <2>3 DEF PipelineOwed
<1>8. ASSUME line' = << >>, world.state # "success" PROVE seen'.said = world.state
  <2>1. n = 0 /\ Len(line) = 1  BY <1>5, <1>6, <1>8
  <2>2. d.state = world.state /\ world.state \in {"failed", "canceled"}
    BY <1>2, <1>4, <1>8, <2>1 DEF PipelineOwed, Taken
  <2>3. d.hook = "pipeline"  BY <1>3 DEF DeliveryOK
  <2>4. Bare("gitlab", "pipeline", d, "pipeline", d.state, "", d.after)
    BY <2>2, <2>3, PipelineHeard
  <2>5. Said(source, thing, d) = {world.state}
    <3>1. PICK e : e = ParseWebhookEvent("gitlab", d)  OBVIOUS
    <3>2. e.kind = "pipeline" /\ e.act = world.state
      BY <2>2, <2>4, <3>1 DEF Bare
    <3> QED  BY <1>1, <2>2, <3>1, <3>2 DEF Said
  <2>6. {seen'.said} = After(Said(source, thing, d), {seen.said})
    BY <1>3, HearOf DEF FollowInv
  <2> QED  BY <2>5, <2>6 DEF After
<1> QED  BY <1>4, <1>7, <1>8 DEF PipelineOwed

(* The three steps that hear a delivery.                                   *)
LEMMA HeardInv ==
    ASSUME FollowInv, NEW p \in DOMAIN line, Heard(p),
           line' \in Seq(Delivery), late' \in Nat, InOrder'
    PROVE  FollowInv'
<1>1. source' = source /\ thing' = thing /\ world' = world  BY DEF Heard
<1>2. DeliveryOK(source, thing, world.at, line[p]) /\ Hear(line[p])
  BY DEF FollowInv, LineOK, Heard
<1>3. seen' \in Picture  BY <1>2, HearOf DEF FollowInv
<1>4. FollowTypeOK'  BY <1>1, <1>3 DEF FollowInv, FollowTypeOK
<1>5. WorldOK'
  <2>1. Tracked' = Tracked /\ NoteHooks' = NoteHooks
    BY <1>1 DEF Tracked, NoteHooks, LikeGithub
  <2> QED  BY <1>1, <2>1 DEF FollowInv, WorldOK
<1> QED  BY <1>4, <1>5, HeardLine, HeardState, HeardNotes DEF FollowInv

LEMMA DeliverInv ==
    ASSUME FollowInv, Deliver
    PROVE  FollowInv'
<1>1. line \in Seq(Delivery) /\ 1 \in DOMAIN line /\ late \in Nat
  BY DEF FollowInv, FollowTypeOK, Deliver
<1>2. Taken  BY <1>1 DEF Deliver, Taken
<1>3. PICK n \in Nat : /\ DOMAIN line = 1..(n + 1) /\ DOMAIN line' = 1..n
                       /\ \A i \in 1..n : line'[i] = line[i + 1]
  BY <1>1, <1>2, LineTaken
<1>4. Heard(1)
  <2>1. ASSUME NEW i \in DOMAIN line, i # 1
        PROVE  \E j \in DOMAIN line' : line'[j] = line[i]
    <3>1. i - 1 \in DOMAIN line' /\ line'[i - 1] = line[i]  BY <1>3, <2>1
    <3> QED  BY <3>1
  <2>2. ASSUME NEW j \in DOMAIN line'
        PROVE  \E i \in DOMAIN line : line'[j] = line[i]
    <3>1. j + 1 \in DOMAIN line /\ line'[j] = line[j + 1]  BY <1>3
    <3> QED  BY <3>1
  <2> QED  BY <1>2, <2>1, <2>2 DEF Heard, Taken
<1>5. InOrder'
  <2>1. CASE late = 0
    <3>1. /\ source' = source /\ thing' = thing /\ world' = world
      BY <1>2 DEF Taken
    <3>2. TimesOK'  BY <1>2, <2>1, TakenInOrder
    <3>3. Tracked => TrackedOwed(source, thing, world, line', seen')
      BY <1>2, <2>1, TakenTracked
    <3>4. thing = "branch" => BranchOwed(source, world, line', seen')
      BY <1>2, <2>1, TakenBranch
    <3>5. thing = "tag" => TagOwed(source, world, line', seen')
      BY <1>2, <2>1, TakenTag
    <3>6. thing = "pipeline" => PipelineOwed(world, line', seen')
      BY <1>2, <2>1, TakenPipeline
    <3> QED  BY <3>1, <3>2, <3>3, <3>4, <3>5, <3>6 DEF InOrder, Tracked
  <2>2. CASE late # 0
    <3>1. late' # 0  BY <1>2, <2>2 DEF Taken
    <3> QED  BY <3>1 DEF InOrder
  <2> QED  BY <2>1, <2>2
<1>6. line' \in Seq(Delivery) /\ late' \in Nat  BY <1>1, <1>2 DEF Taken
<1> QED  BY <1>1, <1>4, <1>5, <1>6, HeardInv

LEMMA OvertakeInv ==
    ASSUME FollowInv, Overtake
    PROVE  FollowInv'
<1>1. /\ line \in Seq(Delivery) /\ late \in Nat /\ Len(line) > 1
      /\ Len(line) \in Nat /\ 2 \in DOMAIN line
  BY DEF FollowInv, FollowTypeOK, Overtake
<1>2. /\ line' = <<line[1]>> \o SubSeq(line, 3, Len(line)) /\ Hear(line[2])
      /\ UNCHANGED <<source, thing, world>> /\ late' = late + 1
  BY DEF Overtake
<1>3. SubSeq(line, 3, Len(line)) \in Seq(Delivery)
  BY <1>1
<1>4. /\ Len(SubSeq(line, 3, Len(line))) = Len(line) - 2
      /\ \A i \in 1..(Len(line) - 2) :
            SubSeq(line, 3, Len(line))[i] = line[i + 2]
  <2>1. \A i \in 3..Len(line) : line[i] \in Delivery  BY <1>1
  <2>2. /\ Len(SubSeq(line, 3, Len(line))) =
              IF 3 <= Len(line) THEN Len(line) - 3 + 1 ELSE 0
        /\ \A i \in 1..(Len(line) - 3 + 1) :
              SubSeq(line, 3, Len(line))[i] = line[3 + i - 1]
    BY <1>1, <2>1, SubSeqProperties
  <2>3. Len(line) - 3 + 1 = Len(line) - 2 /\ (Len(line) = 2 \/ 3 <= Len(line))
    <3>1. PICK n \in Nat : n = Len(line) /\ n > 1  BY <1>1
    <3>2. n - 3 + 1 = n - 2 /\ (n = 2 \/ 3 <= n)  BY <3>1
    <3> QED  BY <3>1, <3>2
  <2>4. ASSUME NEW i \in 1..(Len(line) - 2)
        PROVE  SubSeq(line, 3, Len(line))[i] = line[i + 2]
    <3>1. i \in Int /\ Len(line) \in Int  BY <1>1
    <3>2. 3 + i - 1 = i + 2  BY <3>1
    <3>3. i \in 1..(Len(line) - 3 + 1)  BY <2>3, <3>1
    <3>4. SubSeq(line, 3, Len(line))[i] = line[3 + i - 1]  BY <2>2, <3>3
    <3> QED  BY <3>2, <3>4
  <2> QED  BY <1>1, <2>2, <2>3, <2>4
<1>5. line[1] \in Delivery  BY <1>1
<1>6. /\ line' \in Seq(Delivery) /\ DOMAIN line' = 1..(Len(line) - 1)
      /\ line'[1] = line[1]
      /\ \A i \in 2..(Len(line) - 1) : line'[i] = line[i + 1]
  <2>1. PICK u : u = SubSeq(line, 3, Len(line))  OBVIOUS
  <2>2. /\ u \in Seq(Delivery) /\ Len(u) = Len(line) - 2
        /\ \A i \in 1..(Len(line) - 2) : u[i] = line[i + 2]
    BY <1>3, <1>4, <2>1
  <2>3. line' = <<line[1]>> \o u  BY <1>2, <2>1
  <2>4. /\ line' \in Seq(Delivery) /\ Len(line') = 1 + Len(u)
        /\ line'[1] = line[1]
        /\ \A i \in 2..(Len(u) + 1) : line'[i] = u[i - 1]
    BY <1>5, <2>2, <2>3
  <2>5. ASSUME NEW i \in 2..(Len(line) - 1) PROVE line'[i] = line[i + 1]
    <3>1. i - 1 \in 1..(Len(line) - 2) /\ (i - 1) + 2 = i + 1  BY <1>1, <2>5
    <3> QED  BY <1>1, <2>2, <2>4, <3>1
  <2> QED  BY <1>1, <2>2, <2>4, <2>5
<1>7. Heard(2)
  <2>1. ASSUME NEW i \in DOMAIN line, i # 2
        PROVE  \E j \in DOMAIN line' : line'[j] = line[i]
    <3>1. CASE i = 1  BY <1>1, <1>6, <3>1
    <3>2. CASE i # 1
      <4>1. i - 1 \in 2..(Len(line) - 1) /\ (i - 1) + 1 = i
        BY <1>1, <2>1, <3>2
      <4>2. line'[i - 1] = line[i] /\ i - 1 \in DOMAIN line'
        BY <1>1, <1>6, <4>1
      <4> QED  BY <4>2
    <3> QED  BY <3>1, <3>2
  <2>2. ASSUME NEW j \in DOMAIN line'
        PROVE  \E i \in DOMAIN line : line'[j] = line[i]
    <3>1. CASE j = 1  BY <1>1, <1>6, <3>1
    <3>2. CASE j # 1
      <4>1. j \in 2..(Len(line) - 1) /\ j + 1 \in DOMAIN line
        BY <1>1, <1>6, <3>2
      <4> QED  BY <1>6, <4>1
    <3> QED  BY <3>1, <3>2
  <2> QED  BY <1>2, <2>1, <2>2 DEF Heard
<1>8. late' \in Nat /\ InOrder'  BY <1>1, <1>2 DEF InOrder
<1> QED  BY <1>1, <1>6, <1>7, <1>8, HeardInv

LEMMA RedeliverInv ==
    ASSUME FollowInv, Redeliver
    PROVE  FollowInv'
<1>1. /\ line \in Seq(Delivery) /\ late \in Nat /\ Len(line) >= 1
      /\ Len(line) \in Nat /\ 1 \in DOMAIN line
  BY DEF FollowInv, FollowTypeOK, Redeliver
<1>2. /\ line' = Append(Tail(line), line[1]) /\ Hear(line[1])
      /\ UNCHANGED <<source, thing, world>> /\ late' = late + 1
  BY <1>1 DEF Redeliver
<1>3. /\ line' \in Seq(Delivery) /\ DOMAIN line' = DOMAIN line
      /\ DOMAIN line = 1..Len(line)
      /\ \A i \in 1..(Len(line) - 1) : line'[i] = line[i + 1]
      /\ line'[Len(line)] = line[1]
  <2>1. PICK u : u = Tail(line)  OBVIOUS
  <2>2. /\ u \in Seq(Delivery) /\ Len(u) = Len(line) - 1
        /\ \A i \in 1..(Len(line) - 1) : u[i] = line[i + 1]
    BY <1>1, <2>1
  <2>3. line' = Append(u, line[1]) /\ line[1] \in Delivery  BY <1>1, <1>2, <2>1
  <2>4. /\ line' \in Seq(Delivery) /\ Len(line') = Len(u) + 1
        /\ \A i \in 1..Len(u) : line'[i] = u[i]
        /\ line'[Len(u) + 1] = line[1]
    BY <2>2, <2>3
  <2> QED  BY <1>1, <2>2, <2>4
<1>4. Heard(1)
  <2>1. ASSUME NEW i \in DOMAIN line, i # 1
        PROVE  \E j \in DOMAIN line' : line'[j] = line[i]
    <3>1. i - 1 \in 1..(Len(line) - 1) /\ (i - 1) + 1 = i  BY <1>1, <1>3, <2>1
    <3>2. i - 1 \in DOMAIN line' /\ line'[i - 1] = line[i]  BY <1>1, <1>3, <3>1
    <3> QED  BY <3>2
  <2>2. ASSUME NEW j \in DOMAIN line'
        PROVE  \E i \in DOMAIN line : line'[j] = line[i]
    <3>1. CASE j = Len(line)  BY <1>1, <1>3, <3>1
    <3>2. CASE j # Len(line)
      <4>1. j \in 1..(Len(line) - 1) /\ j + 1 \in DOMAIN line
        BY <1>1, <1>3, <3>2
      <4> QED  BY <1>3, <4>1
    <3> QED  BY <3>1, <3>2
  <2> QED  BY <1>2, <2>1, <2>2 DEF Heard
<1>5. late' \in Nat /\ InOrder'  BY <1>1, <1>2 DEF InOrder
<1> QED  BY <1>1, <1>3, <1>4, <1>5, HeardInv

-----------------------------------------------------------------------------
(* A change of the thing to w, of which the deliveries s are sent.         *)
Sends(w, s) ==
    /\ w \in World /\ w.at = world.at + 1
    /\ s \in Seq(Delivery)
    /\ \A i \in DOMAIN s :
          DeliveryOK(source, thing, w.at, s[i]) /\ s[i].at = w.at
    /\ world' = w /\ line' = line \o s
    /\ UNCHANGED <<source, thing, seen, late>>

(* What is sent comes after what is on its way.                            *)
LEMMA LineSent ==
    ASSUME FollowTypeOK, NEW w, NEW s, Sends(w, s)
    PROVE  /\ Len(line) \in Nat /\ Len(s) \in Nat /\ line' \in Seq(Delivery)
           /\ DOMAIN line = 1..Len(line) /\ DOMAIN s = 1..Len(s)
           /\ DOMAIN line' = 1..(Len(line) + Len(s))
           /\ Len(line') = Len(line) + Len(s)
           /\ \A i \in 1..Len(line) : line'[i] = line[i]
           /\ \A i \in (Len(line) + 1)..(Len(line) + Len(s)) :
                 line'[i] = s[i - Len(line)] /\ i - Len(line) \in DOMAIN s
<1>1. line \in Seq(Delivery) /\ s \in Seq(Delivery) /\ line' = line \o s
  BY DEF FollowTypeOK, Sends
<1>2. PICK n \in Nat, m \in Nat : n = Len(line) /\ m = Len(s)  BY <1>1
<1>3. /\ line' \in Seq(Delivery) /\ Len(line') = n + m
      /\ DOMAIN line = 1..n /\ DOMAIN s = 1..m /\ DOMAIN line' = 1..(n + m)
  BY <1>1, <1>2
<1>4. \A i \in 1..n : line'[i] = line[i]  BY <1>1, <1>2
<1>5. ASSUME NEW i \in (n + 1)..(n + m)
      PROVE  line'[i] = s[i - n] /\ i - n \in DOMAIN s
  BY <1>1, <1>2, <1>3
<1> QED  BY <1>2, <1>3, <1>4, <1>5

LEMMA Aged ==
    ASSUME NEW b, NEW t, NEW d, NEW now \in Nat, DeliveryOK(b, t, now, d)
    PROVE  DeliveryOK(b, t, now + 1, d)
<1>1. PICK note : note = ParseWebhookEvent(b, d).note  OBVIOUS
<1>2. d.at \in 1..now /\ note \in 0..now  BY <1>1 DEF DeliveryOK
<1>3. d.at \in 1..(now + 1) /\ note \in 0..(now + 1)  BY <1>2
<1> QED  BY <1>1, <1>3 DEF DeliveryOK

(* The types and times, once s is sent.                                    *)
LEMMA SentOK ==
    ASSUME FollowInv, NEW w, NEW s, Sends(w, s)
    PROVE  FollowTypeOK' /\ LineOK' /\ (late = 0 => TimesOK')
<1>1. FollowTypeOK /\ LineOK  BY DEF FollowInv
<1>2. /\ world.at \in Nat /\ seen.at \in Nat /\ w.at = world.at + 1
      /\ source' = source /\ thing' = thing /\ world' = w /\ seen' = seen
      /\ late' = late
  BY <1>1 DEF Sends, FollowTypeOK, World, Picture
<1>3. /\ Len(line) \in Nat /\ Len(s) \in Nat /\ line' \in Seq(Delivery)
      /\ DOMAIN line = 1..Len(line) /\ DOMAIN s = 1..Len(s)
      /\ DOMAIN line' = 1..(Len(line) + Len(s))
      /\ \A i \in 1..Len(line) : line'[i] = line[i]
      /\ \A i \in (Len(line) + 1)..(Len(line) + Len(s)) :
            line'[i] = s[i - Len(line)] /\ i - Len(line) \in DOMAIN s
  BY <1>1, LineSent
<1>4. FollowTypeOK'  BY <1>1, <1>2, <1>3 DEF FollowTypeOK, Sends
<1>5. ASSUME NEW i \in DOMAIN line'
      PROVE  DeliveryOK(source, thing, w.at, line'[i])
  <2>1. CASE i \in DOMAIN line
    <3>1. DeliveryOK(source, thing, world.at, line[i])
      BY <1>1, <2>1 DEF LineOK
    <3>2. DeliveryOK(source, thing, world.at + 1, line[i])  BY <1>2, <3>1, Aged
    <3> QED  BY <1>2, <1>3, <2>1, <3>2
  <2>2. CASE i \notin DOMAIN line
    <3>1. i \in (Len(line) + 1)..(Len(line) + Len(s))  BY <1>3, <2>2
    <3> QED  BY <1>3, <3>1 DEF Sends
  <2> QED  BY <2>1, <2>2
<1>6. LineOK'  BY <1>2, <1>5 DEF LineOK
<1>7. ASSUME late = 0 PROVE TimesOK'
  <2>1. TimesOK  BY <1>7 DEF FollowInv, InOrder
  <2>2. seen'.at <= world'.at  BY <1>2, <2>1 DEF TimesOK
  <2>3. ASSUME NEW i \in DOMAIN line, NEW j \in DOMAIN line', j \notin DOMAIN line
        PROVE  i < j /\ line[i].at <= line'[j].at
    <3>1. j \in (Len(line) + 1)..(Len(line) + Len(s))  BY <1>3, <2>3
    <3>2. line'[j].at = w.at  BY <1>3, <3>1 DEF Sends
    <3>3. line[i].at \in 1..world.at  BY <1>1 DEF LineOK, DeliveryOK
    <3>4. i < j  BY <1>3, <3>1
    <3> QED  BY <1>2, <3>2, <3>3, <3>4
  <2>4. ASSUME NEW j \in DOMAIN line', j \notin DOMAIN line
        PROVE  line'[j].at = w.at
    <3>1. j \in (Len(line) + 1)..(Len(line) + Len(s))  BY <1>3, <2>4
    <3> QED  BY <1>3, <3>1 DEF Sends
  <2>5. \A i \in DOMAIN line' : seen'.at <= line'[i].at
    <3> TAKE i \in DOMAIN line'
    <3>1. CASE i \in DOMAIN line  BY <1>2, <1>3, <2>1, <3>1 DEF TimesOK
    <3>2. CASE i \notin DOMAIN line  BY <1>2, <2>1, <2>4, <3>2 DEF TimesOK
    <3> QED  BY <3>1, <3>2
  <2>6. ASSUME NEW i \in DOMAIN line', NEW j \in DOMAIN line', i < j
        PROVE  line'[i].at <= line'[j].at
    <3>1. CASE j \in DOMAIN line
      <4>1. i \in DOMAIN line  BY <1>3, <2>6, <3>1
      <4> QED  BY <1>3, <2>1, <2>6, <3>1, <4>1 DEF TimesOK
    <3>2. CASE i \in DOMAIN line /\ j \notin DOMAIN line
      BY <1>3, <2>3, <3>2
    <3>3. CASE i \notin DOMAIN line
      <4>1. j \notin DOMAIN line  BY <1>3, <2>6, <3>3
      <4>2. w.at \in Nat  BY <1>2
      <4> QED  BY <2>4, <3>3, <4>1, <4>2
    <3> QED  BY <3>1, <3>2, <3>3
  <2> QED  BY <2>2, <2>5, <2>6 DEF TimesOK
<1> QED  BY <1>4, <1>6, <1>7

(* What the one delivery d that is sent of an issue or a change request    *)
(* has to say, for the picture to become w.                                *)
Fitting(w, d) ==
    /\ \/ Said(source, thing, d) = {w.state}
       \/ Said(source, thing, d) = {} /\ w.state = world.state
    /\ \/ Stated(source, thing, d) = {w.state}
       \/ Stated(source, thing, d) = {} /\ w.state = world.state
    /\ \A n \in Nat \ {0} :
          \/ Noted(source, thing, n, d) = {Told(source, w) \cap {n}}
          \/ /\ Noted(source, thing, n, d) = {}
             /\ Told(source, w) \cap {n} = Told(source, world) \cap {n}
    /\ Told(source, w) \subseteq Told(source, world) \cup {w.at}

LEMMA LineSentOne ==
    ASSUME FollowTypeOK, NEW w, NEW d, Sends(w, <<d>>)
    PROVE  /\ Len(line) \in Nat /\ DOMAIN line = 1..Len(line)
           /\ DOMAIN line' = 1..(Len(line) + 1) /\ Len(line') = Len(line) + 1
           /\ \A i \in 1..Len(line) : line'[i] = line[i]
           /\ line'[Len(line) + 1] = d
           /\ DeliveryOK(source, thing, w.at, d) /\ d.at = w.at
<1> DEFINE s == <<d>>
<1>1. Len(s) = 1 /\ s[1] = d /\ 1 \in DOMAIN s  OBVIOUS
<1>2. Sends(w, s)  OBVIOUS
<1> HIDE DEF s
<1>3. /\ Len(line) \in Nat /\ DOMAIN line = 1..Len(line)
      /\ DOMAIN line' = 1..(Len(line) + Len(s))
      /\ Len(line') = Len(line) + Len(s)
      /\ \A i \in 1..Len(line) : line'[i] = line[i]
      /\ \A i \in (Len(line) + 1)..(Len(line) + Len(s)) :
            line'[i] = s[i - Len(line)]
  BY <1>2, LineSent
<1>4. line'[Len(line) + 1] = d
  <2>1. PICK k : k = Len(line) + 1  OBVIOUS
  <2>2. k \in (Len(line) + 1)..(Len(line) + Len(s)) /\ k - Len(line) = 1
    BY <1>1, <1>3, <2>1
  <2> QED  BY <1>1, <1>3, <2>1, <2>2
<1>5. DeliveryOK(source, thing, w.at, d) /\ d.at = w.at
  BY <1>1, <1>2 DEF Sends
<1> QED  BY <1>1, <1>3, <1>4, <1>5

(* The state and the comments that the thing has then, and what is owed.   *)
LEMMA StateSent ==
    ASSUME FollowInv, Tracked, NEW w, NEW d, Sends(w, <<d>>), Fitting(w, d)
    PROVE  StateOK'
<1>1. /\ source' = source /\ thing' = thing /\ world' = w /\ seen' = seen
      /\ w.at = world.at + 1 /\ world.at \in Nat /\ seen.at \in Nat
  BY DEF Sends, FollowInv, FollowTypeOK, World, Picture
<1> SUFFICES ASSUME Tracked, Timed
             PROVE  \E k \in 0..w.at :
                /\ seen.at <= k /\ (seen.at = k => seen.state = w.state)
                /\ \A i \in DOMAIN line' : Stated(source, thing, line'[i]) # {} =>
                      /\ line'[i].at <= k
                      /\ line'[i].at = k =>
                            Stated(source, thing, line'[i]) = {w.state}
                /\ \/ seen.at = k
                   \/ \E i \in DOMAIN line' :
                         Stated(source, thing, line'[i]) # {} /\ line'[i].at = k
  BY <1>1 DEF StateOK, Tracked, Timed
<1>2. PICK k \in 0..world.at :
         /\ seen.at <= k /\ (seen.at = k => seen.state = world.state)
         /\ \A i \in DOMAIN line : Stated(source, thing, line[i]) # {} =>
               /\ line[i].at <= k
               /\ line[i].at = k =>
                     Stated(source, thing, line[i]) = {world.state}
         /\ \/ seen.at = k
            \/ \E i \in DOMAIN line :
                  Stated(source, thing, line[i]) # {} /\ line[i].at = k
  BY DEF FollowInv, StateOK
<1>3. /\ Len(line) \in Nat /\ DOMAIN line = 1..Len(line)
      /\ DOMAIN line' = 1..(Len(line) + 1)
      /\ \A i \in 1..Len(line) : line'[i] = line[i]
      /\ line'[Len(line) + 1] = d /\ d.at = w.at
  BY LineSentOne DEF FollowInv
<1>4. PICK e : e = Len(line) + 1  OBVIOUS
<1>5. /\ e \in DOMAIN line' /\ line'[e] = d
      /\ \A i \in DOMAIN line' : i # e => i \in DOMAIN line /\ line'[i] = line[i]
      /\ \A i \in DOMAIN line : i \in DOMAIN line' /\ line'[i] = line[i]
  BY <1>3, <1>4
<1>6. CASE Stated(source, thing, d) = {}
  <2>1. w.state = world.state  BY <1>6 DEF Fitting
  <2>2. \A i \in DOMAIN line' : Stated(source, thing, line'[i]) # {} =>
           /\ line'[i].at <= k
           /\ line'[i].at = k => Stated(source, thing, line'[i]) = {w.state}
    BY <1>2, <1>5, <1>6, <2>1
  <2>3. \/ seen.at = k
        \/ \E i \in DOMAIN line' :
              Stated(source, thing, line'[i]) # {} /\ line'[i].at = k
    BY <1>2, <1>5
  <2>4. k \in 0..w.at  BY <1>1
  <2> QED  BY <1>2, <2>1, <2>2, <2>3, <2>4
<1>7. CASE Stated(source, thing, d) # {}
  <2>1. Stated(source, thing, d) = {w.state}  BY <1>7 DEF Fitting
  <2>2. seen.at < w.at /\ w.at \in 0..w.at  BY <1>1, <1>2
  <2>3. ASSUME NEW i \in DOMAIN line', Stated(source, thing, line'[i]) # {}
        PROVE  /\ line'[i].at <= w.at
               /\ line'[i].at = w.at =>
                     Stated(source, thing, line'[i]) = {w.state}
    <3>1. CASE i = e  BY <1>1, <1>3, <1>5, <2>1, <3>1
    <3>2. CASE i # e
      <4>1. i \in DOMAIN line /\ line'[i] = line[i]  BY <1>5, <3>2
      <4>2. line[i].at \in 1..world.at
        BY <4>1 DEF FollowInv, LineOK, DeliveryOK
      <4> QED  BY <1>1, <4>1, <4>2
    <3> QED  BY <3>1, <3>2
  <2>4. \E i \in DOMAIN line' :
           Stated(source, thing, line'[i]) # {} /\ line'[i].at = w.at
    BY <1>3, <1>5, <1>7
  <2> QED  BY <1>1, <2>2, <2>3, <2>4
<1> QED  BY <1>6, <1>7

LEMMA NotesSent ==
    ASSUME FollowInv, Tracked, NEW w, NEW d, Sends(w, <<d>>), Fitting(w, d)
    PROVE  NotesOK'
<1>1. /\ source' = source /\ thing' = thing /\ world' = w /\ seen' = seen
      /\ w.at = world.at + 1 /\ world.at \in Nat
  BY DEF Sends, FollowInv, FollowTypeOK, World
<1> SUFFICES ASSUME NEW n \in Told(source, w)
             PROVE  /\ \/ n \in seen.notes
                       \/ \E i \in DOMAIN line' :
                             Noted(source, thing, n, line'[i]) = {{n}}
                    /\ \A i \in DOMAIN line' :
                          Noted(source, thing, n, line'[i]) # {{}}
  BY <1>1 DEF NotesOK
<1>2. n \in Told(source, world) \/ n = w.at  BY DEF Fitting
<1>3. /\ Len(line) \in Nat /\ DOMAIN line = 1..Len(line)
      /\ DOMAIN line' = 1..(Len(line) + 1)
      /\ \A i \in 1..Len(line) : line'[i] = line[i]
      /\ line'[Len(line) + 1] = d
  BY LineSentOne DEF FollowInv
<1>4. PICK e : e = Len(line) + 1  OBVIOUS
<1>5. /\ e \in DOMAIN line' /\ line'[e] = d
      /\ \A i \in DOMAIN line' : i # e => i \in DOMAIN line /\ line'[i] = line[i]
      /\ \A i \in DOMAIN line : i \in DOMAIN line' /\ line'[i] = line[i]
  BY <1>3, <1>4
<1>6. \A m \in Told(source, world) : m \in 1..world.at
  <2> TAKE m \in Told(source, world)
  <2>1. PICK x \in world.notes : m = x.id  BY DEF Told
  <2> QED  BY <2>1 DEF FollowInv, WorldOK
<1>7. n \in Nat \ {0}  BY <1>1, <1>2, <1>6
<1>8. \/ Noted(source, thing, n, d) = {{n}}
      \/ Noted(source, thing, n, d) = {} /\ n \in Told(source, world)
  <2>1. CASE Noted(source, thing, n, d) = {Told(source, w) \cap {n}}
    <3>1. Told(source, w) \cap {n} = {n}  OBVIOUS
    <3> QED  BY <2>1, <3>1
  <2>2. CASE /\ Noted(source, thing, n, d) = {}
             /\ Told(source, w) \cap {n} = Told(source, world) \cap {n}
    BY <2>2
  <2> QED  BY <1>7, <2>1, <2>2 DEF Fitting
<1>9. \A i \in DOMAIN line : Noted(source, thing, n, line[i]) # {{}}
  <2>1. CASE n \in Told(source, world)  BY <2>1 DEF FollowInv, NotesOK
  <2>2. CASE n = w.at
    <3> TAKE i \in DOMAIN line
    <3>1. PICK note : note = ParseWebhookEvent(source, line[i]).note  OBVIOUS
    <3>2. note \in 0..world.at  BY <3>1 DEF FollowInv, LineOK, DeliveryOK
    <3>3. note # n  BY <1>1, <2>2, <3>2
    <3>4. Noted(source, thing, n, line[i]) = {}  BY <3>1, <3>3 DEF Noted
    <3> QED  BY <3>4
  <2> QED  BY <1>2, <2>1, <2>2
<1>10. \A i \in DOMAIN line' : Noted(source, thing, n, line'[i]) # {{}}
  BY <1>5, <1>8, <1>9
<1>11. \/ n \in seen.notes
       \/ \E i \in DOMAIN line' : Noted(source, thing, n, line'[i]) = {{n}}
  <2>1. CASE Noted(source, thing, n, d) = {{n}}  BY <1>5, <2>1
  <2>2. CASE n \in Told(source, world)
    <3>1. \/ n \in seen.notes
          \/ \E i \in DOMAIN line : Noted(source, thing, n, line[i]) = {{n}}
      BY <2>2 DEF FollowInv, NotesOK
    <3> QED  BY <1>5, <3>1
  <2> QED  BY <1>8, <2>1, <2>2
<1> QED  BY <1>10, <1>11

LEMMA OwedSent ==
    ASSUME FollowInv, Tracked, late = 0, NEW w, NEW d, Sends(w, <<d>>),
           Fitting(w, d)
    PROVE  TrackedOwed(source, thing, w, line', seen)
<1>1. w.at = world.at + 1 /\ world.at \in Nat
  BY DEF Sends, FollowInv, FollowTypeOK, World
<1>2. PICK n \in Nat : n = Len(line)  BY LineSentOne DEF FollowInv
<1>3. /\ DOMAIN line = 1..n /\ DOMAIN line' = 1..(n + 1)
      /\ \A i \in 1..n : line'[i] = line[i]
      /\ line'[n + 1] = d
  BY <1>2, LineSentOne DEF FollowInv
<1>4. TrackedOwed(source, thing, world, line, seen)  BY DEF FollowInv, InOrder
<1>5. n + 1 \in 1..(n + 1) /\ \A i \in 1..n : i \in 1..(n + 1)  OBVIOUS
<1>6. Owes([i \in DOMAIN line' |-> Said(source, thing, line'[i])],
           {seen.said}, {w.state})
  <2> DEFINE s == [i \in DOMAIN line |-> Said(source, thing, line[i])]
             r == [i \in DOMAIN line' |-> Said(source, thing, line'[i])]
  <2>1. Owes(s, {seen.said}, {world.state})  BY <1>4 DEF TrackedOwed
  <2>2. /\ DOMAIN s = 1..n /\ DOMAIN r = 1..(n + 1)
        /\ \A i \in 1..n : r[i] = s[i]
        /\ r[n + 1] = Said(source, thing, d)
    BY <1>3, <1>5
  <2> HIDE DEF s, r
  <2>3. \/ r[n + 1] = {} /\ {w.state} = {world.state}
        \/ r[n + 1] # {} /\ {w.state} = r[n + 1]
    <3>1. \/ r[n + 1] = {w.state}
          \/ r[n + 1] = {} /\ w.state = world.state
      BY <2>2 DEF Fitting
    <3> QED  BY <3>1
  <2>4. Owes(r, {seen.said}, {w.state})  BY <2>1, <2>2, <2>3, OwesAdded
  <2> QED  BY <2>4 DEF r
<1>7. Owes([i \in DOMAIN line' |-> Stated(source, thing, line'[i])],
           {seen.state}, {w.state})
  <2> DEFINE s == [i \in DOMAIN line |-> Stated(source, thing, line[i])]
             r == [i \in DOMAIN line' |-> Stated(source, thing, line'[i])]
  <2>1. Owes(s, {seen.state}, {world.state})  BY <1>4 DEF TrackedOwed
  <2>2. /\ DOMAIN s = 1..n /\ DOMAIN r = 1..(n + 1)
        /\ \A i \in 1..n : r[i] = s[i]
        /\ r[n + 1] = Stated(source, thing, d)
    BY <1>3, <1>5
  <2> HIDE DEF s, r
  <2>3. \/ r[n + 1] = {} /\ {w.state} = {world.state}
        \/ r[n + 1] # {} /\ {w.state} = r[n + 1]
    <3>1. \/ r[n + 1] = {w.state}
          \/ r[n + 1] = {} /\ w.state = world.state
      BY <2>2 DEF Fitting
    <3> QED  BY <3>1
  <2>4. Owes(r, {seen.state}, {w.state})  BY <2>1, <2>2, <2>3, OwesAdded
  <2> QED  BY <2>4 DEF r
<1>8. ASSUME NEW m \in 1..w.at
      PROVE  Owes([i \in DOMAIN line' |-> Noted(source, thing, m, line'[i])],
                  {seen.notes \cap {m}}, {Told(source, w) \cap {m}})
  <2> DEFINE s == [i \in DOMAIN line |-> Noted(source, thing, m, line[i])]
             r == [i \in DOMAIN line' |-> Noted(source, thing, m, line'[i])]
  <2>1. Owes(s, {seen.notes \cap {m}}, {Told(source, world) \cap {m}})
    <3>1. CASE m \in 1..world.at  BY <1>4, <3>1 DEF TrackedOwed
    <3>2. CASE m = w.at
      <4>1. m \notin seen.notes  BY <1>1, <1>4, <3>2 DEF TrackedOwed
      <4>2. m \notin Told(source, world)
        <5> SUFFICES ASSUME NEW x \in world.notes PROVE x.id # m
          BY DEF Told
        <5>1. x.id \in 1..world.at  BY DEF FollowInv, WorldOK
        <5> QED  BY <1>1, <3>2, <5>1
      <4>3. \A i \in DOMAIN s : s[i] = {}
        <5> TAKE i \in DOMAIN s
        <5>1. PICK note : note = ParseWebhookEvent(source, line[i]).note
          OBVIOUS
        <5>2. note \in 0..world.at  BY <5>1 DEF FollowInv, LineOK, DeliveryOK
        <5>3. note # m  BY <1>1, <3>2, <5>2
        <5>4. Noted(source, thing, m, line[i]) = {}  BY <5>1, <5>3 DEF Noted
        <5> QED  BY <5>4
      <4>4. {seen.notes \cap {m}} = {Told(source, world) \cap {m}}
        BY <4>1, <4>2
      <4> HIDE DEF s
      <4> QED  BY <4>3, <4>4 DEF Owes
    <3> QED  BY <1>1, <3>1, <3>2
  <2>2. /\ DOMAIN s = 1..n /\ DOMAIN r = 1..(n + 1)
        /\ \A i \in 1..n : r[i] = s[i]
        /\ r[n + 1] = Noted(source, thing, m, d)
    BY <1>3, <1>5
  <2> HIDE DEF s, r
  <2>3. PICK y, z : /\ y = {Told(source, world) \cap {m}}
                    /\ z = {Told(source, w) \cap {m}}
    OBVIOUS
  <2>4. (r[n + 1] = {} /\ z = y) \/ (r[n + 1] # {} /\ z = r[n + 1])
    <3>1. m \in Nat \ {0}  BY <1>1
    <3>2. \/ Noted(source, thing, m, d) = z
          \/ Noted(source, thing, m, d) = {} /\ z = y
      BY <2>3, <3>1 DEF Fitting
    <3>3. z # {}  BY <2>3
    <3> QED  BY <2>2, <3>2, <3>3
  <2>5. Owes(s, {seen.notes \cap {m}}, y)  BY <2>1, <2>3
  <2>6. Owes(r, {seen.notes \cap {m}}, z)  BY <2>2, <2>4, <2>5, OwesAdded
  <2> QED  BY <2>3, <2>6 DEF r
<1>9. seen.notes \subseteq 1..w.at
  <2>1. 1..world.at \subseteq 1..w.at  BY <1>1
  <2> QED  BY <1>4, <2>1 DEF TrackedOwed
<1> QED  BY <1>6, <1>7, <1>8, <1>9 DEF TrackedOwed

LEMMA TrackedSent ==
    ASSUME FollowInv, Tracked, NEW w, NEW d, Sends(w, <<d>>), Fitting(w, d),
           WorldOK'
    PROVE  FollowInv'
<1>1. /\ source' = source /\ thing' = thing /\ world' = w /\ seen' = seen
      /\ late' = late
  BY DEF Sends
<1>2. FollowTypeOK' /\ LineOK' /\ (late = 0 => TimesOK')  BY SentOK
<1>3. StateOK' /\ NotesOK'  BY StateSent, NotesSent
<1>4. InOrder'
  <2> SUFFICES ASSUME late = 0
               PROVE  /\ TimesOK'
                      /\ TrackedOwed(source, thing, w, line', seen)
    BY <1>1 DEF InOrder, Tracked
  <2> QED  BY <1>2, OwedSent
<1> QED  BY <1>2, <1>3, <1>4 DEF FollowInv

-----------------------------------------------------------------------------
(* The changes of an issue or a change request.                            *)
LEMMA SentWords ==
    ASSUME FollowTypeOK
    PROVE  /\ thing \in Kinds /\ HookOf \in Hooknames
           /\ NoteHooks \subseteq Hooknames
           /\ \A change \in Turning \cup {"comment", "erase"} :
                 Word(change) \subseteq Actions
           /\ \A w : w.state \in Conditions => Raw(w) \subseteq Conditions
<1>1. thing \in Kinds  BY FollowAssumption DEF FollowTypeOK, Kinds
<1>2. HookOf \in Hooknames  BY DEF HookOf, Hooknames, LikeGithub, LikeGitlab
<1>3. NoteHooks \subseteq Hooknames  BY DEF NoteHooks, Hooknames
<1>4. ASSUME NEW change \in Turning \cup {"comment", "erase"}
      PROVE  Word(change) \subseteq Actions
  <2>1. source \in Backends  BY DEF FollowTypeOK
  <2>2. CASE LikeGithub  BY <2>1, <2>2, WordGithub DEF Turning, Actions
  <2>3. CASE ~LikeGithub  BY <2>1, <2>3, WordGitlab DEF Turning, Actions
  <2> QED  BY <2>2, <2>3
<1>5. ASSUME NEW w, w.state \in Conditions PROVE Raw(w) \subseteq Conditions
  <2>1. PICK state \in Conditions : state = w.state  BY <1>5
  <2>2. CASE state = "merged"  BY <2>1, <2>2 DEF Raw, Conditions
  <2>3. CASE state \in {"open", "opened"}  BY <2>1, <2>3 DEF Raw, Conditions
  <2>4. CASE state = "closed" /\ source = "gitee" /\ thing = "issue"
    BY <2>1, <2>4 DEF Raw, Conditions
  <2>5. CASE /\ state \notin {"merged", "open", "opened"}
             /\ ~(state = "closed" /\ source = "gitee" /\ thing = "issue")
    BY <2>1, <2>5 DEF Raw
  <2> QED  BY <2>2, <2>3, <2>4, <2>5
<1> QED  BY <1>1, <1>2, <1>3, <1>4, <1>5

LEMMA PayloadIs ==
    ASSUME FollowTypeOK, NEW w \in World, NEW hook \in Hooknames,
           NEW a \in Actions, NEW st \in Conditions, NEW note \in Nat,
           NEW d, d = Payload(hook, a, st, note, w)
    PROVE  /\ d \in Delivery /\ d.hook = hook /\ d.action = a /\ d.state = st
           /\ d.ref = thing /\ d.after = w.head /\ d.note = note
           /\ d.at = w.at /\ d.on = thing
<1>1. thing \in Kinds  BY SentWords
<1>2. w.head \in Nat /\ w.at \in Nat  BY DEF World
<1>3. (w.state = "merged") \in BOOLEAN  OBVIOUS
<1> QED  BY <1>1, <1>2, <1>3 DEF Payload, Delivery

(* Every change of an issue or a change request keeps the invariant.       *)
LEMMA TurnsInv ==
    ASSUME FollowInv, NEW change, NEW from, NEW to, Turns(change, from, to),
           Fits(thing, change, to), thing = "issue" => change # "push",
           change \in {"edit", "push"} => to = world.state
    PROVE  FollowInv'
<1>1. /\ FollowTypeOK /\ WorldOK /\ Tracked /\ source \in Backends
      /\ world \in World /\ thing \in {"issue", "cr"}
  BY DEF FollowInv, FollowTypeOK, Turns, Tracked
<1>2. PICK w : w = [world EXCEPT !.state = to, !.at = @ + 1]  OBVIOUS
<1>3. Happens(w, Tells(change, HookOf, 0, w))  BY <1>2 DEF Turns
<1>4. /\ to \in Conditions /\ to \in States(thing)
  BY DEF Fits, States, Opens, Conditions
<1>5. /\ w \in World /\ w.at = world.at + 1 /\ w.state = to
      /\ w.notes = world.notes /\ w.at \in Nat /\ w.head \in Nat
      /\ world.at \in Nat
  <2>1. /\ world.at \in Nat /\ world.head \in Nat
        /\ world.notes \in SUBSET [id : Nat, hook : Hooknames]
    BY <1>1 DEF World
  <2>2. w = [state |-> to, head |-> world.head, notes |-> world.notes,
             at |-> world.at + 1]
    BY <1>1, <1>2 DEF World
  <2> QED  BY <1>4, <2>1, <2>2 DEF World
<1>6. PICK a \in Word(change), st \in Raw(w) :
         line' = line \o <<Payload(HookOf, a, st, 0, w)>>
  BY <1>3 DEF Happens, Tells
<1>7. PICK d : d = Payload(HookOf, a, st, 0, w)  OBVIOUS
<1>8. a \in Actions /\ st \in Conditions /\ HookOf \in Hooknames
  BY <1>1, <1>4, <1>5, SentWords DEF Fits
<1>9. d \in Delivery /\ d.at = w.at  BY <1>1, <1>5, <1>7, <1>8, PayloadIs
<1>10. PICK at \in {0, w.at} :
          /\ Turned(source, thing, d, ActOf(change), w.state, at)
          /\ Timely(source, thing) => at = w.at
  <2>1. CASE thing = "cr"  BY <1>1, <1>5, <1>7, <2>1, CRHeard
  <2>2. CASE thing = "issue"
    <3>1. Turned(source, "issue", d, ActOf(change), w.state,
                 IssueAt(source, w.at))
      BY <1>1, <1>5, <1>7, <2>2, IssueHeard
    <3> QED  BY <2>2, <3>1 DEF IssueAt, Timely
  <2> QED  BY <1>1, <2>1, <2>2
<1>11. DeliveryOK(source, thing, w.at, d)
  <2>1. PICK e : e = ParseWebhookEvent(source, d)  OBVIOUS
  <2>2. PICK o : o = Shown(source, thing, d)  OBVIOUS
  <2>3. /\ e.note = 0 /\ e.commit \in Int /\ o.state = w.state /\ o.at = at
    BY <1>10, <2>1, <2>2 DEF Turned
  <2>4. d.at \in 1..w.at /\ e.note \in 0..w.at  BY <1>5, <1>9, <2>3
  <2>5. thing # "pipeline"  BY <1>1
  <2> QED  BY <1>4, <1>5, <1>9, <1>10, <2>1, <2>2, <2>3, <2>4, <2>5
           DEF DeliveryOK
<1>12. Sends(w, <<d>>)
  <2>1. PICK s : s = <<d>>  OBVIOUS
  <2>2. s \in Seq(Delivery) /\ \A i \in DOMAIN s : s[i] = d  BY <1>9, <2>1
  <2>3. line' = line \o s  BY <1>6, <1>7, <2>1
  <2>4. Sends(w, s)
    BY <1>3, <1>5, <1>9, <1>11, <2>2, <2>3 DEF Sends, Happens
  <2> QED  BY <2>1, <2>4
<1>13. Fitting(w, d)
  <2>1. /\ Said(source, thing, d) =
             IF change \in {"edit", "push"} THEN {} ELSE {w.state}
        /\ Stated(source, thing, d) = {w.state}
        /\ \A n : Noted(source, thing, n, d) = {}
    <3>1. Fits(thing, change, w.state)  BY <1>5
    <3> QED  BY <1>1, <1>10, <3>1, TurnedSets
  <2>2. Told(source, w) = Told(source, world)  BY <1>5 DEF Told
  <2> QED  BY <1>5, <2>1, <2>2 DEF Fitting
<1>14. WorldOK'
  <2>1. Tracked' = Tracked /\ NoteHooks' = NoteHooks /\ world' = w /\ thing' = thing
    BY <1>3 DEF Happens, Tracked, NoteHooks, LikeGithub
  <2>2. \A n \in w.notes : n.id \in 1..w.at /\ n.hook \in NoteHooks
    BY <1>1, <1>5 DEF WorldOK
  <2>3. w.state # "none"  BY <1>4, <1>5 DEF States, Opens
  <2> QED  BY <1>1, <1>4, <1>5, <2>1, <2>2, <2>3 DEF WorldOK
<1> QED  BY <1>1, <1>12, <1>13, <1>14, TrackedSent

(* The comments of w are the thing's, but for the one that came or went.   *)
Remarked(change, w, note) ==
    /\ \A m \in Nat \ {0} : Told(source, w) \cap {m} =
          IF m # note THEN Told(source, world) \cap {m}
          ELSE IF change = "comment" THEN {m} ELSE {}
    /\ Told(source, w) \subseteq Told(source, world) \cup {w.at}
    /\ note \in 0..w.at
Remarks(change, hook, n, w) ==
    /\ Tracked /\ change \in {"comment", "erase"}
    /\ change = "erase" => source = "github"
    /\ w \in World /\ w.at = world.at + 1
    /\ w.state = world.state /\ w.state # "none"
    /\ hook \in NoteHooks /\ n \in Nat
    /\ Happens(w, Tells(change, hook, n, w))
    /\ Remarked(change, w, NoteOf(source, hook, n))

(* An object of the time of w has its state, or none.                      *)
Reports(o, w) == /\ o.state \in {"", w.state} /\ o.at \in {0, w.at}
                 /\ Timely(source, thing) /\ o.state # "" => o.at = w.at

LEMMA RemarkFits ==
    ASSUME thing # "comment", NEW w, w.state = world.state,
           NEW d, NEW note, NEW o, NEW change \in {"comment", "erase"},
           Remark(source, thing, d, ActOfNote(change), note, o),
           Reports(o, w), Remarked(change, w, note)
    PROVE  Fitting(w, d)
<1>1. PICK e : e = ParseWebhookEvent(source, d)  OBVIOUS
<1>2. /\ e.kind = "comment" /\ e.act = ActOfNote(change) /\ e.note = note
      /\ About(e) = thing /\ Shown(source, thing, d) = o
  BY <1>1 DEF Remark
<1>3. Said(source, thing, d) = {}  BY <1>1, <1>2 DEF Said
<1>4. \/ Stated(source, thing, d) = {w.state}
      \/ Stated(source, thing, d) = {}
  BY <1>2 DEF Stated, Reports
<1>5. ASSUME NEW m \in Nat \ {0}
      PROVE  \/ Noted(source, thing, m, d) = {Told(source, w) \cap {m}}
             \/ /\ Noted(source, thing, m, d) = {}
                /\ Told(source, w) \cap {m} = Told(source, world) \cap {m}
  <2>1. PICK x, y : /\ x = Told(source, w) \cap {m}
                    /\ y = Told(source, world) \cap {m}
    OBVIOUS
  <2>2. x = IF m # note THEN y ELSE IF change = "comment" THEN {m} ELSE {}
    BY <2>1 DEF Remarked
  <2>3. Noted(source, thing, m, d) =
           IF m # note THEN {}
           ELSE IF change = "comment" THEN {{m}} ELSE {{}}
    BY <1>1, <1>2 DEF Noted, ActOfNote
  <2>4. \/ Noted(source, thing, m, d) = {x}
        \/ Noted(source, thing, m, d) = {} /\ x = y
    BY <2>2, <2>3
  <2> QED  BY <2>1, <2>4
<1> QED  BY <1>3, <1>4, <1>5 DEF Fitting, Remarked

LEMMA RemarkedInv ==
    ASSUME FollowInv, NEW change, NEW hook, NEW n, NEW w,
           Remarks(change, hook, n, w), WorldOK'
    PROVE  FollowInv'
<1>1. /\ FollowTypeOK /\ WorldOK /\ source \in Backends /\ Tracked
      /\ thing \in {"issue", "cr"} /\ world.at \in Nat /\ w.at \in Nat
      /\ w \in World /\ w.at = world.at + 1 /\ hook \in NoteHooks /\ n \in Nat
      /\ change \in {"comment", "erase"}
      /\ change = "erase" => source = "github"
      /\ w.state = world.state
  BY DEF Remarks, FollowInv, FollowTypeOK, Tracked, World
<1>2. PICK note : note = NoteOf(source, hook, n)  OBVIOUS
<1>3. w.state \in States(thing) /\ w.state \in Conditions
  BY <1>1 DEF Remarks, WorldOK, World
<1>4. PICK a \in Word(change), st \in Raw(w) :
         line' = line \o <<Payload(hook, a, st, n, w)>>
  <2>1. Happens(w, Tells(change, hook, n, w))  BY DEF Remarks
  <2>2. PICK s \in Tells(change, hook, n, w) : line' = line \o s
    BY <2>1 DEF Happens
  <2>3. \E a \in Word(change), st \in Raw(w) :
           s = <<Payload(hook, a, st, n, w)>>
    BY DEF Tells
  <2> QED  BY <2>2, <2>3
<1>5. PICK d : d = Payload(hook, a, st, n, w)  OBVIOUS
<1>6. a \in Actions /\ st \in Conditions /\ hook \in Hooknames /\ n \in Nat
  BY <1>1, <1>3, SentWords
<1>7. d \in Delivery /\ d.at = w.at  BY <1>1, <1>5, <1>6, PayloadIs
<1>8. PICK o :
         /\ Remark(source, thing, d, ActOfNote(change), note, o)
         /\ Reports(o, w)
  <2>1. CASE thing = "cr"
    <3>1. \/ Remark(source, "cr", d, ActOfNote(change), note, Object("", 0))
          \/ Remark(source, "cr", d, ActOfNote(change), note,
                    Object(w.state, d.at))
      BY <1>2, <1>1, <1>3, <1>5, <2>1, CRCommentHeard
    <3>2. PICK o : /\ Remark(source, "cr", d, ActOfNote(change), note, o)
                   /\ o = Object("", 0) \/ o = Object(w.state, d.at)
      BY <3>1
    <3>3. Reports(o, w)
      <4>1. CASE o = Object("", 0)
        <5>1. o.state = "" /\ o.at = 0  BY <4>1, ObjectIs
        <5> QED  BY <5>1 DEF Reports
      <4>2. CASE o = Object(w.state, d.at)
        <5>1. o.state = w.state /\ o.at = d.at  BY <4>2, ObjectIs
        <5> QED  BY <1>7, <5>1 DEF Reports
      <4> QED  BY <3>2, <4>1, <4>2
    <3> QED  BY <2>1, <3>2, <3>3
  <2>2. CASE thing = "issue"
    <3>1. Shows(change, note, w, d)
      BY <1>2, <1>1, <1>3, <1>5, <2>2, IssueCommentHeard
    <3>2. PICK o, state, at :
             /\ o = Object(state, at)
             /\ state \in {"", w.state} /\ at \in {0, d.at}
             /\ state = "" \/ at = IssueAt(source, d.at)
             /\ Remark(source, "issue", d, ActOfNote(change), note, o)
      BY <3>1 DEF Shows
    <3>3. o.state = state /\ o.at = at  BY <3>2, ObjectIs
    <3>4. Timely(source, thing) /\ o.state # "" => o.at = w.at
      BY <1>7, <2>2, <3>2, <3>3 DEF IssueAt, Timely
    <3>5. Reports(o, w)  BY <1>7, <3>2, <3>3, <3>4 DEF Reports
    <3> QED  BY <2>2, <3>2, <3>5
  <2> QED  BY <1>1, <2>1, <2>2
<1>9. note \in 0..w.at  BY <1>2 DEF Remarks, Remarked
<1>10. DeliveryOK(source, thing, w.at, d)
  <2>1. PICK e : e = ParseWebhookEvent(source, d)  OBVIOUS
  <2>2. e.note = note /\ e.commit \in Int /\ Shown(source, thing, d) = o
    BY <1>8, <2>1 DEF Remark
  <2>3. d.at \in 1..w.at /\ e.note \in 0..w.at  BY <1>1, <1>7, <1>9, <2>2
  <2>4. o.state \in Conditions /\ o.at \in {0, d.at}
    BY <1>3, <1>7, <1>8 DEF Conditions, Reports
  <2>5. Timely(source, thing) /\ o.state # "" => o.at = d.at
    BY <1>7, <1>8 DEF Reports
  <2>6. thing # "pipeline"  BY <1>1
  <2> QED  BY <1>7, <2>1, <2>2, <2>3, <2>4, <2>5, <2>6 DEF DeliveryOK
<1>11. Sends(w, <<d>>)
  <2>1. PICK s : s = <<d>>  OBVIOUS
  <2>2. s \in Seq(Delivery) /\ \A i \in DOMAIN s : s[i] = d  BY <1>7, <2>1
  <2>3. line' = line \o s  BY <1>4, <1>5, <2>1
  <2>4. Sends(w, s)
    BY <1>1, <1>7, <1>10, <2>2, <2>3 DEF Sends, Remarks, Happens
  <2> QED  BY <2>1, <2>4
<1>12. Remarked(change, w, note)  BY <1>2 DEF Remarks
<1>13. Fitting(w, d)  BY <1>1, <1>8, <1>12, RemarkFits
<1> QED  BY <1>1, <1>11, <1>13, TrackedSent

(* A comment that comes or goes keeps it.                                  *)
LEMMA IsCommentedInv ==
    ASSUME FollowInv, IsCommented
    PROVE  FollowInv'
<1>1. /\ Tracked /\ world.state # "none" /\ WorldOK /\ world \in World
      /\ world.at \in Nat /\ NoteHooks \subseteq Hooknames
  BY SentWords DEF IsCommented, FollowInv, FollowTypeOK, World
<1>2. PICK hook \in NoteHooks :
         LET n == world.at + 1
             w == [world EXCEPT !.notes = @ \cup {[id |-> n, hook |-> hook]},
                                !.at = n]
         IN  Happens(w, Tells("comment", hook, n, w))
  BY DEF IsCommented
<1>3. PICK n, x : n = world.at + 1 /\ x = [id |-> n, hook |-> hook]  OBVIOUS
<1>4. PICK w : w = [world EXCEPT !.notes = @ \cup {x}, !.at = n]  OBVIOUS
<1>5. Happens(w, Tells("comment", hook, n, w))  BY <1>2, <1>3, <1>4
<1>6. n \in Nat /\ x.id = n /\ x.hook = hook /\ x \in [id : Nat, hook : Hooknames]
  BY <1>1, <1>3
<1>7. /\ w \in World /\ w.at = n /\ w.state = world.state
      /\ w.notes = world.notes \cup {x}
  <2>1. /\ world.state \in Conditions /\ world.head \in Nat
        /\ world.notes \in SUBSET [id : Nat, hook : Hooknames]
    BY <1>1 DEF World
  <2>2. w = [state |-> world.state, head |-> world.head,
             notes |-> world.notes \cup {x}, at |-> n]
    BY <1>1, <1>4 DEF World
  <2>3. world.notes \cup {x} \in SUBSET [id : Nat, hook : Hooknames]
    BY <1>6, <2>1
  <2> QED  BY <1>6, <2>1, <2>2, <2>3 DEF World
<1>8. \A m \in world.notes : m.id \in 1..world.at  BY <1>1 DEF WorldOK
<1>9. WorldOK'
  <2>1. /\ Tracked' = Tracked /\ NoteHooks' = NoteHooks /\ world' = w
        /\ thing' = thing
    BY <1>5 DEF Happens, Tracked, NoteHooks, LikeGithub
  <2>2. \A m \in w.notes : m.id \in 1..w.at /\ m.hook \in NoteHooks
    BY <1>1, <1>3, <1>6, <1>7 DEF WorldOK
  <2>3. \A m, k \in w.notes : m.id = k.id => m = k
    <3> SUFFICES ASSUME NEW m \in w.notes, NEW k \in w.notes, m.id = k.id
                 PROVE  m = k
      OBVIOUS
    <3>1. \A j \in world.notes : j.id # n
      <4> TAKE j \in world.notes
      <4>1. j.id \in 1..world.at  BY <1>8
      <4> QED  BY <1>1, <1>3, <4>1
    <3>2. CASE m \in world.notes /\ k \in world.notes
      BY <1>1, <3>2 DEF WorldOK
    <3>3. CASE m \notin world.notes \/ k \notin world.notes
      BY <1>6, <1>7, <3>1, <3>3
    <3> QED  BY <3>2, <3>3
  <2> QED  BY <1>1, <1>7, <2>1, <2>2, <2>3 DEF WorldOK
<1>10. PICK note : note = NoteOf(source, hook, n)  OBVIOUS
<1>11. Told(source, w) = Told(source, world) \cup ({note} \ {0})
  <2>1. Told(source, w) = Told(source, world) \cup
           IF source = "github" /\ hook = "issue_comment" THEN {} ELSE {n}
    <3>1. CASE source = "github" /\ hook = "issue_comment"
      BY <1>6, <1>7, <3>1 DEF Told
    <3>2. CASE ~(source = "github" /\ hook = "issue_comment")
      <4>1. \A m : m \in Told(source, w) <=>
               m = n \/ m \in Told(source, world)
        BY <1>6, <1>7, <3>2 DEF Told
      <4> QED  BY <3>2, <4>1
    <3> QED  BY <3>1, <3>2
  <2>2. n # 0  BY <1>1, <1>3
  <2> QED  BY <1>10, <2>1, <2>2 DEF NoteOf
<1>12. \A m \in Nat \ {0} : Told(source, w) \cap {m} =
          IF m # note THEN Told(source, world) \cap {m} ELSE {m}
  BY <1>11
<1>13. Told(source, w) \subseteq Told(source, world) \cup {w.at}
  BY <1>7, <1>10, <1>11 DEF NoteOf
<1>14. n \in Nat /\ note \in 0..w.at  BY <1>1, <1>3, <1>7, <1>10 DEF NoteOf
<1>15. Remarked("comment", w, note)  BY <1>12, <1>13, <1>14 DEF Remarked
<1>16. Remarks("comment", hook, n, w)
  BY <1>1, <1>3, <1>5, <1>7, <1>10, <1>14, <1>15 DEF Remarks
<1> QED  BY <1>9, <1>16, RemarkedInv

LEMMA CommentErasedInv ==
    ASSUME FollowInv, CommentErased
    PROVE  FollowInv'
<1>1. PICK x \in world.notes :
         LET w == [world EXCEPT !.notes = @ \ {x}, !.at = @ + 1]
         IN  Happens(w, Tells("erase", x.hook, x.id, w))
  BY DEF CommentErased
<1>2. /\ Tracked /\ world.state # "none" /\ WorldOK /\ world \in World
      /\ world.at \in Nat /\ source = "github"
      /\ x.hook \in NoteHooks /\ x.id \in 1..world.at
  BY DEF CommentErased, FollowInv, FollowTypeOK, World, WorldOK
<1>3. PICK w : w = [world EXCEPT !.notes = @ \ {x}, !.at = @ + 1]  OBVIOUS
<1>4. Happens(w, Tells("erase", x.hook, x.id, w))  BY <1>1, <1>3
<1>5. /\ w \in World /\ w.at = world.at + 1 /\ w.state = world.state
      /\ w.notes = world.notes \ {x}
  <2>1. /\ world.state \in Conditions /\ world.head \in Nat
        /\ world.notes \in SUBSET [id : Nat, hook : Hooknames]
    BY <1>2 DEF World
  <2>2. w = [state |-> world.state, head |-> world.head,
             notes |-> world.notes \ {x}, at |-> world.at + 1]
    BY <1>2, <1>3 DEF World
  <2>3. world.notes \ {x} \in SUBSET [id : Nat, hook : Hooknames]  BY <2>1
  <2>4. world.at + 1 \in Nat  BY <1>2
  <2> QED  BY <2>1, <2>2, <2>3, <2>4 DEF World
<1>6. WorldOK'
  <2>1. /\ Tracked' = Tracked /\ NoteHooks' = NoteHooks /\ world' = w
        /\ thing' = thing
    BY <1>4 DEF Happens, Tracked, NoteHooks, LikeGithub
  <2>2. \A m \in w.notes : m.id \in 1..w.at /\ m.hook \in NoteHooks
    <3> TAKE m \in w.notes
    <3>1. m.id \in 1..world.at /\ m.hook \in NoteHooks
      BY <1>2, <1>5 DEF WorldOK
    <3> QED  BY <1>2, <1>5, <3>1
  <2> QED  BY <1>2, <1>5, <2>1, <2>2 DEF WorldOK
<1>7. PICK note : note = NoteOf(source, x.hook, x.id)  OBVIOUS
<1>8. Told(source, w) = Told(source, world) \ {note}
  <2>1. CASE x.hook = "issue_comment"
    <3>1. note = 0  BY <1>2, <1>7, <2>1 DEF NoteOf
    <3>2. 0 \notin Told(source, world)  BY <1>2 DEF Told, WorldOK
    <3>3. Told(source, w) = Told(source, world)  BY <1>2, <1>5, <2>1 DEF Told
    <3> QED  BY <3>1, <3>2, <3>3
  <2>2. CASE x.hook # "issue_comment"
    <3>1. note = x.id  BY <1>7, <2>2 DEF NoteOf
    <3>2. \A m \in world.notes : m.id = x.id => m = x  BY <1>2 DEF WorldOK
    <3>3. \A m : m \in Told(source, w) <=>
             m \in Told(source, world) /\ m # x.id
      BY <1>5, <3>2 DEF Told
    <3> QED  BY <3>1, <3>3
  <2> QED  BY <2>1, <2>2
<1>9. \A m \in Nat \ {0} : Told(source, w) \cap {m} =
         IF m # note THEN Told(source, world) \cap {m} ELSE {}
  BY <1>8
<1>10. Told(source, w) \subseteq Told(source, world) \cup {w.at}  BY <1>8
<1>11. x.id \in Nat /\ note \in 0..w.at  BY <1>2, <1>5, <1>7 DEF NoteOf
<1>12. Remarked("erase", w, note)  BY <1>9, <1>10, <1>11 DEF Remarked
<1>13. Remarks("erase", x.hook, x.id, w)
  BY <1>2, <1>4, <1>5, <1>7, <1>11, <1>12 DEF Remarks
<1> QED  BY <1>6, <1>13, RemarkedInv

(* The changes by name.                                                    *)
LEMMA IsOpenedInv ==
    ASSUME FollowInv, IsOpened PROVE FollowInv'
<1>1. Tracked /\ Turns("open", {"none"}, Open)  BY DEF IsOpened, Turns
<1>2. Open = Opens(thing)  BY DEF Open, Opens
<1>3. Fits(thing, "open", Open)  BY <1>2 DEF Fits, Turning, States
<1> QED  BY <1>1, <1>3, TurnsInv

LEMMA IsClosedInv ==
    ASSUME FollowInv, IsClosed PROVE FollowInv'
<1>1. Fits(thing, "close", "closed")  BY DEF Fits, Turning, States
<1> QED  BY <1>1, TurnsInv DEF IsClosed

LEMMA IsReopenedInv ==
    ASSUME FollowInv, IsReopened PROVE FollowInv'
<1>1. Open = Opens(thing)  BY DEF Open, Opens
<1>2. Fits(thing, "reopen", Open)  BY <1>1 DEF Fits, Turning, States
<1> QED  BY <1>2, TurnsInv DEF IsReopened

LEMMA IsMergedInv ==
    ASSUME FollowInv, IsMerged PROVE FollowInv'
<1>1. thing = "cr" /\ Turns("merge", {Open}, "merged")  BY DEF IsMerged
<1>2. Fits(thing, "merge", "merged")  BY <1>1 DEF Fits, Turning, States
<1> QED  BY <1>1, <1>2, TurnsInv

LEMMA IsEditedInv ==
    ASSUME FollowInv, IsEdited PROVE FollowInv'
<1>1. /\ Turns("edit", {Open, "closed", "merged"}, world.state)
      /\ Tracked /\ world.state \in {Open, "closed", "merged"}
  BY DEF IsEdited, Turns
<1>2. world.state \in States(thing)
  BY <1>1 DEF FollowInv, WorldOK, Open
<1>3. Fits(thing, "edit", world.state)  BY <1>2 DEF Fits, Turning
<1> QED  BY <1>1, <1>3, TurnsInv

LEMMA IsPushedInv ==
    ASSUME FollowInv, IsPushed PROVE FollowInv'
<1>1. /\ thing = "cr" /\ Turns("push", {Open}, world.state)
      /\ Tracked /\ world.state = Open
  BY DEF IsPushed, Turns
<1>2. world.state \in States(thing)  BY <1>1 DEF Open, States, Opens
<1>3. Fits(thing, "push", world.state)  BY <1>2 DEF Fits, Turning
<1> QED  BY <1>1, <1>3, TurnsInv

-----------------------------------------------------------------------------
(* The changes of a ref or a pipeline, of which one or two deliveries are  *)
(* sent.                                                                   *)
LEMMA OwesLast ==
    ASSUME NEW n \in Nat, NEW m \in Nat, NEW r, DOMAIN r = 1..(n + m),
           NEW z, z # {}, NEW x,
           \A i \in (n + 1)..(n + m) : r[i] = {} \/ r[i] = z,
           NEW k \in (n + 1)..(n + m), r[k] = z
    PROVE  Owes(r, x, z)
<1>1. k \in DOMAIN r  OBVIOUS
<1>2. ASSUME NEW i \in DOMAIN r, r[i] # {},
             \A j \in DOMAIN r : j > i => r[j] = {}
      PROVE  r[i] = z
  <2>1. ~(k > i)  BY <1>1, <1>2
  <2>2. i \in (n + 1)..(n + m)  BY <2>1
  <2> QED  BY <1>2, <2>2
<1>3. ~(\A i \in DOMAIN r : r[i] = {})  BY <1>1
<1> QED  BY <1>2, <1>3 DEF Owes

LEMMA BranchSent ==
    ASSUME FollowInv, NEW w, NEW s, Sends(w, s),
           \A i \in DOMAIN s : \/ Headed(source, "branch", s[i]) = {}
                               \/ Headed(source, "branch", s[i]) = {w.head},
           NEW k \in DOMAIN s, Headed(source, "branch", s[k]) = {w.head},
           w.head = 0 =>
              \A i \in DOMAIN s : Headed(source, "branch", s[i]) = {w.head}
    PROVE  BranchOwed(source, w, line', seen)
<1>1. PICK n \in Nat, m \in Nat :
         /\ DOMAIN line = 1..n /\ DOMAIN s = 1..m
         /\ DOMAIN line' = 1..(n + m)
         /\ \A i \in (n + 1)..(n + m) :
               line'[i] = s[i - n] /\ i - n \in DOMAIN s
  BY LineSent DEF FollowInv
<1>2. PICK l \in (n + 1)..(n + m) : line'[l] = s[k]
  <2>1. n + k \in (n + 1)..(n + m) /\ (n + k) - n = k  BY <1>1
  <2> QED  BY <1>1, <2>1
<1> DEFINE r == [i \in DOMAIN line' |-> Headed(source, "branch", line'[i])]
<1>3. DOMAIN r = 1..(n + m) /\ l \in 1..(n + m) /\ r[l] = {w.head}
  BY <1>1, <1>2
<1>4. ASSUME NEW i \in (n + 1)..(n + m)
      PROVE  /\ r[i] = {} \/ r[i] = {w.head}
             /\ w.head = 0 => r[i] = {w.head}
  <2>1. i \in DOMAIN line' /\ i - n \in DOMAIN s /\ line'[i] = s[i - n]
    BY <1>1
  <2>2. r[i] = Headed(source, "branch", s[i - n])  BY <2>1
  <2> HIDE DEF r
  <2> QED  BY <2>1, <2>2
<1>5. Owes(r, {seen.head}, {w.head})
  <2> HIDE DEF r
  <2>1. {w.head} # {}  OBVIOUS
  <2> QED  BY <1>3, <1>4, <2>1, OwesLast
<1>6. ASSUME w.head = 0, NEW i \in DOMAIN line', r[i] = {}
      PROVE  l > i /\ l \in DOMAIN line' /\ r[l] # {}
  <2> HIDE DEF r
  <2>1. i \notin (n + 1)..(n + m)  BY <1>4, <1>6
  <2> QED  BY <1>1, <1>3, <1>6, <2>1
<1>7. w.head = 0 => \A i \in DOMAIN line' :
         Headed(source, "branch", line'[i]) = {} =>
            \E j \in DOMAIN line' :
               j > i /\ Headed(source, "branch", line'[j]) # {}
  BY <1>6
<1> QED  BY <1>5, <1>7 DEF BranchOwed

LEMMA TagSent ==
    ASSUME FollowInv, NEW w, NEW s, Sends(w, s), NEW k \in DOMAIN s,
           (source \in {"gitlab", "tencentcode"} => w.head # 0) =>
              \A i \in DOMAIN s : Found(source, "tag", s[i]) = {IsThere(w.head)}
    PROVE  TagOwed(source, w, line', seen)
<1> SUFFICES ASSUME \A i \in DOMAIN s :
                       Found(source, "tag", s[i]) = {IsThere(w.head)}
             PROVE  Owes([i \in DOMAIN line' |-> Found(source, "tag", line'[i])],
                         {IsThere(seen.head)}, {IsThere(w.head)})
  BY DEF TagOwed
<1>1. PICK n \in Nat, m \in Nat :
         /\ DOMAIN line = 1..n /\ DOMAIN s = 1..m
         /\ DOMAIN line' = 1..(n + m)
         /\ \A i \in (n + 1)..(n + m) :
               line'[i] = s[i - n] /\ i - n \in DOMAIN s
  BY LineSent DEF FollowInv
<1>2. PICK z : z = {IsThere(w.head)} /\ z # {}  OBVIOUS
<1> DEFINE r == [i \in DOMAIN line' |-> Found(source, "tag", line'[i])]
<1>3. DOMAIN r = 1..(n + m)  BY <1>1
<1>4. ASSUME NEW i \in (n + 1)..(n + m) PROVE r[i] = z
  <2>1. i \in DOMAIN line' /\ i - n \in DOMAIN s /\ line'[i] = s[i - n]
    BY <1>1
  <2> QED  BY <1>2, <2>1
<1>5. n + k \in (n + 1)..(n + m)  BY <1>1
<1>6. Owes(r, {IsThere(seen.head)}, z)
  <2> HIDE DEF r
  <2> QED  BY <1>2, <1>3, <1>4, <1>5, OwesLast
<1> QED  BY <1>2, <1>6

(* What is sent of a ref or a pipeline, if it says what is owed of it.     *)
LEMMA UntrackedSent ==
    ASSUME FollowInv, ~Tracked, NEW w, NEW s, Sends(w, s),
           w.notes = world.notes,
           late = 0 =>
              /\ thing = "branch" => BranchOwed(source, w, line', seen)
              /\ thing = "tag" => TagOwed(source, w, line', seen)
              /\ thing = "pipeline" => PipelineOwed(w, line', seen)
    PROVE  FollowInv'
<1>1. /\ source' = source /\ thing' = thing /\ world' = w /\ seen' = seen
      /\ late' = late
  BY DEF Sends
<1>2. FollowTypeOK' /\ LineOK' /\ (late = 0 => TimesOK')  BY SentOK
<1>3. ~Tracked'  BY <1>1 DEF Tracked
<1>4. w.notes = {}  BY DEF FollowInv, WorldOK
<1>5. WorldOK'  BY <1>1, <1>3, <1>4 DEF WorldOK
<1>6. StateOK' /\ NotesOK'  BY <1>3 DEF StateOK, NotesOK
<1>7. InOrder'  BY <1>1, <1>2, <1>3 DEF InOrder
<1> QED  BY <1>2, <1>5, <1>6, <1>7 DEF FollowInv

(* What a delivery says of a ref that came to be as in w.                  *)
Marks(w, d) ==
    /\ d.at = w.at /\ DeliveryOK(source, thing, w.at, d)
    /\ thing = "branch" =>
          \/ Headed(source, thing, d) = {w.head}
          \/ Headed(source, thing, d) = {} /\ w.head # 0
    /\ thing = "tag" /\ (source \in {"gitlab", "tencentcode"} => w.head # 0) =>
          Found(source, thing, d) = {IsThere(w.head)}
Carries(hook, w) == Payload(hook, "", "", 0, w)
Later(w) == w \in World /\ w.at = world.at + 1

LEMMA BareOK ==
    ASSUME NEW b, NEW t, NEW now \in Nat, NEW d \in Delivery, d.at \in 1..now,
           NEW e, e = ParseWebhookEvent(b, d), e.commit \in Int, e.note = 0,
           Shown(b, t, d) = Missing, t = "pipeline" => d.hook = "pipeline"
    PROVE  DeliveryOK(b, t, now, d)
<1>1. Missing.state = "" /\ Missing.at = 0 /\ "" \in Conditions
  BY DEF Missing, Conditions
<1>2. PICK o : o = Shown(b, t, d)  OBVIOUS
<1>3. o.state = "" /\ o.state \in Conditions /\ o.at = 0  BY <1>1, <1>2
<1>4. e.note \in 0..now  OBVIOUS
<1> QED  BY <1>2, <1>3, <1>4 DEF DeliveryOK

LEMMA CarriesIs ==
    ASSUME FollowTypeOK, NEW w, Later(w),
           NEW hook \in {"push", "tag_push", "create", "delete"},
           NEW d, d = Carries(hook, w)
    PROVE  /\ d \in Delivery /\ d.hook = hook /\ d.ref = thing
           /\ d.after = w.head /\ d.at = w.at
           /\ w.at \in Nat /\ w.at \in 1..w.at /\ w.head \in Nat
<1>1. PICK x \in Hooknames, act \in Actions, st \in Conditions, note \in Nat :
         x = hook /\ act = "" /\ st = "" /\ note = 0
  BY DEF Hooknames, Actions, Conditions
<1>2. w \in World /\ w.at = world.at + 1 /\ world.at \in Nat
  BY DEF FollowTypeOK, Later, World
<1>3. w.head \in Nat /\ w.at \in Nat /\ w.at \in 1..w.at
  BY <1>2 DEF World
<1>4. d = Payload(x, act, st, note, w)  BY <1>1 DEF Carries
<1>5. /\ d \in Delivery /\ d.hook = x /\ d.ref = thing /\ d.after = w.head
      /\ d.at = w.at
  BY <1>2, <1>4, PayloadIs
<1> QED  BY <1>1, <1>3, <1>5

LEMMA PushMarks ==
    ASSUME FollowTypeOK, thing = "branch", NEW w, Later(w),
           NEW d, d = Carries("push", w)
    PROVE  Marks(w, d) /\ Headed(source, thing, d) = {w.head}
<1>1. /\ d \in Delivery /\ d.hook = "push" /\ d.after = w.head /\ d.at = w.at
      /\ w.at \in Nat /\ w.at \in 1..w.at /\ w.head \in Nat
  BY CarriesIs
<1>2. Bare(source, thing, d, "push", "", "branch", d.after)
  <2>1. source \in Backends /\ thing # "cr"  BY DEF FollowTypeOK
  <2> QED  BY <1>1, <2>1, PushHeard
<1>3. PICK e : e = ParseWebhookEvent(source, d)  OBVIOUS
<1>4. PICK head \in Nat : head = w.head  BY <1>1
<1>5. /\ e.act # "deleted" /\ e.ref = "branch" /\ e.commit = head /\ e.note = 0
      /\ Shown(source, thing, d) = Missing
  BY <1>1, <1>2, <1>3, <1>4 DEF Bare
<1>6. DeliveryOK(source, thing, w.at, d)
  <2>1. e.commit \in Int  BY <1>5
  <2>2. thing # "pipeline"  OBVIOUS
  <2> QED  BY <1>1, <1>3, <1>5, <2>1, <2>2, BareOK
<1>7. Headed(source, thing, d) = {head}  BY <1>3, <1>5 DEF Headed
<1> QED  BY <1>1, <1>4, <1>6, <1>7 DEF Marks

LEMMA OwnMarks ==
    ASSUME FollowTypeOK, LikeGithub, IsRef, NEW w, Later(w),
           NEW hook, hook = IF w.head = 0 THEN "delete" ELSE "create",
           NEW d, d = Carries(hook, w)
    PROVE  Marks(w, d)
<1>1. /\ d \in Delivery /\ d.hook = hook /\ d.ref = thing /\ d.at = w.at
      /\ w.at \in Nat /\ w.at \in 1..w.at
  BY CarriesIs
<1>2. PICK act : act = IF hook = "create" THEN "created" ELSE "deleted"
  OBVIOUS
<1>3. Bare(source, thing, d, d.ref, act, d.ref, -1)
  <2>1. source \in {"github", "gitea", "forgejo", "gitcode"} /\ thing # "cr"
    BY DEF LikeGithub, IsRef
  <2>2. d.hook \in {"create", "delete"}  BY <1>1
  <2> QED  BY <1>1, <1>2, <2>1, <2>2, OwnHeard
<1>4. PICK e : e = ParseWebhookEvent(source, d)  OBVIOUS
<1>5. /\ e.act = act /\ e.ref = thing /\ e.commit = -1 /\ e.note = 0
      /\ Shown(source, thing, d) = Missing
  BY <1>1, <1>3, <1>4 DEF Bare
<1>6. DeliveryOK(source, thing, w.at, d)
  <2>1. thing # "pipeline"  BY DEF IsRef
  <2> QED  BY <1>1, <1>4, <1>5, <2>1, BareOK
<1>7. Headed(source, thing, d) = IF w.head = 0 THEN {0} ELSE {}
  BY <1>2, <1>4, <1>5 DEF Headed
<1>8. Found(source, thing, d) = {IsThere(w.head)}
  BY <1>2, <1>4, <1>5 DEF Found, IsThere
<1> QED  BY <1>1, <1>6, <1>7, <1>8 DEF Marks

LEMMA TagMarks ==
    ASSUME FollowTypeOK, source # "github", thing = "tag", NEW w, Later(w),
           NEW d, d = Carries("tag_push", w)
    PROVE  Marks(w, d)
<1>1. /\ d \in Delivery /\ d.hook = "tag_push" /\ d.after = w.head
      /\ d.at = w.at /\ w.at \in Nat /\ w.at \in 1..w.at /\ w.head \in Nat
  BY CarriesIs
<1>2. PICK commit :
         commit = IF source \in {"gitlab", "tencentcode"} THEN -1 ELSE d.after
  OBVIOUS
<1>3. Bare(source, thing, d, "tag", "created", "tag", commit)
  <2>1. source \in Backends /\ thing # "cr"  BY DEF FollowTypeOK
  <2> QED  BY <1>1, <1>2, <2>1, TagHeard
<1>4. PICK e : e = ParseWebhookEvent(source, d)  OBVIOUS
<1>5. /\ e.act = "created" /\ e.ref = "tag" /\ e.commit = commit
      /\ e.note = 0 /\ Shown(source, thing, d) = Missing
  BY <1>3, <1>4 DEF Bare
<1>6. commit \in Int  BY <1>1, <1>2
<1>7. DeliveryOK(source, thing, w.at, d)  BY <1>1, <1>4, <1>5, <1>6, BareOK
<1>8. (source \in {"gitlab", "tencentcode"} => w.head # 0) =>
         Found(source, thing, d) = {IsThere(w.head)}
  BY <1>1, <1>2, <1>4, <1>5 DEF Found, IsThere
<1> QED  BY <1>1, <1>7, <1>8 DEF Marks

LEMMA RefTells ==
    ASSUME FollowTypeOK, IsRef, NEW w, Later(w),
           NEW change \in {"make", "move", "drop"},
           change = "drop" <=> w.head = 0, change = "move" => thing = "branch",
           NEW s \in TellsRef(change, w)
    PROVE  /\ s \in Seq(Delivery) /\ 1 \in DOMAIN s
           /\ \A i \in DOMAIN s : Marks(w, s[i])
           /\ thing = "branch" => \E k \in DOMAIN s : s[k] = Carries("push", w)
<1>1. source \in Backends /\ thing \in {"branch", "tag"}
  BY DEF FollowTypeOK, IsRef
<1>2. PICK own : own = Carries(IF w.head = 0 THEN "delete" ELSE "create", w)
  OBVIOUS
<1>3. PICK push : push = Carries("push", w)  OBVIOUS
<1>4. PICK tag : tag = Carries("tag_push", w)  OBVIOUS
<1>5. LikeGithub => Marks(w, own)  BY <1>2, OwnMarks
<1>6. thing = "branch" => Marks(w, push)  BY <1>3, PushMarks
<1>7. thing = "tag" /\ source # "github" => Marks(w, tag)  BY <1>4, TagMarks
<1>8. \A d : Marks(w, d) => d \in Delivery  BY DEF Marks, DeliveryOK
<1>9. CASE thing = "branch"
  <2>1. \/ s = <<push>>
        \/ LikeGithub /\ s = <<own, push>>
        \/ LikeGithub /\ s = <<push, own>>
    BY <1>2, <1>3, <1>9 DEF TellsRef, Carries
  <2>2. CASE s = <<push>>  BY <1>3, <1>6, <1>8, <1>9, <2>2
  <2>3. CASE LikeGithub /\ s = <<own, push>>
    <3>1. s \in Seq(Delivery) /\ DOMAIN s = 1..2 /\ s[1] = own /\ s[2] = push
      BY <1>5, <1>6, <1>8, <1>9, <2>3
    <3> QED  BY <1>3, <1>5, <1>6, <1>9, <2>3, <3>1
  <2>4. CASE LikeGithub /\ s = <<push, own>>
    <3>1. s \in Seq(Delivery) /\ DOMAIN s = 1..2 /\ s[1] = push /\ s[2] = own
      BY <1>5, <1>6, <1>8, <1>9, <2>4
    <3> QED  BY <1>3, <1>5, <1>6, <1>9, <2>4, <3>1
  <2> QED  BY <2>1, <2>2, <2>3, <2>4
<1>10. CASE thing = "tag"
  <2>1. change # "move"  BY <1>10
  <2>2. LikeGithub \/ source # "github"  BY DEF LikeGithub
  <2>3. \/ s = <<own>> /\ LikeGithub
        \/ s = <<tag>> /\ source # "github"
    BY <1>2, <1>4, <1>10, <2>1, <2>2 DEF TellsRef, Carries
  <2>4. PICK d : s = <<d>> /\ Marks(w, d)  BY <1>5, <1>7, <1>10, <2>3
  <2> QED  BY <1>8, <1>10, <2>4
<1> QED  BY <1>1, <1>9, <1>10

(* The changes of a ref keep the invariant, and those of a pipeline.       *)
LEMMA RefTurnsInv ==
    ASSUME FollowInv, IsRef, NEW change \in {"make", "move", "drop"},
           NEW head \in Nat, change = "drop" <=> head = 0,
           change = "move" => thing = "branch", RefTurns(change, head)
    PROVE  FollowInv'
<1>1. /\ FollowTypeOK /\ ~Tracked /\ world \in World /\ world.at \in Nat
      /\ thing \in {"branch", "tag"}
  BY DEF FollowInv, FollowTypeOK, IsRef, Tracked, World
<1>2. PICK w : w = [world EXCEPT !.head = head, !.at = @ + 1]  OBVIOUS
<1>3. Happens(w, TellsRef(change, w))  BY <1>2 DEF RefTurns
<1>4. /\ w \in World /\ w.at = world.at + 1 /\ w.head = head
      /\ w.notes = world.notes
  <2>1. /\ world.state \in Conditions
        /\ world.notes \in SUBSET [id : Nat, hook : Hooknames]
    BY <1>1 DEF World
  <2>2. w = [state |-> world.state, head |-> head, notes |-> world.notes,
             at |-> world.at + 1]
    BY <1>1, <1>2 DEF World
  <2> QED  BY <1>1, <2>1, <2>2 DEF World
<1>5. PICK s \in TellsRef(change, w) : line' = line \o s
  BY <1>3 DEF Happens
<1>6. Later(w)  BY <1>4 DEF Later
<1>7. /\ s \in Seq(Delivery) /\ 1 \in DOMAIN s
      /\ \A i \in DOMAIN s : Marks(w, s[i])
      /\ thing = "branch" => \E k \in DOMAIN s : s[k] = Carries("push", w)
  BY <1>1, <1>4, <1>5, <1>6, RefTells
<1>8. \A i \in DOMAIN s :
         DeliveryOK(source, thing, w.at, s[i]) /\ s[i].at = w.at
  BY <1>7 DEF Marks
<1>9. Sends(w, s)  BY <1>3, <1>4, <1>5, <1>7, <1>8 DEF Sends, Happens
<1>10. ASSUME thing = "branch" PROVE BranchOwed(source, w, line', seen)
  <2>1. PICK k \in DOMAIN s : s[k] = Carries("push", w)  BY <1>7, <1>10
  <2>2. Headed(source, "branch", s[k]) = {w.head}
    BY <1>1, <1>6, <1>10, <2>1, PushMarks
  <2>3. \A i \in DOMAIN s : \/ Headed(source, "branch", s[i]) = {w.head}
                            \/ Headed(source, "branch", s[i]) = {} /\ w.head # 0
    BY <1>7, <1>10 DEF Marks
  <2> QED  BY <1>9, <2>2, <2>3, BranchSent
<1>11. ASSUME thing = "tag" PROVE TagOwed(source, w, line', seen)
  <2>1. (source \in {"gitlab", "tencentcode"} => w.head # 0) =>
           \A i \in DOMAIN s : Found(source, "tag", s[i]) = {IsThere(w.head)}
    BY <1>7, <1>11 DEF Marks
  <2> QED  BY <1>7, <1>9, <2>1, TagSent
<1>12. thing # "pipeline"  BY <1>1
<1> QED  BY <1>1, <1>4, <1>9, <1>10, <1>11, <1>12, UntrackedSent

LEMMA RefMadeInv ==
    ASSUME FollowInv, RefMade PROVE FollowInv'
<1>1. world.at \in Nat  BY DEF FollowInv, FollowTypeOK, World
<1>2. IsRef /\ RefTurns("make", world.at + 1)  BY DEF RefMade
<1>3. world.at + 1 \in Nat /\ world.at + 1 # 0  BY <1>1
<1> QED  BY <1>2, <1>3, RefTurnsInv

LEMMA RefMovedInv ==
    ASSUME FollowInv, RefMoved PROVE FollowInv'
<1>1. world.at \in Nat  BY DEF FollowInv, FollowTypeOK, World
<1>2. thing = "branch" /\ IsRef /\ RefTurns("move", world.at + 1)
  BY DEF RefMoved, IsRef
<1>3. world.at + 1 \in Nat /\ world.at + 1 # 0  BY <1>1
<1> QED  BY <1>2, <1>3, RefTurnsInv

LEMMA RefGoneInv ==
    ASSUME FollowInv, RefGone PROVE FollowInv'
<1>1. IsRef /\ RefTurns("drop", 0)  BY DEF RefGone
<1> QED  BY <1>1, RefTurnsInv

LEMMA PipelineEndsInv ==
    ASSUME FollowInv, PipelineEnds PROVE FollowInv'
<1>1. PICK st \in {"success", "failed", "canceled"} :
         LET w == [world EXCEPT !.state = st, !.at = @ + 1]
         IN  Happens(w, {<<Payload("pipeline", "", st, 0, w)>>})
  BY DEF PipelineEnds
<1>2. PICK w : w = [world EXCEPT !.state = st, !.at = @ + 1]  OBVIOUS
<1>3. PICK d : d = Payload("pipeline", "", st, 0, w)  OBVIOUS
<1>4. Happens(w, {<<d>>})  BY <1>1, <1>2, <1>3
<1>5. /\ FollowTypeOK /\ ~Tracked /\ world \in World /\ world.at \in Nat
      /\ thing = "pipeline" /\ source = "gitlab" /\ line \in Seq(Delivery)
  BY DEF FollowInv, FollowTypeOK, PipelineEnds, Tracked, World
<1>6. st \in Conditions  BY DEF Conditions
<1>7. /\ w \in World /\ w.at = world.at + 1 /\ w.state = st
      /\ w.notes = world.notes /\ w.head \in Nat
  <2>1. /\ world.head \in Nat
        /\ world.notes \in SUBSET [id : Nat, hook : Hooknames]
    BY <1>5 DEF World
  <2>2. w = [state |-> st, head |-> world.head, notes |-> world.notes,
             at |-> world.at + 1]
    BY <1>2, <1>5 DEF World
  <2> QED  BY <1>5, <1>6, <2>1, <2>2 DEF World
<1>8. d.hook = "pipeline" /\ d.state = st /\ d.after = w.head
  BY <1>3 DEF Payload
<1>9. PICK e : e = ParseWebhookEvent(source, d)  OBVIOUS
<1>10. e.commit \in Int /\ e.note = 0 /\ Shown(source, thing, d) = Missing
  <2>1. w.head \in Int /\ -1 \in Int /\ thing # "cr"  BY <1>5, <1>7
  <2>2. CASE d.state \in {"failed", "canceled"}
    <3>1. Bare(source, thing, d, "pipeline", d.state, "", d.after)
      BY <1>5, <1>8, <2>1, <2>2, PipelineHeard
    <3> QED  BY <1>8, <1>9, <2>1, <3>1 DEF Bare
  <2>3. CASE d.state \notin {"failed", "canceled"}
    <3>1. Bare(source, thing, d, "", "", "", -1)
      BY <1>5, <1>8, <2>1, <2>3, PipelineHeard
    <3> QED  BY <1>9, <2>1, <3>1 DEF Bare
  <2> QED  BY <2>2, <2>3
<1>11. d.at = w.at /\ DeliveryOK(source, thing, w.at, d)
  <2>1. PICK hook \in Hooknames, act \in Actions, note \in Nat :
           hook = "pipeline" /\ act = "" /\ note = 0
    BY DEF Hooknames, Actions
  <2>2. d = Payload(hook, act, st, note, w)  BY <1>3, <2>1
  <2>3. d \in Delivery /\ d.at = w.at  BY <1>5, <1>6, <1>7, <2>2, PayloadIs
  <2>4. w.at \in Nat /\ d.at \in 1..w.at  BY <1>5, <1>7, <2>3
  <2> QED  BY <1>8, <1>9, <1>10, <2>3, <2>4, BareOK
<1>12. Sends(w, <<d>>) /\ line' = line \o <<d>>
  <2>1. PICK s : s = <<d>>  OBVIOUS
  <2>2. d \in Delivery  BY <1>11 DEF DeliveryOK
  <2>3. s \in Seq(Delivery) /\ \A i \in DOMAIN s : s[i] = d  BY <2>1, <2>2
  <2>4. line' = line \o s  BY <1>4, <2>1 DEF Happens
  <2>5. Sends(w, s)  BY <1>4, <1>7, <1>11, <2>3, <2>4 DEF Sends, Happens
  <2> QED  BY <2>1, <2>4, <2>5
<1>13. PipelineOwed(w, line', seen)
  <2>1. /\ Len(line') = Len(line) + 1 /\ line'[Len(line) + 1] = d
        /\ Len(line) \in Nat
    BY <1>5, <1>12, LineSentOne
  <2>2. line' # << >>
    <3>1. Len(<< >>) = 0  OBVIOUS
    <3> QED  BY <2>1, <3>1
  <2>3. w.state \in {"success", "failed", "canceled"}  BY <1>7
  <2> QED  BY <1>7, <1>8, <2>1, <2>2, <2>3 DEF PipelineOwed
<1> QED  BY <1>5, <1>7, <1>12, <1>13, UntrackedSent

-----------------------------------------------------------------------------
(* The invariant holds at first and is kept, and a picture that nothing is *)
(* owed to is that of the thing.                                           *)
LEMMA FollowStart ==
    ASSUME FollowInit PROVE FollowInv
<1>1. /\ source \in Backends /\ thing \in Things
      /\ thing = "pipeline" => source = "gitlab"
      /\ world = [state |-> "none", head |-> 0, notes |-> {}, at |-> 0]
      /\ line = << >> /\ late = 0
      /\ seen = [said |-> "none", state |-> "none", at |-> 0, head |-> 0,
                 notes |-> {}]
  BY DEF FollowInit
<1>2. /\ world.state = "none" /\ world.head = 0 /\ world.notes = {}
      /\ world.at = 0 /\ seen.said = "none" /\ seen.state = "none"
      /\ seen.at = 0 /\ seen.head = 0 /\ seen.notes = {}
      /\ DOMAIN line = {}
  BY <1>1
<1>3. FollowTypeOK
  <2>1. "none" \in Conditions  BY DEF Conditions
  <2>2. world \in World  BY <1>1, <2>1 DEF World
  <2>3. seen \in Picture  BY <1>1, <2>1 DEF Picture
  <2>4. line \in Seq(Delivery) /\ late \in Nat  BY <1>1
  <2> QED  BY <1>1, <2>2, <2>3, <2>4 DEF FollowTypeOK
<1>4. WorldOK /\ LineOK  BY <1>2 DEF WorldOK, LineOK
<1>5. Told(source, world) = {}  BY <1>2 DEF Told
<1>6. NotesOK  BY <1>5 DEF NotesOK
<1>7. StateOK
  <2>1. 0 \in 0..world.at  BY <1>2
  <2>2. seen.at <= 0 /\ seen.state = world.state  BY <1>2
  <2> QED  BY <1>2, <2>1, <2>2 DEF StateOK
<1>8. ASSUME NEW s, DOMAIN s = {}, NEW x PROVE Owes(s, x, x)
  BY <1>8 DEF Owes
<1>9. TimesOK  BY <1>2 DEF TimesOK
<1>10. TrackedOwed(source, thing, world, line, seen)
  <2>1. /\ Owes([i \in DOMAIN line |-> Said(source, thing, line[i])],
                {seen.said}, {world.state})
        /\ Owes([i \in DOMAIN line |-> Stated(source, thing, line[i])],
                {seen.state}, {world.state})
    BY <1>2, <1>8
  <2>2. 1..world.at = {}  BY <1>2
  <2> QED  BY <1>2, <2>1, <2>2 DEF TrackedOwed
<1>11. BranchOwed(source, world, line, seen)
  <2>1. Owes([i \in DOMAIN line |-> Headed(source, "branch", line[i])],
             {seen.head}, {world.head})
    BY <1>2, <1>8
  <2> QED  BY <1>2, <2>1 DEF BranchOwed
<1>12. TagOwed(source, world, line, seen)
  <2>1. Owes([i \in DOMAIN line |-> Found(source, "tag", line[i])],
             {IsThere(seen.head)}, {IsThere(world.head)})
    BY <1>2, <1>8
  <2> QED  BY <2>1 DEF TagOwed
<1>13. PipelineOwed(world, line, seen)  BY <1>1, <1>2 DEF PipelineOwed
<1> QED  BY <1>3, <1>4, <1>6, <1>7, <1>9, <1>10, <1>11, <1>12, <1>13
         DEF FollowInv, InOrder

LEMMA FollowIdle ==
    ASSUME FollowInv, UNCHANGED followVars PROVE FollowInv'
<1>1. /\ source' = source /\ thing' = thing /\ world' = world /\ line' = line
      /\ seen' = seen /\ late' = late
  BY DEF followVars
<1>2. Tracked' = Tracked /\ NoteHooks' = NoteHooks /\ Timed' = Timed
  BY <1>1 DEF Tracked, NoteHooks, LikeGithub, Timed
<1>3. FollowTypeOK'  BY <1>1 DEF FollowInv, FollowTypeOK
<1>4. WorldOK'  BY <1>1, <1>2 DEF FollowInv, WorldOK
<1>5. LineOK'  BY <1>1 DEF FollowInv, LineOK
<1>6. StateOK'  BY <1>1, <1>2 DEF FollowInv, StateOK
<1>7. NotesOK'  BY <1>1, <1>2 DEF FollowInv, NotesOK
<1>8. InOrder'  BY <1>1, <1>2 DEF FollowInv, InOrder, TimesOK
<1> QED  BY <1>3, <1>4, <1>5, <1>6, <1>7, <1>8 DEF FollowInv

LEMMA FollowStep ==
    ASSUME FollowInv, [FollowNext]_followVars PROVE FollowInv'
<1>1. CASE IsOpened  BY <1>1, IsOpenedInv
<1>2. CASE IsClosed  BY <1>2, IsClosedInv
<1>3. CASE IsReopened  BY <1>3, IsReopenedInv
<1>4. CASE IsMerged  BY <1>4, IsMergedInv
<1>5. CASE IsEdited  BY <1>5, IsEditedInv
<1>6. CASE IsPushed  BY <1>6, IsPushedInv
<1>7. CASE IsCommented  BY <1>7, IsCommentedInv
<1>8. CASE CommentErased  BY <1>8, CommentErasedInv
<1>9. CASE RefMade  BY <1>9, RefMadeInv
<1>10. CASE RefMoved  BY <1>10, RefMovedInv
<1>11. CASE RefGone  BY <1>11, RefGoneInv
<1>12. CASE PipelineEnds  BY <1>12, PipelineEndsInv
<1>13. CASE Deliver  BY <1>13, DeliverInv
<1>14. CASE Overtake  BY <1>14, OvertakeInv
<1>15. CASE Redeliver  BY <1>15, RedeliverInv
<1>16. CASE UNCHANGED followVars  BY <1>16, FollowIdle
<1> QED  BY <1>1, <1>2, <1>3, <1>4, <1>5, <1>6, <1>7, <1>8, <1>9, <1>10,
            <1>11, <1>12, <1>13, <1>14, <1>15, <1>16 DEF FollowNext

LEMMA KeepsUp ==
    ASSUME FollowInv PROVE FollowerKeepsUp
<1> SUFFICES
      ASSUME line = << >>
      PROVE  /\ late = 0 => /\ Tracked => seen.said = world.state
                            /\ RefFollowed
             /\ Tracked /\ (late = 0 \/ Timed) => seen.state = world.state
             /\ Tracked => NotesFollowed
             /\ thing = "pipeline" /\ late = 0 /\ world.state # "success" =>
                    seen.said = world.state
  BY DEF FollowerKeepsUp
<1>1. DOMAIN line = {}  OBVIOUS
<1>2. /\ WorldOK /\ seen.at \in Nat /\ world.at \in Nat /\ source \in Backends
      /\ seen.head \in Int /\ world.head \in Nat
  BY DEF FollowInv, FollowTypeOK, Picture, World
<1>3. ASSUME NEW s, DOMAIN s = DOMAIN line, NEW x, NEW y, Owes(s, x, y)
      PROVE  x = y
  BY <1>1, <1>3 DEF Owes
<1>4. ASSUME late = 0, Tracked
      PROVE  /\ seen.said = world.state /\ seen.state = world.state
             /\ \A n \in 1..world.at :
                   seen.notes \cap {n} = Told(source, world) \cap {n}
             /\ seen.notes \subseteq 1..world.at
  <2>1. TrackedOwed(source, thing, world, line, seen)
    BY <1>4 DEF FollowInv, InOrder
  <2>2. {seen.said} = {world.state}
    <3>1. PICK s : s = [i \in DOMAIN line |-> Said(source, thing, line[i])]
      OBVIOUS
    <3> QED  BY <1>3, <2>1, <3>1 DEF TrackedOwed
  <2>3. {seen.state} = {world.state}
    <3>1. PICK s : s = [i \in DOMAIN line |-> Stated(source, thing, line[i])]
      OBVIOUS
    <3> QED  BY <1>3, <2>1, <3>1 DEF TrackedOwed
  <2>4. ASSUME NEW n \in 1..world.at
        PROVE  {seen.notes \cap {n}} = {Told(source, world) \cap {n}}
    <3>1. PICK s : s = [i \in DOMAIN line |-> Noted(source, thing, n, line[i])]
      OBVIOUS
    <3> QED  BY <1>3, <2>1, <3>1 DEF TrackedOwed
  <2>5. ASSUME NEW n \in 1..world.at
        PROVE  seen.notes \cap {n} = Told(source, world) \cap {n}
    <3>1. PICK x, y : x = seen.notes \cap {n} /\ y = Told(source, world) \cap {n}
      OBVIOUS
    <3>2. {x} = {y}  BY <2>4, <3>1
    <3> QED  BY <3>1, <3>2
  <2>6. seen.notes \subseteq 1..world.at  BY <2>1 DEF TrackedOwed
  <2> QED  BY <2>2, <2>3, <2>5, <2>6
<1>5. ASSUME late = 0 PROVE RefFollowed
  <2>1. ASSUME thing = "branch" PROVE seen.head = world.head
    <3>1. BranchOwed(source, world, line, seen)
      BY <1>5, <2>1 DEF FollowInv, InOrder
    <3>2. PICK s : s = [i \in DOMAIN line |-> Headed(source, "branch", line[i])]
      OBVIOUS
    <3>3. {seen.head} = {world.head}  BY <1>3, <3>1, <3>2 DEF BranchOwed
    <3> QED  BY <3>3
  <2>2. ASSUME thing = "tag", LikeGitlab => world.head # 0
        PROVE  (seen.head = 0) = (world.head = 0)
    <3>1. TagOwed(source, world, line, seen)
      BY <1>5, <2>2 DEF FollowInv, InOrder
    <3>2. PICK s : s = [i \in DOMAIN line |-> Found(source, "tag", line[i])]
      OBVIOUS
    <3>3. {IsThere(seen.head)} = {IsThere(world.head)}
      BY <1>3, <2>2, <3>1, <3>2 DEF TagOwed, LikeGitlab
    <3> QED  BY <1>2, <3>3 DEF IsThere
  <2> QED  BY <2>1, <2>2 DEF RefFollowed
<1>6. ASSUME Tracked, Timed PROVE seen.state = world.state
  BY <1>1, <1>6 DEF FollowInv, StateOK
<1>7. ASSUME Tracked PROVE NotesFollowed
  <2>1. Told(source, world) \subseteq seen.notes
    BY <1>1, <1>7 DEF FollowInv, NotesOK
  <2>2. ASSUME late = 0 PROVE seen.notes = Told(source, world)
    <3>1. ASSUME NEW n \in seen.notes PROVE n \in Told(source, world)
      BY <1>4, <1>7, <2>2, <3>1
    <3> QED  BY <2>1, <3>1
  <2> QED  BY <2>1, <2>2 DEF NotesFollowed, Told
<1>8. ASSUME thing = "pipeline", late = 0, world.state # "success"
      PROVE  seen.said = world.state
  BY <1>8 DEF FollowInv, InOrder, PipelineOwed
<1> QED  BY <1>4, <1>5, <1>6, <1>7, <1>8

(* After any changes, and whatever overtook or came again, what is on its  *)
(* way makes the picture what the thing is.                                *)
THEOREM FollowInvCorrect == FollowSpec => []FollowInv
<1>1. FollowInit => FollowInv  BY FollowStart
<1>2. FollowInv /\ [FollowNext]_followVars => FollowInv'  BY FollowStep
<1> QED  BY <1>1, <1>2, PTL DEF FollowSpec

(* When everything that the platform sent has arrived, a program that      *)
(* follows a thing by the types of provider/webhook.go has it as it is, on *)
(* each of the seven backends.                                             *)
THEOREM FollowerKeepsUpCorrect == FollowSpec => []FollowerKeepsUp
<1>1. FollowInv => FollowerKeepsUp  BY KeepsUp
<1> QED  BY <1>1, FollowInvCorrect, PTL
=============================================================================
