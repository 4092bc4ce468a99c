------------------------------- MODULE Follow -------------------------------
(***************************************************************************)
(* A program that follows one thing of a repository by its webhooks, as    *)
(* the vocabulary of event types in provider/webhook.go is meant for: it   *)
(* switches on the type, without knowing the platform.  Deliveries may     *)
(* overtake each other or come again.                                      *)
(***************************************************************************)
EXTENDS Hooks, FiniteSetsExt

CONSTANTS
    Things,       \* what is followed
    MaxChanges,   \* bound: changes of it
    MaxLate       \* bound: deliveries that overtake or come again

ASSUME FollowAssumption ==
    /\ Things \subseteq {"nothing", "issue", "cr", "branch", "tag", "pipeline"}
    /\ MaxChanges \in Nat /\ MaxLate \in Nat

VARIABLES
    source,  \* the backend
    thing,
    world,   \* the thing: its state, head, comments and the number of changes
    line,    \* deliveries on their way
    seen,    \* the follower's picture: the state that types and the one that
             \* objects say, the time of the latest object, head, comments
    late     \* deliveries that overtook or came again

followVars == <<source, thing, world, line, seen, late>>

(* The platforms with GitHub's hooks, and with GitLab's.                   *)
LikeGithub == source \in {"github", "gitea", "forgejo", "gitcode"}
LikeGitlab == source \in {"gitlab", "tencentcode"}

FollowInit ==
    /\ source \in Backends
    /\ thing \in Things
    /\ thing = "pipeline" => source = "gitlab"
    /\ world = [state |-> "none", head |-> 0, notes |-> {}, at |-> 0]
    /\ line = << >>
    /\ seen = [said |-> "none", state |-> "none", at |-> 0, head |-> 0,
               notes |-> {}]
    /\ late = 0

-----------------------------------------------------------------------------
(* What the platforms send of a change, in the words that the backends     *)
(* translate: from the comments in provider/webhook.go, the golden files   *)
(* and what the switches of ParseWebhookEvent distinguish.                 *)
Word(change) ==
    LET words == IF LikeGithub
                 THEN [open |-> "opened", close |-> "closed",
                       merge |-> "closed", reopen |-> "reopened",
                       edit |-> "edited", push |-> "synchronize"]
                 ELSE [open |-> "open", close |-> "close", merge |-> "merge",
                       reopen |-> "reopen", edit |-> "update",
                       push |-> "update"]
    IN  IF change = "merge" /\ source = "gitee" THEN {"merge", "close"}
        ELSE CASE change \in DOMAIN words -> {words[change]}
               [] change = "erase" -> {"deleted"}
               [] OTHER -> {"created"}

Raw(w) ==
    CASE w.state = "merged" -> IF LikeGithub THEN {"closed"} ELSE {"merged"}
      [] w.state \in {"open", "opened"} ->
            {IF LikeGitlab THEN "opened" ELSE "open"}
      [] w.state = "closed" /\ source = "gitee" /\ thing = "issue" ->
            {"closed", "rejected"}
      [] OTHER -> {w.state}

HookOf ==
    CASE thing = "issue" -> CASE LikeGithub -> "issues"
                              [] LikeGitlab -> "issue"
                              [] OTHER -> "Issue Hook"
      [] OTHER -> IF LikeGitlab THEN "merge_request" ELSE "pull_request"
NoteHooks ==
    IF LikeGithub
    THEN {"issue_comment"} \cup IF source = "github" /\ thing = "cr"
                               THEN {"pull_request_review_comment"} ELSE {}
    ELSE {"note"}

Payload(hook, action, state, note, w) ==
    [hook |-> hook, action |-> action, state |-> state,
     merged |-> w.state = "merged", ref |-> thing, after |-> w.head,
     note |-> note, at |-> w.at, on |-> thing]

(* Of an issue or a change request, or of a comment on it.                 *)
Tells(change, hook, note, w) ==
    {<<Payload(hook, a, s, note, w)>> : a \in Word(change), s \in Raw(w)}
(* Of a ref: GitHub and the platforms like it have hooks of their own for  *)
(* its beginning and its end, in which it has no commit, and may also send *)
(* the push; Gitee and the platforms like GitLab send the push alone.      *)
TellsRef(change, w) ==
    LET hook(h) == Payload(h, "", "", 0, w)
        push == IF thing = "tag" THEN hook("tag_push") ELSE hook("push")
        own == IF change = "make" THEN hook("create") ELSE hook("delete")
    IN  IF change = "move" \/ ~LikeGithub THEN {<<push>>}
        ELSE IF thing = "tag"
        THEN {<<own>>} \cup IF change = "make" /\ source # "github"
                            THEN {<<push>>} ELSE {}
        ELSE {<<own, push>>, <<push, own>>}

-----------------------------------------------------------------------------
(* Changes: w is the thing then, told what may be sent of it.              *)
Happens(w, told) ==
    /\ world.at < MaxChanges
    /\ world' = w
    /\ \E s \in told : line' = line \o s
    /\ UNCHANGED <<source, thing, seen, late>>

Tracked == thing \in {"issue", "cr"}
IsRef == thing \in {"branch", "tag"}
Open == IF thing = "cr" THEN "opened" ELSE "open"

Turns(change, from, to) ==
    /\ Tracked /\ world.state \in from
    /\ LET w == [world EXCEPT !.state = to, !.at = @ + 1]
       IN  Happens(w, Tells(change, HookOf, 0, w))

IsOpened == Turns("open", {"none"}, Open)
IsClosed == Turns("close", {Open}, "closed")
IsReopened == Turns("reopen", {"closed"}, Open)
IsMerged == thing = "cr" /\ Turns("merge", {Open}, "merged")
IsEdited == Turns("edit", {Open, "closed", "merged"}, world.state)
IsPushed == thing = "cr" /\ Turns("push", {Open}, world.state)

(* A comment counts as an update.  Only GitHub tells when it is deleted.   *)
IsCommented ==
    /\ Tracked /\ world.state # "none"
    /\ \E h \in NoteHooks :
          LET n == world.at + 1
              w == [world EXCEPT !.notes = @ \cup {[id |-> n, hook |-> h]},
                                 !.at = n]
          IN  Happens(w, Tells("comment", h, n, w))
CommentErased ==
    /\ source = "github"
    /\ \E n \in world.notes :
          LET w == [world EXCEPT !.notes = @ \ {n}, !.at = @ + 1]
          IN  Happens(w, Tells("erase", n.hook, n.id, w))

RefTurns(change, head) ==
    LET w == [world EXCEPT !.head = head, !.at = @ + 1]
    IN  Happens(w, TellsRef(change, w))
RefMade == IsRef /\ world.head = 0 /\ RefTurns("make", world.at + 1)
RefMoved == thing = "branch" /\ world.head # 0 /\ RefTurns("move", world.at + 1)
RefGone == IsRef /\ world.head # 0 /\ RefTurns("drop", 0)

PipelineEnds ==
    /\ thing = "pipeline"
    /\ \E s \in {"success", "failed", "canceled"} :
          LET w == [world EXCEPT !.state = s, !.at = @ + 1]
          IN  Happens(w, {<<Payload("pipeline", "", s, 0, w)>>})

-----------------------------------------------------------------------------
(* The follower.  An event whose object is older than one before changes   *)
(* nothing but the comments, and an object without a state tells nothing.  *)
(* A ref of which no commit is known is at -1.                             *)
Says(e) ==
    IF e.kind # thing THEN seen.said
    ELSE CASE e.act \in {"opened", "reopened"} -> Open
           [] e.act \in {"closed", "merged", "failed", "canceled"} -> e.act
           [] OTHER -> seen.said

HeadAfter(e) ==
    IF e.ref # thing THEN seen.head
    ELSE CASE e.act = "deleted" -> 0
           [] e.act # "deleted" /\ e.commit = -1 ->
                 IF seen.head = 0 THEN -1 ELSE seen.head
           [] OTHER -> e.commit

NotesAfter(e) ==
    LET about == CASE e.cr.there -> "cr"
                   [] e.issue.there /\ ~e.cr.there -> "issue"
                   [] OTHER -> ""
    IN  IF about # thing \/ e.kind # "comment" THEN seen.notes
        ELSE CASE e.act = "created" -> seen.notes \cup ({e.note} \ {0})
               [] e.act = "deleted" -> seen.notes \ {e.note}
               [] OTHER -> seen.notes

Hear(d) ==
    LET e == ParseWebhookEvent(source, d)
        o == IF thing = "cr" THEN e.cr ELSE e.issue
    IN  seen' = IF o.at # 0 /\ o.at < seen.at
                THEN [seen EXCEPT !.notes = NotesAfter(e)]
                ELSE [said |-> Says(e), head |-> HeadAfter(e),
                      notes |-> NotesAfter(e),
                      state |-> IF o.state = "" THEN seen.state ELSE o.state,
                      at |-> IF o.state = "" THEN seen.at ELSE Max({seen.at, o.at})]

Deliver ==
    /\ line # << >>
    /\ Hear(Head(line))
    /\ line' = Tail(line)
    /\ UNCHANGED <<source, thing, world, late>>
Overtake ==
    /\ Len(line) > 1 /\ late < MaxLate
    /\ Hear(line[2])
    /\ line' = <<line[1]>> \o SubSeq(line, 3, Len(line))
    /\ late' = late + 1
    /\ UNCHANGED <<source, thing, world>>
Redeliver ==
    /\ line # << >> /\ late < MaxLate
    /\ Hear(Head(line))
    /\ line' = Append(Tail(line), Head(line))
    /\ late' = late + 1
    /\ UNCHANGED <<source, thing, world>>

FollowNext ==
    \/ IsOpened \/ IsClosed \/ IsReopened \/ IsMerged \/ IsEdited \/ IsPushed
    \/ IsCommented \/ CommentErased \/ RefMade \/ RefMoved \/ RefGone
    \/ PipelineEnds \/ Deliver \/ Overtake \/ Redeliver

FollowSpec == FollowInit /\ [][FollowNext]_followVars

-----------------------------------------------------------------------------
(* The issues of GitCode and Tencent Code carry no time.                   *)
Timed == thing = "issue" => source \notin {"gitcode", "tencentcode"}

(* GitHub's comments carry no text, unless they are on the diff.           *)
NotesFollowed ==
    LET told == {n.id : n \in {x \in world.notes :
                    source = "github" => x.hook # "issue_comment"}}
    IN  IF late = 0 THEN seen.notes = told ELSE told \subseteq seen.notes

(* GitLab and Tencent Code tell of a tag that goes as of one that comes.   *)
RefFollowed ==
    /\ thing = "branch" => seen.head = world.head
    /\ thing = "tag" /\ ~LikeGitlab => (seen.head = 0) = (world.head = 0)
    /\ thing = "tag" /\ world.head # 0 => seen.head # 0

(* When everything that was sent has arrived, a follower has the thing as  *)
(* it is, on every platform: by the types of the events, while nothing     *)
(* overtook; by the state and the time of the objects, whatever did.       *)
FollowerKeepsUp ==
    line = << >> =>
        /\ late = 0 => /\ Tracked => seen.said = world.state
                       /\ RefFollowed
        /\ Tracked /\ (late = 0 \/ Timed) => seen.state = world.state
        /\ Tracked => NotesFollowed
        /\ thing = "pipeline" /\ late = 0 /\ world.state # "success" =>
               seen.said = world.state
=============================================================================
