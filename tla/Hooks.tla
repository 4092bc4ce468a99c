------------------------------- MODULE Hooks --------------------------------
(***************************************************************************)
(* ParseWebhookEvent of the seven backends: the event that a payload of    *)
(* the platform is turned into.                                            *)
(*                                                                         *)
(* A payload d has the hook it came by, the platform's words d.action and  *)
(* d.state, whether the change request is merged, the kind of ref, the     *)
(* commit after it (0 is the commit of a ref that is gone), a comment (0   *)
(* is none), the time at which its issue or change request was updated,    *)
(* and which of them it is about.  An event's type is kind.act.  On GitLab,*)
(* Gitee, GitCode and Tencent Code an event has the words of a comment but *)
(* no id, so there d.note stands for its words, and no two comments are    *)
(* taken to have the same.                                                 *)
(***************************************************************************)
EXTENDS Requests

Missing == [there |-> FALSE, state |-> "", at |-> 0]
Object(state, at) == [there |-> TRUE, state |-> state, at |-> at]

(* An event says nothing of the commit where it is -1.                     *)
Event(kind, act) ==
    [kind |-> kind, act |-> act, ref |-> "", commit |-> -1, note |-> 0,
     cr |-> Missing, issue |-> Missing]
PushEvent(d) == [Event("push", "") EXCEPT !.ref = "branch", !.commit = d.after]
RefEvent(d, act) == [Event(d.ref, act) EXCEPT !.ref = d.ref]
TagCreated == [Event("tag", "created") EXCEPT !.ref = "tag"]
CommentCreated(d) == [Event("comment", "created") EXCEPT !.note = d.note]
NoEvent == Event("", "")

-----------------------------------------------------------------------------
(* Mutant: a change request that was merged is closed.                     *)
NormalizeCRActionUnmerged(action, merged) ==
    CASE action \in {"opened", "open"} -> "opened"
      [] action \in {"closed", "close"} -> "closed"
      [] action \in {"merged", "merge"} -> "merged"
      [] action \in {"reopened", "reopen"} -> "reopened"
      [] action \in {"synchronize", "sync", "edited", "edit", "update"} ->
            "updated"
      [] OTHER -> action
NormalizeCRAction(action, merged) ==
    CASE action \in {"opened", "open"} -> "opened"
      [] action \in {"closed", "close"} ->
            IF merged THEN "merged" ELSE "closed"
      [] action \in {"merged", "merge"} -> "merged"
      [] action \in {"reopened", "reopen"} -> "reopened"
      [] action \in {"synchronize", "sync", "edited", "edit", "update"} ->
            "updated"
      [] OTHER -> action

NormalizeIssueAction(action) ==
    CASE action \in {"opened", "open"} -> "opened"
      [] action \in {"closed", "close"} -> "closed"
      [] action \in {"reopened", "reopen"} -> "reopened"
      [] action \in {"edited", "edit", "updated", "update"} -> "updated"
      [] OTHER -> action

(* With the merged flag where the platform has one, FALSE elsewhere.       *)
MapStateToCR(state, merged) ==
    CASE state = "merged" -> "merged"
      [] state = "closed" -> IF merged THEN "merged" ELSE "closed"
      [] OTHER -> "opened"

-----------------------------------------------------------------------------
(* GitHub: the event of a comment carries none, but the one of a comment   *)
(* on the diff does.                                                       *)
GithubConvertPR(d) ==
    Object(CASE d.state # "closed" -> "opened"
             [] d.merged -> "merged"
             [] OTHER -> "closed", d.at)
GithubCommentAction(action) == IF action = "" THEN "created" ELSE action

GithubEvent(d) ==
    CASE d.hook = "pull_request" ->
            [Event("cr", NormalizeCRAction(d.action, d.merged)) EXCEPT
                !.cr = GithubConvertPR(d), !.commit = d.after]
      [] d.hook = "push" -> PushEvent(d)
      [] d.hook = "issues" ->
            [Event("issue", NormalizeIssueAction(d.action)) EXCEPT
                !.issue = Object(d.state, d.at)]
      [] d.hook = "issue_comment" ->
            [Event("comment", GithubCommentAction(d.action)) EXCEPT
                !.issue = Object(d.state, d.at),
                !.cr = IF d.on = "cr" THEN Object("", 0) ELSE Missing]
      [] d.hook = "pull_request_review_comment" ->
            [Event("comment", GithubCommentAction(d.action)) EXCEPT
                !.cr = GithubConvertPR(d), !.note = d.note]
      [] d.hook = "create" -> RefEvent(d, "created")
      [] d.hook = "delete" -> RefEvent(d, "deleted")
      [] OTHER -> Event(d.hook, "")

-----------------------------------------------------------------------------
(* GitLab: of pipelines only those that failed or were canceled.           *)
GitlabIssueState(state) ==
    CASE state = "closed" -> "closed"
      [] state \in {"opened", "reopened", ""} -> "open"
      [] OTHER -> state

GitlabEvent(d) ==
    CASE d.hook = "merge_request" ->
            LET state == MapStateToCR(d.state, FALSE)
            IN  [Event("cr", NormalizeCRAction(d.action, state = "merged"))
                    EXCEPT !.cr = Object(state, d.at), !.commit = d.after]
      [] d.hook = "push" -> PushEvent(d)
      [] d.hook = "tag_push" -> TagCreated
      [] d.hook = "pipeline" /\ d.state \in {"failed", "canceled"} ->
            [Event("pipeline", d.state) EXCEPT !.commit = d.after]
      [] d.hook = "pipeline" /\ d.state \notin {"failed", "canceled"} ->
            NoEvent
      [] d.hook = "note" /\ d.on = "cr" ->
            [CommentCreated(d) EXCEPT !.cr = Object("", 0)]
      [] d.hook = "note" /\ d.on = "issue" ->
            [CommentCreated(d) EXCEPT
                !.issue = Object(GitlabIssueState(d.state), d.at)]
      [] d.hook = "issue" ->
            [Event("issue", NormalizeIssueAction(d.action)) EXCEPT
                !.issue = Object(GitlabIssueState(d.state), d.at)]
      [] OTHER -> NoEvent

-----------------------------------------------------------------------------
(* Gitea and Forgejo: a change request in the hook of an issue is there    *)
(* besides the issue.                                                      *)
GiteaAttachIssue(e, d) ==
    [e EXCEPT
        !.issue = Object(IF d.state = "closed" THEN "closed" ELSE "open", d.at),
        !.cr = IF d.on = "cr" THEN Object("", 0) ELSE Missing]
GiteaEvent(d) ==
    CASE d.hook = "pull_request" ->
            [Event("cr", NormalizeCRAction(d.action, d.merged)) EXCEPT
                !.cr = Object(MapStateToCR(d.state, d.merged), d.at),
                !.commit = d.after]
      [] d.hook = "push" -> PushEvent(d)
      [] d.hook = "tag_push" -> [TagCreated EXCEPT !.commit = d.after]
      [] d.hook = "create" -> RefEvent(d, "created")
      [] d.hook = "delete" -> RefEvent(d, "deleted")
      [] d.hook = "issues" ->
            GiteaAttachIssue(Event("issue", NormalizeIssueAction(d.action)), d)
      [] d.hook = "issue_comment" -> GiteaAttachIssue(CommentCreated(d), d)
      [] OTHER -> NoEvent

ForgejoAttachIssue(e, d) == GiteaAttachIssue(e, d)
ForgejoEvent(d) == GiteaEvent(d)

-----------------------------------------------------------------------------
(* Gitee: an issue that a comment is on comes without its state.           *)
GiteeEvent(d) ==
    CASE d.hook = "pull_request" ->
            LET merged == d.state = "merged"
            IN  [Event("cr", NormalizeCRAction(d.action, merged)) EXCEPT
                    !.cr = Object(MapStateToCR(d.state, merged), d.at)]
      [] d.hook = "push" -> PushEvent(d)
      [] d.hook = "tag_push" -> [TagCreated EXCEPT !.commit = d.after]
      [] d.hook \in {"note", "comment"} /\ d.on = "cr" ->
            [CommentCreated(d) EXCEPT !.cr = Object("", 0)]
      [] d.hook \in {"note", "comment"} /\ d.on = "issue" ->
            [CommentCreated(d) EXCEPT !.issue = Object("", d.at)]
      [] d.hook = "Issue Hook" ->
            [Event("issue", NormalizeIssueAction(d.action)) EXCEPT !.issue =
                Object(IF d.state \in {"closed", "rejected"} THEN "closed"
                       ELSE "open", d.at)]
      [] OTHER -> NoEvent

-----------------------------------------------------------------------------
(* GitCode: no issue carries a time.                                       *)
GitcodeConvertPullRequest(d) ==
    Object(CASE d.state # "closed" -> "opened"
             [] d.merged -> "merged"
             [] OTHER -> "closed", d.at)
GitcodeAttachIssue(e, d) ==
    [e EXCEPT
        !.issue = Object(IF d.state = "closed" THEN "closed" ELSE "open", 0),
        !.cr = IF d.on = "cr" THEN Object("", 0) ELSE Missing]
GitcodeEvent(d) ==
    CASE d.hook = "pull_request" ->
            [Event("cr", NormalizeCRAction(d.action, d.merged)) EXCEPT
                !.cr = GitcodeConvertPullRequest(d), !.commit = d.after]
      [] d.hook = "push" -> PushEvent(d)
      [] d.hook = "tag_push" -> [TagCreated EXCEPT !.commit = d.after]
      [] d.hook = "create" -> RefEvent(d, "created")
      [] d.hook = "delete" -> RefEvent(d, "deleted")
      [] d.hook = "issues" ->
            GitcodeAttachIssue(Event("issue", NormalizeIssueAction(d.action)), d)
      [] d.hook = "issue_comment" -> GitcodeAttachIssue(CommentCreated(d), d)
      [] OTHER -> Event(d.hook, "")

-----------------------------------------------------------------------------
(* Tencent Code: the hooks of GitLab, but no issue carries a time, and one *)
(* that a comment is on comes without its state.                           *)
TencentcodeIssueState(state) == GitlabIssueState(state)
TencentcodeEvent(d) ==
    CASE d.hook = "merge_request" ->
            LET state == MapStateToCR(d.state, FALSE)
            IN  [Event("cr", NormalizeCRAction(d.action, state = "merged"))
                    EXCEPT !.cr = Object(state, d.at), !.commit = d.after]
      [] d.hook = "push" -> PushEvent(d)
      [] d.hook = "tag_push" -> TagCreated
      [] d.hook = "issue" ->
            [Event("issue", NormalizeIssueAction(d.action)) EXCEPT
                !.issue = Object(TencentcodeIssueState(d.state), 0)]
      [] d.hook = "note" ->
            [CommentCreated(d) EXCEPT ![d.on] = Object("", 0)]
      [] OTHER -> NoEvent

ParseWebhookEvent(b, d) ==
    CASE b = "github" -> GithubEvent(d)
      [] b = "gitlab" -> GitlabEvent(d)
      [] b = "gitea" -> GiteaEvent(d)
      [] b = "forgejo" -> ForgejoEvent(d)
      [] b = "gitee" -> GiteeEvent(d)
      [] b = "gitcode" -> GitcodeEvent(d)
      [] b = "tencentcode" -> TencentcodeEvent(d)
=============================================================================
