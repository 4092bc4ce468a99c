---------------------------- MODULE PostRequests -----------------------------
(***************************************************************************)
(* The requests of the seven backends about what people and programs leave *)
(* on a repository: comments, reviews, reactions, notifications, branches, *)
(* collaborators, commit statuses, and repositories themselves.            *)
(***************************************************************************)
EXTENDS Requests

(* A post of a kind, with its text and state; one whose failure is logged; *)
(* one that replaces the others of its kind; a review in one request with  *)
(* its inline comments.                                                    *)
PostAs(kind, text, state) ==
    [do |-> "post", kind |-> kind, text |-> text, state |-> state,
     tolerated |-> FALSE, over |-> FALSE, inline |-> FALSE]
Post(kind, text) == PostAs(kind, text, "")
Try(kind, text) == [Post(kind, text) EXCEPT !.tolerated = TRUE]
PostOver(kind, text) == [Post(kind, text) EXCEPT !.over = TRUE]

(* Another text for the post that the call names.                          *)
Put(text) == [do |-> "put", text |-> text]

(* The post the call names is taken away, whether or not it is still there *)
(* when gone is "fine"; or the caller's own approval; or the caller's      *)
(* reaction with the emoji of the first listed one of the user named.      *)
Take(gone) == [do |-> "take", which |-> "named", gone |-> gone]
TakeApproval == [do |-> "take", which |-> "approval", gone |-> "refused"]
TakeFirst == [do |-> "take", which |-> "first", gone |-> "refused"]

(* A list, page after page until one is empty, or one request for all or   *)
(* for the first page.                                                     *)
Page(n) == [do |-> "page", n |-> n]
Whole == [do |-> "whole", first |-> FALSE]
FirstOnly == [do |-> "whole", first |-> TRUE]
Return == [do |-> "return"]
Pages == <<Page(1), Return>>

(* One post: the one the call names, or the first of a list.               *)
Find(which) == [do |-> "find", which |-> which]

(* Reads whose failure is ignored: of the lines of a diff, with the number *)
(* of requests that fall with it, and of anything else.                    *)
Hunks(lost) == [do |-> "hunks", lost |-> lost]
Glance == [do |-> "glance"]

(* The repositories of one owner, walked page by page until one is empty:  *)
(* where the pages are the platform's own, where they are pages of all     *)
(* repositories, sifted after the answer, and where every page is whole.   *)
Walk(pages, owner) == [do |-> "walk", pages |-> pages, owner |-> owner, n |-> 1]

(* Notifications are marked up to the last one seen, all of them, or one.  *)
Mark(which) == [do |-> "mark", which |-> which]

(* The head of a branch is read; a branch is made of what was read, or of  *)
(* the head as it is.                                                      *)
Head1 == [do |-> "head"]
Fork(from, name) == [do |-> "fork", from |-> from, name |-> name]

(* A call's requests, and those it falls back to when one of them fails.   *)
Refused == [first |-> <<Unsupported>>, spare |-> <<>>]
Plan(first) == [first |-> first, spare |-> <<>>]
PlanOr(first, spare) == [first |-> first, spare |-> spare]

-----------------------------------------------------------------------------
(* Create, Update and ListIssueComment(s).                                 *)
IssueComment(op, o) ==
    CASE op = "comment" -> <<Post("note", o.text)>>
      [] op = "editcomment" -> <<Put(o.text)>>
      [] op = "listcomments" -> Pages
GithubIssueComment(op, o) == IssueComment(op, o)
GitlabIssueComment(op, o) == IssueComment(op, o)
GiteaIssueComment(op, o) == IssueComment(op, o)
ForgejoIssueComment(op, o) == IssueComment(op, o)
GiteeIssueComment(op, o) == IssueComment(op, o)
GitcodeIssueComment(op, o) == IssueComment(op, o)
TencentcodeIssueComment(op, o) == IssueComment(op, o)

(* CreateNote, DeleteNote, CreateDiscussion: some discussions lose their   *)
(* place in the diff, and some deletes of what is gone succeed.            *)
GithubNote(op, o) ==
    CASE op = "note" -> <<Post("note", o.text)>>
      [] op = "discuss" -> <<Post("inline", o.text)>>
      [] op = "deletenote" -> <<Take("refused")>>
GitlabNote(op, o) ==
    CASE op = "note" -> <<Post("note", o.text)>>
      [] op = "discuss" -> <<Post("inline", o.text)>>
      [] op = "deletenote" -> <<Take("refused")>>
GiteaNote(op, o) ==
    CASE op \in {"note", "discuss"} -> <<Post("note", o.text)>>
      [] op = "deletenote" -> <<Take("fine")>>
ForgejoNote(op, o) ==
    CASE op \in {"note", "discuss"} -> <<Post("note", o.text)>>
      [] op = "deletenote" -> <<Take("fine")>>
GiteeNote(op, o) ==
    CASE op \in {"note", "discuss"} -> <<Post("note", o.text)>>
      [] op = "deletenote" -> <<Take("refused")>>
GitcodeNote(op, o) ==
    CASE op \in {"note", "discuss"} -> <<Post("note", o.text)>>
      [] op = "deletenote" -> <<Take("refused")>>
TencentcodeNote(op, o) ==
    CASE op = "note" -> <<Post("note", o.text)>>
      [] op = "discuss" -> <<Post("inline", o.text)>>
      [] op = "deletenote" -> <<Take("refused")>>

(* UpdateNote and ListNotes, which only GitLab has.                        *)
GitlabNoteManager(op, o) ==
    CASE op = "editnote" -> <<Put(o.text)>>
      [] op = "listnotes" -> Pages

CommentCall(b, op, o) ==
    CASE op \in {"comment", "editcomment", "listcomments"} ->
            Plan(CASE b = "github" -> GithubIssueComment(op, o)
                   [] b = "gitlab" -> GitlabIssueComment(op, o)
                   [] b = "gitea" -> GiteaIssueComment(op, o)
                   [] b = "forgejo" -> ForgejoIssueComment(op, o)
                   [] b = "gitee" -> GiteeIssueComment(op, o)
                   [] b = "gitcode" -> GitcodeIssueComment(op, o)
                   [] b = "tencentcode" -> TencentcodeIssueComment(op, o))
      [] op \in {"note", "discuss", "deletenote"} ->
            Plan(CASE b = "github" -> GithubNote(op, o)
                   [] b = "gitlab" -> GitlabNote(op, o)
                   [] b = "gitea" -> GiteaNote(op, o)
                   [] b = "forgejo" -> ForgejoNote(op, o)
                   [] b = "gitee" -> GiteeNote(op, o)
                   [] b = "gitcode" -> GitcodeNote(op, o)
                   [] b = "tencentcode" -> TencentcodeNote(op, o))
      [] op \in {"editnote", "listnotes"} ->
            IF b = "gitlab" THEN Plan(GitlabNoteManager(op, o)) ELSE Refused

-----------------------------------------------------------------------------
(* CreateReview, RequestReviewers, DismissReview, ListReviews, GetReview.  *)
(* The inline comments of a review lie in its diff, elsewhere, or there    *)
(* are none ("in", "out", "none").  ReviewWord is the platform's word for  *)
(* the event of a review, ConvertReview what is shown of the word.         *)
ReviewAtOnce(o, word) ==
    <<[PostAs("review", o.text, word) EXCEPT !.inline = (o.inline # "none")]>>

(* The event goes as it is and comes back as a state.                      *)
Evented == [APPROVE |-> "APPROVED", REQUEST_CHANGES |-> "CHANGES_REQUESTED",
            COMMENT |-> "COMMENTED"]
GithubConvertReview ==
    [APPROVED |-> "approved", CHANGES_REQUESTED |-> "changes_requested",
     COMMENTED |-> "commented"]
GitcodeConvertReview ==
    [APPROVED |-> "approved", CHANGES_REQUESTED |-> "changes_requested",
     COMMENTED |-> "commented"]

GithubReview(op, o) ==
    CASE op = "review" -> Plan(ReviewAtOnce(o, Evented[o.event]))
      [] op = "request" -> Plan(<<Post("request", o.text)>>)
      [] op = "dismiss" -> Plan(<<Take("refused")>>)
      [] op = "listreviews" -> Plan(Pages)
      [] op = "getreview" -> Plan(<<Find("named"), Return>>)

GiteaReviewWord ==
    [APPROVE |-> "APPROVED", REQUEST_CHANGES |-> "REQUEST_CHANGES",
     COMMENT |-> "COMMENT"]
GiteaConvertReview ==
    [APPROVED |-> "approved", REQUEST_CHANGES |-> "changes_requested",
     COMMENT |-> "commented"]

GiteaReview(op, o) ==
    CASE op = "review" -> Plan(ReviewAtOnce(o, GiteaReviewWord[o.event]))
      [] op = "request" -> Plan(<<Post("request", o.text)>>)
      [] op = "dismiss" -> Plan(<<Take("refused")>>)
      [] op = "listreviews" -> Plan(Pages)
      [] op = "getreview" -> Plan(<<Find("named"), Return>>)

ForgejoReview(op, o) == GiteaReview(op, o)
ForgejoConvertReview == GiteaConvertReview

(* A note and discussions instead of a review, and the approvals instead   *)
(* of the reviews, the first one when one is asked for; the event is lost. *)
(* Any failure on the way with inline comments starts over with the note   *)
(* alone.                                                                  *)
GitlabNoteReview(o) == <<Post("note", o.text)>>
GitlabReviewWithComments(o) ==
    IF o.inline = "in"
    THEN <<LookUp, Hunks(1), Try("inline", o.text)>> \o GitlabNoteReview(o)
    ELSE <<LookUp, Hunks(0)>> \o GitlabNoteReview(o)

GitlabReview(op, o) ==
    CASE op = "review" ->
            IF o.inline = "none" THEN Plan(GitlabNoteReview(o))
            ELSE PlanOr(GitlabReviewWithComments(o), GitlabNoteReview(o))
      [] op = "request" -> Plan(<<LookUp, PostOver("request", o.text)>>)
      [] op = "dismiss" -> Plan(<<TakeApproval>>)
      [] op = "listreviews" -> Plan(<<Whole, Return>>)
      [] op = "getreview" -> Plan(<<Find("first"), Return>>)

(* The inline comments follow the review one by one; when the review fails *)
(* they are posted with a plain note, which only counts when it is alone.  *)
GitcodeInline(o) ==
    IF o.inline = "none" THEN <<>> ELSE <<Try("inline", o.text)>>
GitcodeReviewFallback(o) ==
    IF o.inline = "none" THEN <<Post("note", o.text)>>
    ELSE GitcodeInline(o) \o <<Try("note", o.text)>>

GitcodeReview(op, o) ==
    CASE op = "review" ->
            PlanOr(<<PostAs("review", o.text, Evented[o.event])>> \o
                   GitcodeInline(o), GitcodeReviewFallback(o))
      [] op = "request" -> Plan(<<Post("request", o.text)>>)
      [] op = "dismiss" -> Plan(<<Take("refused")>>)
      [] op = "listreviews" -> Plan(<<Whole, Return>>)
      [] op = "getreview" -> Plan(<<Find("named"), Return>>)

(* A note that carries the event, without inline comments; nobody is       *)
(* requested, and no review is dismissed.                                  *)
TencentcodeReviewState ==
    [APPROVE |-> "approved", REQUEST_CHANGES |-> "change_required",
     COMMENT |-> ""]

TencentcodeReview(op, o) ==
    CASE op = "review" ->
            Plan(<<PostAs("note", o.text, TencentcodeReviewState[o.event])>>)
      [] op = "request" -> Plan(<<Return>>)
      [] op = "dismiss" -> Refused
      [] op = "listreviews" -> Plan(Pages)
      [] op = "getreview" -> Plan(<<Find("named"), Return>>)

ReviewCall(b, op, o) ==
    CASE b = "github" -> GithubReview(op, o)
      [] b = "gitlab" -> GitlabReview(op, o)
      [] b = "gitea" -> GiteaReview(op, o)
      [] b = "forgejo" -> ForgejoReview(op, o)
      [] b = "gitcode" -> GitcodeReview(op, o)
      [] b = "tencentcode" -> TencentcodeReview(op, o)
      [] b = "gitee" -> Refused

(* What a list shows: GitLab only approvals, Tencent Code every note.      *)
ConvertReview(b, p) ==
    CASE b = "github" -> GithubConvertReview[p.state]
      [] b = "gitea" -> GiteaConvertReview[p.state]
      [] b = "forgejo" -> ForgejoConvertReview[p.state]
      [] b = "gitcode" -> GitcodeConvertReview[p.state]
      [] b = "gitlab" -> "approved"
      [] b = "tencentcode" -> "commented"
-----------------------------------------------------------------------------
(* Reactions on an issue, on one of its comments, on a change request or   *)
(* on one of its comments: o.on is "issue", "comment", "cr" or             *)
(* "crcomment".  Nothing adds to a change request but through its issue.   *)
GithubReaction(op, o) ==
    CASE op = "react" -> <<Post("reaction", o.emoji)>>
      [] op = "unreact" -> <<Take("refused")>>
      [] op = "listreactions" -> Pages

GitlabEmojiToSDK(e) == IF e = "hooray" THEN "tada" ELSE e
(* Mutant: the platform's name is shown as it is.                          *)
GitlabEmojiFromSDKRaw(e) == e
GitlabEmojiFromSDK(e) == IF e = "tada" THEN "hooray" ELSE e

(* Notes take no reactions here: their lists are empty.                    *)
GitlabReaction(op, o) ==
    CASE op # "listreactions" /\ o.on \in {"comment", "crcomment"} ->
            <<Unsupported>>
      [] op = "listreactions" /\ o.on \in {"comment", "crcomment"} ->
            <<Return>>
      [] op = "react" /\ o.on = "issue" ->
            <<Post("reaction", GitlabEmojiToSDK(o.emoji))>>
      [] op = "unreact" /\ o.on = "issue" -> <<Take("refused")>>
      [] op = "listreactions" /\ o.on \in {"issue", "cr"} -> Pages

(* A reaction has the id of its user, so removing one lists them first.    *)
GiteaReactionOn(op, o, list) ==
    CASE op = "react" -> <<Post("reaction", o.emoji)>>
      [] op = "unreact" -> list \o <<TakeFirst>>
      [] op = "listreactions" -> list \o <<Return>>
NoReactions(op) ==
    IF op = "listreactions" THEN <<Return>> ELSE <<Unsupported>>
GiteaReaction(op, o) ==
    CASE o.on = "issue" -> GiteaReactionOn(op, o, <<Page(1)>>)
      [] o.on = "comment" -> GiteaReactionOn(op, o, <<Whole>>)
      [] o.on = "cr" -> <<Unsupported>>
      [] o.on = "crcomment" -> NoReactions(op)
ForgejoReaction(op, o) ==
    CASE o.on \in {"issue", "comment"} -> GiteaReactionOn(op, o, <<Whole>>)
      [] o.on = "cr" -> <<Unsupported>>
      [] o.on = "crcomment" -> NoReactions(op)

GitcodeReaction(op, o) ==
    CASE op = "react" -> <<Post("reaction", o.emoji)>>
      [] op = "unreact" -> <<Take("refused")>>
      [] op = "listreactions" -> Pages

ReactionCall(b, op, o) ==
    CASE b = "github" -> Plan(GithubReaction(op, o))
      [] b = "gitlab" -> Plan(GitlabReaction(op, o))
      [] b = "gitea" -> Plan(GiteaReaction(op, o))
      [] b = "forgejo" -> Plan(ForgejoReaction(op, o))
      [] b = "gitcode" -> Plan(GitcodeReaction(op, o))
      [] b \in {"gitee", "tencentcode"} -> Refused

ShownEmoji(b, e) == IF b = "gitlab" THEN GitlabEmojiFromSDK(e) ELSE e

-----------------------------------------------------------------------------
(* ListNotifications and ListRepoNotifications, MarkNotificationRead,      *)
(* MarkNotificationsRead and MarkRepoNotificationsRead; o.upto is "seen"   *)
(* when the caller gives the time of what it saw, "all" when it gives none,*)
(* o.page "first" when it asks for one page, "every" when for all.         *)
InboxPages(o) == IF o.page = "first" THEN <<FirstOnly, Return>> ELSE Pages
(* Mutant: the time is not passed on.                                      *)
GithubInboxTimeless(op, o) ==
    CASE op = "listinbox" -> InboxPages(o)
      [] op = "markone" -> <<Mark("one")>>
      [] op = "markall" -> <<Mark("all")>>
GithubInbox(op, o) ==
    CASE op = "listinbox" -> InboxPages(o)
      [] op = "markone" -> <<Mark("one")>>
      [] op = "markall" -> <<Mark(o.upto)>>
GiteaInbox(op, o) ==
    CASE op = "listinbox" -> InboxPages(o)
      [] op = "markone" -> <<Mark("one")>>
      [] op = "markall" -> <<Mark(o.upto)>>
ForgejoInbox(op, o) == GiteaInbox(op, o)
GitcodeInbox(op, o) ==
    CASE op = "listinbox" -> InboxPages(o)
      [] op = "markone" -> <<Mark("one")>>
      [] op = "markall" -> <<Mark(o.upto)>>

(* The options of a mark are dropped, and a list is one page.              *)
GitlabInbox(op, o) ==
    CASE op = "listinbox" /\ o.scope = "all" -> <<FirstOnly, Return>>
      [] op = "listinbox" /\ o.scope = "repo" -> <<LookUp, FirstOnly, Return>>
      [] op = "markone" -> <<Mark("one")>>
      [] op = "markall" /\ o.scope = "all" -> <<Mark("all")>>
      [] op = "markall" /\ o.scope = "repo" -> <<Unsupported>>
GiteeInbox(op, o) ==
    CASE op = "listinbox" -> <<FirstOnly, Return>>
      [] op = "markone" -> <<Mark("one")>>
      [] op = "markall" -> <<Mark("all")>>

(* A list of GitLab and Gitee does not say whether what is read is wanted; *)
(* the one platform then leaves it out and the other does not.             *)
ShowsRead(b, o) == b = "gitee" \/ (o.all /\ b # "gitlab")

InboxCall(b, op, o) ==
    CASE b = "github" -> Plan(GithubInbox(op, o))
      [] b = "gitlab" -> Plan(GitlabInbox(op, o))
      [] b = "gitea" -> Plan(GiteaInbox(op, o))
      [] b = "forgejo" -> Plan(ForgejoInbox(op, o))
      [] b = "gitee" -> Plan(GiteeInbox(op, o))
      [] b = "gitcode" -> Plan(GitcodeInbox(op, o))
      [] b = "tencentcode" -> Refused

-----------------------------------------------------------------------------
(* CreateBranch from a branch, DeleteBranch and ListBranches.  GitHub's    *)
(* CreateRef wants a commit, so the head of the branch is read first.      *)
Branch(op, o) ==
    CASE op = "branch" -> <<Fork("now", o.name)>>
      [] op = "dropbranch" -> <<Take("refused")>>
      [] op = "listbranches" -> Pages
GithubBranch(op, o) ==
    IF op = "branch" THEN <<Head1, Fork("read", o.name)>> ELSE Branch(op, o)
GitlabBranch(op, o) == Branch(op, o)
GiteaBranch(op, o) == Branch(op, o)
ForgejoBranch(op, o) == Branch(op, o)
GiteeBranch(op, o) == Branch(op, o)
GitcodeBranch(op, o) ==
    IF op = "listbranches" THEN <<Whole, Return>> ELSE Branch(op, o)
TencentcodeBranch(op, o) == Branch(op, o)

BranchCall(b, op, o) ==
    Plan(CASE b = "github" -> GithubBranch(op, o)
           [] b = "gitlab" -> GitlabBranch(op, o)
           [] b = "gitea" -> GiteaBranch(op, o)
           [] b = "forgejo" -> ForgejoBranch(op, o)
           [] b = "gitee" -> GiteeBranch(op, o)
           [] b = "gitcode" -> GitcodeBranch(op, o)
           [] b = "tencentcode" -> TencentcodeBranch(op, o))

(* AddCollaborator, RemoveCollaborator and ListCollaborators; Gitea and    *)
(* Forgejo ask for the permission of each, whatever comes of it.           *)
Member(op, o) ==
    CASE op = "addmember" -> <<Post("member", o.name)>>
      [] op = "dropmember" -> <<Take("refused")>>
      [] op = "listmembers" -> Pages
GithubMember(op, o) == Member(op, o)
GiteaMember(op, o) ==
    IF op = "listmembers" THEN <<Page(1), Glance, Return>> ELSE Member(op, o)
ForgejoMember(op, o) ==
    IF op = "listmembers" THEN <<Page(1), Glance, Return>> ELSE Member(op, o)
GiteeMember(op, o) == Member(op, o)
GitcodeMember(op, o) == Member(op, o)

MemberCall(b, op, o) ==
    CASE b = "github" -> Plan(GithubMember(op, o))
      [] b = "gitea" -> Plan(GiteaMember(op, o))
      [] b = "forgejo" -> Plan(ForgejoMember(op, o))
      [] b = "gitee" -> Plan(GiteeMember(op, o))
      [] b = "gitcode" -> Plan(GitcodeMember(op, o))
      [] b \in {"gitlab", "tencentcode"} -> Refused
-----------------------------------------------------------------------------
(* CreateRepo, ForkRepo, DeleteRepo and ListRepos of an owner.  The place  *)
(* of a repository is an owner, or "own", where its maker's are.           *)
PlaceOf(owner) == IF owner = "" THEN "own" ELSE owner
NewRepo(o) == <<PostAs("repo", o.name, PlaceOf(o.owner))>>
ForkAs(name, owner) ==
    <<PostAs("repo", IF name = "" THEN "app" ELSE name, PlaceOf(owner))>>
DropRepo == <<Take("refused")>>

GithubRepo(op, o) ==
    CASE op = "newrepo" -> NewRepo(o)
      [] op = "fork" -> ForkAs(o.name, o.owner)
      [] op = "droprepo" -> DropRepo
      [] op = "listrepos" -> <<Walk("own", o.owner), Return>>

(* The id of the group is searched for; without it the project is made in  *)
(* the namespace of the caller.                                            *)
GitlabRepo(op, o) ==
    CASE op = "newrepo" /\ o.owner # "" -> <<Glance>> \o NewRepo(o)
      [] op = "newrepo" /\ o.owner = "" -> NewRepo(o)
      [] op = "fork" -> ForkAs(o.name, o.owner)
      [] op = "droprepo" -> DropRepo
      [] op = "listrepos" -> <<Walk("own", o.owner), Return>>

GiteaRepo(op, o) ==
    CASE op = "newrepo" -> NewRepo(o)
      [] op = "fork" -> ForkAs(o.name, o.owner)
      [] op = "droprepo" -> DropRepo
      [] op = "listrepos" -> <<Walk("sifted", o.owner), Return>>
ForgejoRepo(op, o) == GiteaRepo(op, o)

(* A fork keeps its name; on GitCode and Tencent Code its place as well.   *)
GiteeRepo(op, o) ==
    CASE op = "newrepo" -> NewRepo(o)
      [] op = "fork" -> ForkAs("", o.owner)
      [] op = "droprepo" -> DropRepo
      [] op = "listrepos" -> <<Walk("own", o.owner), Return>>
GitcodeRepo(op, o) ==
    CASE op = "newrepo" -> NewRepo(o)
      [] op = "fork" -> ForkAs("", "")
      [] op = "droprepo" -> DropRepo
      [] op = "listrepos" -> <<Walk("own", o.owner), Return>>

(* The owner of a new repository is not sent.                              *)
TencentcodeRepo(op, o) ==
    CASE op = "newrepo" -> <<PostAs("repo", o.name, "own")>>
      [] op = "fork" -> ForkAs("", "")
      [] op = "droprepo" -> DropRepo
      [] op = "listrepos" -> <<Walk("whole", o.owner), Return>>

RepositoryCall(b, op, o) ==
    Plan(CASE b = "github" -> GithubRepo(op, o)
           [] b = "gitlab" -> GitlabRepo(op, o)
           [] b = "gitea" -> GiteaRepo(op, o)
           [] b = "forgejo" -> ForgejoRepo(op, o)
           [] b = "gitee" -> GiteeRepo(op, o)
           [] b = "gitcode" -> GitcodeRepo(op, o)
           [] b = "tencentcode" -> TencentcodeRepo(op, o))

-----------------------------------------------------------------------------
(* CreateCommitStatus, with the word the platform is sent, and             *)
(* ListCommitStatuses, with the state its caller is shown for a word.      *)
GitlabMapCommitState(state) ==
    IF state \in {"success", "failed", "pending", "running"} THEN state
    ELSE "pending"
GiteaStatusWord(state) ==
    CASE state \in {"success", "pending", "error"} -> state
      [] state = "failed" -> "failure"
      [] OTHER -> "pending"
GiteeMapCommitStatus(state) ==
    CASE state = "success" -> "success"
      [] state \in {"failure", "error"} -> "failure"
      [] OTHER -> "neutral"

GithubStatus(state) == state
GitlabStatus(state) == GitlabMapCommitState(state)
GiteaStatus(state) == GiteaStatusWord(state)
ForgejoStatus(state) == GiteaStatusWord(state)
GiteeStatus(state) == GiteeMapCommitStatus(state)
GitcodeStatus(state) == state
TencentcodeStatus(state) == state

StatusWord(b, state) ==
    CASE b = "github" -> GithubStatus(state)
      [] b = "gitlab" -> GitlabStatus(state)
      [] b = "gitea" -> GiteaStatus(state)
      [] b = "forgejo" -> ForgejoStatus(state)
      [] b = "gitee" -> GiteeStatus(state)
      [] b = "gitcode" -> GitcodeStatus(state)
      [] b = "tencentcode" -> TencentcodeStatus(state)

StatusCall(b, op, o) ==
    CASE op = "report" ->
            Plan(<<PostAs("status", o.context, StatusWord(b, o.state))>>)
      [] op = "liststatuses" -> Plan(Pages)

NormalizeCommitStatusState(word) ==
    CASE word \in {"success", "ok", "passed", "warning", "neutral"} -> "success"
      [] word \in {"failure", "failed"} -> "failure"
      [] word \in {"error", "startup_failure", "action_required"} -> "error"
      [] word \in {"canceled", "cancelled"} -> "canceled"
      [] word \in {"running", "created", "queued", "in_progress", "preparing",
                   "waiting_for_resource", "requested"} -> "running"
      [] OTHER -> "pending"
=============================================================================
