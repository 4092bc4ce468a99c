--------------------------- MODULE IssueRequests ----------------------------
(***************************************************************************)
(* The requests of the seven backends about issues and about the labels of *)
(* a repository (issues.go, labels.go).  A number that does not parse ends *)
(* a call before any request and is left out, and so is every field of an  *)
(* issue that travels as the body does.                                    *)
(***************************************************************************)
EXTENDS Requests

IssueFields == {"title", "body", "state", "labels", "assignees"}
NoState == IssueFields \ {"state"}

IfGiven(o, field, steps) == IF field \in DOMAIN o THEN steps ELSE <<>>

(* IssueState to a state_event: what is not open closes.                   *)
StateEvent == [open |-> "reopen", closed |-> "close"]

-----------------------------------------------------------------------------
(* CreateIssue, UpdateIssue, CloseIssue, ReopenIssue.                      *)

(* UpdateIssue does not send opts.State.                                   *)
GithubIssue(op, o) ==
    CASE op = "create" -> <<Create(Given(o, NoState))>>
      [] op = "update" -> <<Edit(Given(o, NoState))>>
      [] op = "close" -> <<Edit([state |-> "closed"])>>
      [] op = "reopen" -> <<Edit([state |-> "open"])>>

GitlabIssue(op, o) ==
    CASE op = "create" ->
            IfGiven(o, "assignees", <<LookUp>>) \o
            <<Create(Given(o, NoState))>>
      [] op = "update" ->
            IfGiven(o, "assignees", <<LookUp>>) \o
            <<Edit(WithState(Given(o, IssueFields), StateEvent))>>
      [] op = "close" -> <<Edit([state |-> "close"])>>
      [] op = "reopen" -> <<Edit([state |-> "reopen"])>>

TencentcodeIssue(op, o) ==
    CASE op = "create" ->
            IfGiven(o, "assignees", <<LookUp>>) \o
            <<Create(Given(o, NoState))>>
      [] op = "update" ->
            IfGiven(o, "assignees", <<LookUp>>) \o
            <<Edit(WithState(Given(o, IssueFields), StateEvent))>>
      [] op = "close" -> <<Edit([state |-> "close"])>>
      [] op = "reopen" -> <<Edit([state |-> "reopen"])>>

GiteeIssue(op, o) ==
    CASE op = "create" -> <<Create(Given(o, NoState))>>
      [] op = "update" -> <<Edit(Given(o, IssueFields))>>
      [] op = "close" -> <<Edit([state |-> "closed"])>>
      [] op = "reopen" -> <<Edit([state |-> "open"])>>

GitcodeIssue(op, o) ==
    CASE op = "create" -> <<Create(Given(o, NoState))>>
      [] op = "update" -> <<Edit(Given(o, IssueFields))>>
      [] op = "close" -> <<Edit([state |-> "closed"])>>
      [] op = "reopen" -> <<Edit([state |-> "open"])>>

(* Every edit carries a title: one that is not given is read first.  The   *)
(* labels are replaced by a request of their own, before the edit.         *)
GiteaIssue(op, o) ==
    LET resolve == IfGiven(o, "labels", <<Resolve(o.labels)>>)
        rest == Given(o, IssueFields \ {"labels"})
        title == {"title"} \ DOMAIN o
    IN  CASE op = "create" ->
                resolve \o <<CreateWithIds(Given(o, NoState \ {"labels"}))>>
          [] op = "update" ->
                IF DOMAIN o = {} THEN <<Get>>
                ELSE (IF title = {} THEN <<>> ELSE <<Get>>) \o resolve \o
                     IfGiven(o, "labels", <<LabelsById("set")>>) \o
                     <<EditBack(rest, title)>>
          [] op = "close" ->
                <<Get, EditBack([state |-> "closed"], {"title"})>>
          [] op = "reopen" ->
                <<Get, EditBack([state |-> "open"], {"title"})>>

ForgejoIssue(op, o) == GiteaIssue(op, o)

IssueCall(b, op, o) ==
    CASE b = "github" -> GithubIssue(op, o)
      [] b = "gitlab" -> GitlabIssue(op, o)
      [] b = "gitea" -> GiteaIssue(op, o)
      [] b = "forgejo" -> ForgejoIssue(op, o)
      [] b = "gitee" -> GiteeIssue(op, o)
      [] b = "gitcode" -> GitcodeIssue(op, o)
      [] b = "tencentcode" -> TencentcodeIssue(op, o)

-----------------------------------------------------------------------------
(* AddIssueLabels and RemoveIssueLabel; how is "add" or "remove".          *)
GithubIssueLabels(how, names) == <<Labels(how, names)>>
GitlabIssueLabels(how, names) == <<Labels(how, names)>>
GiteeIssueLabels(how, names) == <<Labels(how, names)>>
GitcodeIssueLabels(how, names) == <<Labels(how, names)>>
GiteaIssueLabels(how, names) == <<Resolve(names), LabelsById(how)>>
ForgejoIssueLabels(how, names) == <<Resolve(names), LabelsById(how)>>
(* Mutant: the names of the call sent as the full set.                     *)
TencentcodeIssueLabelsOnly(how, names) ==
    <<Get, LabelsSeen(IF how = "add" THEN "set" ELSE how, names)>>
TencentcodeIssueLabels(how, names) == <<Get, LabelsSeen(how, names)>>

IssueLabelsCall(b, how, names) ==
    CASE b = "github" -> GithubIssueLabels(how, names)
      [] b = "gitlab" -> GitlabIssueLabels(how, names)
      [] b = "gitea" -> GiteaIssueLabels(how, names)
      [] b = "forgejo" -> ForgejoIssueLabels(how, names)
      [] b = "gitee" -> GiteeIssueLabels(how, names)
      [] b = "gitcode" -> GitcodeIssueLabels(how, names)
      [] b = "tencentcode" -> TencentcodeIssueLabels(how, names)

-----------------------------------------------------------------------------
(* ListIssues: the state filter each sends for the caller's.               *)
GithubListIssues(s) == s
GitlabListIssues(s) == IF s = "open" THEN "opened" ELSE s
GiteaListIssues(s) == s
ForgejoListIssues(s) == s
GiteeListIssues(s) == s
GitcodeListIssues(s) == s
TencentcodeListIssues(s) == IF s = "open" THEN "opened" ELSE s

ListIssues(b, s) ==
    CASE b = "github" -> GithubListIssues(s)
      [] b = "gitlab" -> GitlabListIssues(s)
      [] b = "gitea" -> GiteaListIssues(s)
      [] b = "forgejo" -> ForgejoListIssues(s)
      [] b = "gitee" -> GiteeListIssues(s)
      [] b = "gitcode" -> GitcodeListIssues(s)
      [] b = "tencentcode" -> TencentcodeListIssues(s)

(* convertIssue: the state the caller is shown.                            *)
GithubConvertIssue(w) == w
GitlabConvertIssue(w) ==
    CASE w \in {"opened", "reopened"} -> "open"
      [] w = "closed" -> "closed"
      [] OTHER -> ""
GiteaConvertIssue(w) == w
ForgejoConvertIssue(w) == w
GiteeConvertIssue(w) == w
GitcodeConvertIssue(w) == w
TencentcodeConvertIssue(w) ==
    CASE w \in {"opened", "reopened"} -> "open"
      [] w = "closed" -> "closed"
      [] OTHER -> ""

ConvertIssue(b, w) ==
    CASE b = "github" -> GithubConvertIssue(w)
      [] b = "gitlab" -> GitlabConvertIssue(w)
      [] b = "gitea" -> GiteaConvertIssue(w)
      [] b = "forgejo" -> ForgejoConvertIssue(w)
      [] b = "gitee" -> GiteeConvertIssue(w)
      [] b = "gitcode" -> GitcodeConvertIssue(w)
      [] b = "tencentcode" -> TencentcodeConvertIssue(w)

-----------------------------------------------------------------------------
(* CreateLabel, UpdateLabel and DeleteLabel: by name, or by an id that is  *)
(* resolved through the cache first.                                       *)
GithubLabel(op, name, to) ==
    CASE op = "newlabel" -> <<NewLabel(name)>>
      [] op = "rename" -> <<Relabel(name, to)>>
      [] op = "droplabel" -> <<Relabel(name, "")>>
GiteeLabel(op, name, to) ==
    CASE op = "newlabel" -> <<NewLabel(name)>>
      [] op = "rename" -> <<Relabel(name, to)>>
      [] op = "droplabel" -> <<Relabel(name, "")>>
GitcodeLabel(op, name, to) ==
    CASE op = "newlabel" -> <<NewLabel(name)>>
      [] op = "rename" -> <<Relabel(name, to)>>
      [] op = "droplabel" -> <<Relabel(name, "")>>
TencentcodeLabel(op, name, to) ==
    CASE op = "newlabel" -> <<NewLabel(name)>>
      [] op = "rename" -> <<Relabel(name, to)>>
      [] op = "droplabel" -> <<Relabel(name, "")>>
GitlabLabel(op, name, to) ==
    CASE op = "newlabel" -> <<NewLabel(name)>>
      [] op = "rename" -> <<Resolve({name}), RelabelFound(name, to)>>
      [] op = "droplabel" -> <<Resolve({name}), RelabelFound(name, "")>>
GiteaLabel(op, name, to) ==
    CASE op = "newlabel" -> <<NewLabel(name)>>
      [] op = "rename" -> <<Resolve({name}), RelabelFound(name, to)>>
      [] op = "droplabel" -> <<Resolve({name}), RelabelFound(name, "")>>
ForgejoLabel(op, name, to) == GiteaLabel(op, name, to)

LabelCall(b, op, name, to) ==
    CASE b = "github" -> GithubLabel(op, name, to)
      [] b = "gitlab" -> GitlabLabel(op, name, to)
      [] b = "gitea" -> GiteaLabel(op, name, to)
      [] b = "forgejo" -> ForgejoLabel(op, name, to)
      [] b = "gitee" -> GiteeLabel(op, name, to)
      [] b = "gitcode" -> GitcodeLabel(op, name, to)
      [] b = "tencentcode" -> TencentcodeLabel(op, name, to)

(* The backends that resolve label names to ids.                           *)
ById(b) == b \in {"gitlab", "gitea", "forgejo"}
=============================================================================
