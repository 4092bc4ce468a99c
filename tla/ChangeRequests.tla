--------------------------- MODULE ChangeRequests ---------------------------
(***************************************************************************)
(* The requests of the seven backends about change requests (crs.go), and  *)
(* the state they show of one.                                             *)
(***************************************************************************)
EXTENDS Requests

(* CreateCR.                                                               *)
GithubCreateCR(o) == <<Create(Given(o, {"title", "body", "target"}))>>
GitlabCreateCR(o) ==
    <<Create(Given(o, {"title", "body", "target", "labels"}))>>
GiteaCreateCR(o) == <<Create(Given(o, {"title", "body", "target"}))>>
ForgejoCreateCR(o) == <<Create(Given(o, {"title", "body", "target"}))>>
GiteeCreateCR(o) ==
    <<Create(Given(o, {"title", "body", "target", "labels"}))>>
GitcodeCreateCR(o) == <<Create(Given(o, {"title", "body", "target"}))>>
TencentcodeCreateCR(o) == <<Create(Given(o, {"title", "body", "target"}))>>

CreateCR(b, o) ==
    CASE b = "github" -> GithubCreateCR(o)
      [] b = "gitlab" -> GitlabCreateCR(o)
      [] b = "gitea" -> GiteaCreateCR(o)
      [] b = "forgejo" -> ForgejoCreateCR(o)
      [] b = "gitee" -> GiteeCreateCR(o)
      [] b = "gitcode" -> GitcodeCreateCR(o)
      [] b = "tencentcode" -> TencentcodeCreateCR(o)

-----------------------------------------------------------------------------
(* MergeCR, CloseCR, ReopenCR, UpdateCR and UpdateCRLabels.                *)
GithubCR(op, o) ==
    CASE op = "merge" -> <<Merge, Get>>
      [] op = "close" -> <<Edit([state |-> "closed"])>>
      [] op = "reopen" -> <<Edit([state |-> "open"])>>
      [] op = "update" -> <<Edit(Given(o, {"title", "body", "target"}))>>
      [] op = "labels" -> <<Labels("add", o.labels)>>

GitlabCR(op, o) ==
    CASE op = "merge" -> <<Preflight(TRUE), Merge>>
      [] op = "close" -> <<Edit([state |-> "close"])>>
      [] op = "reopen" -> <<Edit([state |-> "reopen"])>>
      [] op = "update" -> <<Edit(Given(o, {"title", "body", "target"}))>>
      [] op = "labels" -> <<Labels("set", o.labels)>>

(* UpdateCR sends a title and a body even when none is given, and never    *)
(* the target branch.                                                      *)
GiteeCR(op, o) ==
    CASE op = "merge" -> <<Merge, Get>>
      [] op = "close" -> <<Edit([state |-> "closed"])>>
      [] op = "reopen" -> <<Edit([state |-> "open"])>>
      [] op = "update" -> <<Edit(Sent(o, {"title", "body"}))>>
      [] op = "labels" -> <<Labels("set", o.labels)>>

GitcodeCR(op, o) ==
    CASE op = "merge" -> <<Merge, Get>>
      [] op = "close" -> <<Edit([state |-> "closed"])>>
      [] op = "reopen" -> <<Edit([state |-> "open"])>>
      [] op = "update" -> <<Edit(Given(o, {"title", "body", "target"}))>>
      [] op = "labels" -> <<Labels("add", o.labels)>>

(* Mutant: a merge that was refused is not looked into.                    *)
GiteaCRStrict(op, o) ==
    CASE op = "merge" -> <<Merge, Get>>
      [] op = "close" -> <<Edit([state |-> "closed"]), Get>>
      [] op = "reopen" -> <<Edit([state |-> "open"])>>
      [] op = "update" -> <<Edit(Given(o, {"title", "body", "target"}))>>
      [] op = "labels" -> <<LabelsById("add")>>

(* UpdateCRLabels keeps what parses as an id, which no name does.          *)
GiteaCR(op, o) ==
    CASE op = "merge" -> <<MergeOrRecover, Get>>
      [] op = "close" -> <<Edit([state |-> "closed"]), Get>>
      [] op = "reopen" -> <<Edit([state |-> "open"])>>
      [] op = "update" -> <<Edit(Given(o, {"title", "body", "target"}))>>
      [] op = "labels" -> <<LabelsById("add")>>

ForgejoCR(op, o) == GiteaCR(op, o)

TencentcodeCR(op, o) ==
    CASE op = "merge" -> <<Preflight(FALSE), Merge>>
      [] op = "close" -> <<Edit([state |-> "close"])>>
      [] op = "reopen" -> <<Edit([state |-> "reopen"])>>
      [] op = "update" -> <<Edit(Given(o, {"title", "body", "target"}))>>
      [] op = "labels" -> <<Unsupported>>

CRCall(b, op, o) ==
    CASE b = "github" -> GithubCR(op, o)
      [] b = "gitlab" -> GitlabCR(op, o)
      [] b = "gitea" -> GiteaCR(op, o)
      [] b = "forgejo" -> ForgejoCR(op, o)
      [] b = "gitee" -> GiteeCR(op, o)
      [] b = "gitcode" -> GitcodeCR(op, o)
      [] b = "tencentcode" -> TencentcodeCR(op, o)

-----------------------------------------------------------------------------
(* ListCRs: the state filter sent for "opened", "closed" and "merged".     *)
GithubMapCRState ==
    [opened |-> "open", closed |-> "closed", merged |-> "closed"]
GitlabListCRs(s) == s
(* Mutant: the state sent as it is, which the platform does not know.      *)
GiteaMapListStateRaw ==
    [opened |-> "opened", closed |-> "closed", merged |-> "closed"]
GiteaMapListState ==
    [opened |-> "open", closed |-> "closed", merged |-> "closed"]
ForgejoListCRs(s) == s
GiteeMapCRState ==
    [opened |-> "open", closed |-> "closed", merged |-> "merged"]
GitcodeListCRs ==
    [opened |-> "open", closed |-> "closed", merged |-> "closed"]
TencentcodeListCRs(s) == s

ListCRs(b, s) ==
    CASE b = "github" -> GithubMapCRState[s]
      [] b = "gitlab" -> GitlabListCRs(s)
      [] b = "gitea" -> GiteaMapListState[s]
      [] b = "forgejo" -> ForgejoListCRs(s)
      [] b = "gitee" -> GiteeMapCRState[s]
      [] b = "gitcode" -> GitcodeListCRs[s]
      [] b = "tencentcode" -> TencentcodeListCRs(s)

(* The state a caller is shown of w, a platform's state with its merged    *)
(* flag.                                                                   *)
MapStateToCR(state, merged) ==
    CASE state = "merged" -> "merged"
      [] state = "closed" -> IF merged THEN "merged" ELSE "closed"
      [] OTHER -> "opened"

GithubConvertPR(w) ==
    IF w.state = "closed" THEN IF w.merged THEN "merged" ELSE "closed"
    ELSE "opened"
GitlabMapState(w) == MapStateToCR(w.state, FALSE)
GiteaMapState(w) == MapStateToCR(w.state, w.merged)
ForgejoMapState(w) == MapStateToCR(w.state, w.merged)
GiteeConvertPR(w) == MapStateToCR(w.state, w.merged)
GitcodeConvertPR(w) ==
    IF w.state = "closed" THEN IF w.merged THEN "merged" ELSE "closed"
    ELSE "opened"
TencentcodeMapState(w) == MapStateToCR(w.state, FALSE)

ConvertCR(b, w) ==
    CASE b = "github" -> GithubConvertPR(w)
      [] b = "gitlab" -> GitlabMapState(w)
      [] b = "gitea" -> GiteaMapState(w)
      [] b = "forgejo" -> ForgejoMapState(w)
      [] b = "gitee" -> GiteeConvertPR(w)
      [] b = "gitcode" -> GitcodeConvertPR(w)
      [] b = "tencentcode" -> TencentcodeMapState(w)
=============================================================================
