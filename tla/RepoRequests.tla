---------------------------- MODULE RepoRequests ----------------------------
(***************************************************************************)
(* The requests of the seven backends about milestones, releases, files    *)
(* and the repository itself (milestones.go, releases.go, files.go,        *)
(* repos.go).  A due date, a tag, a target and the words of a commit are   *)
(* left out; the version of a file is the SHA its caller passes.           *)
(***************************************************************************)
EXTENDS Requests

MilestoneFields == {"title", "body", "state"}
ReleaseFields == {"title", "body", "draft", "prerelease"}
RepoFields == {"title", "body", "branch", "private"}

-----------------------------------------------------------------------------
(* CreateMilestone, UpdateMilestone, DeleteMilestone; the verb of a state. *)
(* Mutant: the word of the answers, or of Tencent Code.                    *)
GitlabMilestoneVerbActive == [open |-> "active", closed |-> "close"]

GitlabMilestoneVerb == [open |-> "activate", closed |-> "close"]
TencentcodeMilestoneVerb == [open |-> "active", closed |-> "close"]

GithubMilestone(op, o) ==
    CASE op = "create" -> <<Create(Given(o, {"title", "body"}))>>
      [] op = "update" -> <<Edit(Given(o, MilestoneFields))>>
      [] op = "delete" -> <<Delete>>
GiteeMilestone(op, o) ==
    CASE op = "create" -> <<Create(Given(o, {"title", "body"}))>>
      [] op = "update" -> <<Edit(Given(o, MilestoneFields))>>
      [] op = "delete" -> <<Delete>>
GitcodeMilestone(op, o) ==
    CASE op = "create" -> <<Create(Given(o, {"title", "body"}))>>
      [] op = "update" -> <<Edit(Given(o, MilestoneFields))>>
      [] op = "delete" -> <<Delete>>
GiteaMilestone(op, o) ==
    CASE op = "create" -> <<Create(Given(o, {"title", "body"}))>>
      [] op = "update" -> <<Edit(Given(o, MilestoneFields))>>
      [] op = "delete" -> <<Delete>>
ForgejoMilestone(op, o) == GiteaMilestone(op, o)
GitlabMilestone(op, o) ==
    CASE op = "create" -> <<Create(Given(o, {"title", "body"}))>>
      [] op = "update" ->
            <<Edit(WithState(Given(o, MilestoneFields), GitlabMilestoneVerb))>>
      [] op = "delete" -> <<Delete>>
TencentcodeMilestone(op, o) ==
    CASE op = "create" -> <<Create(Given(o, {"title", "body"}))>>
      [] op = "update" -> <<Edit(WithState(Given(o, MilestoneFields),
                                           TencentcodeMilestoneVerb))>>
      [] op = "delete" -> <<Delete>>

MilestoneCall(b, op, o) ==
    CASE b = "github" -> GithubMilestone(op, o)
      [] b = "gitlab" -> GitlabMilestone(op, o)
      [] b = "gitea" -> GiteaMilestone(op, o)
      [] b = "forgejo" -> ForgejoMilestone(op, o)
      [] b = "gitee" -> GiteeMilestone(op, o)
      [] b = "gitcode" -> GitcodeMilestone(op, o)
      [] b = "tencentcode" -> TencentcodeMilestone(op, o)

(* ListMilestones: the filter sent, and the state shown of a milestone.    *)
GithubListMilestones(s) == s
GitlabListMilestones(s) == IF s = "open" THEN "active" ELSE s
GiteaListMilestones(s) == s
ForgejoListMilestones(s) == s
GiteeListMilestones(s) == s
GitcodeListMilestones(s) == s
TencentcodeListMilestones(s) == "all"

ListMilestones(b, s) ==
    CASE b = "github" -> GithubListMilestones(s)
      [] b = "gitlab" -> GitlabListMilestones(s)
      [] b = "gitea" -> GiteaListMilestones(s)
      [] b = "forgejo" -> ForgejoListMilestones(s)
      [] b = "gitee" -> GiteeListMilestones(s)
      [] b = "gitcode" -> GitcodeListMilestones(s)
      [] b = "tencentcode" -> TencentcodeListMilestones(s)

GitlabConvertMilestone(w) == IF w = "active" THEN "open" ELSE w
TencentcodeConvertMilestone(w) == IF w = "active" THEN "open" ELSE w
ConvertMilestone(b, w) ==
    CASE b = "gitlab" -> GitlabConvertMilestone(w)
      [] b = "tencentcode" -> TencentcodeConvertMilestone(w)
      [] OTHER -> w

-----------------------------------------------------------------------------
(* CreateRelease, UpdateRelease, DeleteRelease: by tag, or by the id that  *)
(* a get by tag shows.                                                     *)
GithubRelease(op, o) ==
    CASE op = "create" -> <<Create(Given(o, ReleaseFields))>>
      [] op = "update" -> <<Get, EditFound(Given(o, ReleaseFields), {})>>
      [] op = "delete" -> <<Get, DeleteFound>>

GitlabRelease(op, o) ==
    CASE op = "create" -> <<Create(Given(o, {"title", "body"}))>>
      [] op = "update" -> <<Edit(Given(o, {"title", "body"}))>>
      [] op = "delete" -> <<Delete>>

(* An edit has to carry the title and the body: those that are not given   *)
(* are sent as the get showed them.                                        *)
GiteaRelease(op, o) ==
    CASE op = "create" -> <<Create(Given(o, ReleaseFields))>>
      [] op = "update" -> <<Get, EditFound(Given(o, ReleaseFields),
                                           {"title", "body"} \ DOMAIN o)>>
      [] op = "delete" -> <<Delete>>

ForgejoRelease(op, o) == GiteaRelease(op, o)

GiteeRelease(op, o) ==
    LET Put == Given(o, {"title", "body", "prerelease"})
    IN  CASE op = "create" -> <<Create(Put)>>
          [] op = "update" -> <<Get, EditFound(Put, {})>>
          [] op = "delete" -> <<Get, DeleteFound>>

GitcodeRelease(op, o) ==
    CASE op = "create" -> <<Create(Given(o, ReleaseFields))>>
      [] op = "update" -> <<Get, EditFound(Given(o, ReleaseFields),
                                           {"title", "body"} \ DOMAIN o)>>
      [] op = "delete" -> <<Get, DeleteFound>>

(* Only the notes of a release exist: an update of anything else reads it. *)
TencentcodeRelease(op, o) ==
    CASE op = "create" -> <<Create(Given(o, {"body"}))>>
      [] op = "update" -> IF "body" \in DOMAIN o
                          THEN <<Edit(Given(o, {"body"}))>> ELSE <<Get>>
      [] op = "delete" -> <<Delete>>

ReleaseCall(b, op, o) ==
    CASE b = "github" -> GithubRelease(op, o)
      [] b = "gitlab" -> GitlabRelease(op, o)
      [] b = "gitea" -> GiteaRelease(op, o)
      [] b = "forgejo" -> ForgejoRelease(op, o)
      [] b = "gitee" -> GiteeRelease(op, o)
      [] b = "gitcode" -> GitcodeRelease(op, o)
      [] b = "tencentcode" -> TencentcodeRelease(op, o)

-----------------------------------------------------------------------------
(* CreateFile, UpdateFile, DeleteFile.  GitLab and Tencent Code do not     *)
(* send the SHA of their caller.                                           *)
GithubFile(op, o) ==
    CASE op = "create" -> <<Create(o)>>
      [] op = "update" -> <<EditVersion(o)>>
      [] op = "delete" -> <<DeleteVersion>>
GiteaFile(op, o) ==
    CASE op = "create" -> <<Create(o)>>
      [] op = "update" -> <<EditVersion(o)>>
      [] op = "delete" -> <<DeleteVersion>>
ForgejoFile(op, o) ==
    CASE op = "create" -> <<Create(o)>>
      [] op = "update" -> <<EditVersion(o)>>
      [] op = "delete" -> <<DeleteVersion>>
GiteeFile(op, o) ==
    CASE op = "create" -> <<Create(o)>>
      [] op = "update" -> <<EditVersion(o)>>
      [] op = "delete" -> <<DeleteVersion>>
GitcodeFile(op, o) ==
    CASE op = "create" -> <<Create(o)>>
      [] op = "update" -> <<EditVersion(o)>>
      [] op = "delete" -> <<DeleteVersion>>
GitlabFile(op, o) ==
    CASE op = "create" -> <<Create(o)>>
      [] op = "update" -> <<Edit(o)>>
      [] op = "delete" -> <<Delete>>
TencentcodeFile(op, o) ==
    CASE op = "create" -> <<Create(o)>>
      [] op = "update" -> <<Edit(o)>>
      [] op = "delete" -> <<Delete>>

FileCall(b, op, o) ==
    CASE b = "github" -> GithubFile(op, o)
      [] b = "gitlab" -> GitlabFile(op, o)
      [] b = "gitea" -> GiteaFile(op, o)
      [] b = "forgejo" -> ForgejoFile(op, o)
      [] b = "gitee" -> GiteeFile(op, o)
      [] b = "gitcode" -> GitcodeFile(op, o)
      [] b = "tencentcode" -> TencentcodeFile(op, o)

-----------------------------------------------------------------------------
(* CreateRepo, UpdateRepo and DeleteRepo: title is the name, branch the    *)
(* default branch.                                                         *)
GithubRepoEdit(op, o) ==
    CASE op = "create" -> <<Create(Given(o, RepoFields))>>
      [] op = "update" -> <<Edit(Given(o, RepoFields))>>
      [] op = "delete" -> <<Delete>>
GitlabRepoEdit(op, o) == GithubRepoEdit(op, o)
GiteaRepoEdit(op, o) == GithubRepoEdit(op, o)
ForgejoRepoEdit(op, o) == GithubRepoEdit(op, o)

(* The name, the description and the branch are sent even when they are    *)
(* not given.                                                              *)
GiteeRepoEdit(op, o) ==
    CASE op = "create" -> <<Create(Given(o, RepoFields \ {"branch"}))>>
      [] op = "update" ->
            <<Edit(Sent(o, {"title", "body", "branch"} \cup
                           (DOMAIN o \cap {"private"})))>>
      [] op = "delete" -> <<Delete>>
GitcodeRepoEdit(op, o) ==
    CASE op = "create" -> <<Create(Given(o, RepoFields \ {"branch"}))>>
      [] op = "update" -> <<Edit(Given(o, RepoFields))>>
      [] op = "delete" -> <<Delete>>
TencentcodeRepoEdit(op, o) ==
    CASE op = "create" -> <<Create(Given(o, RepoFields \ {"branch"}))>>
      [] op = "update" -> <<Edit(Given(o, RepoFields))>>
      [] op = "delete" -> <<Delete>>

RepoEditCall(b, op, o) ==
    CASE b = "github" -> GithubRepoEdit(op, o)
      [] b = "gitlab" -> GitlabRepoEdit(op, o)
      [] b = "gitea" -> GiteaRepoEdit(op, o)
      [] b = "forgejo" -> ForgejoRepoEdit(op, o)
      [] b = "gitee" -> GiteeRepoEdit(op, o)
      [] b = "gitcode" -> GitcodeRepoEdit(op, o)
      [] b = "tencentcode" -> TencentcodeRepoEdit(op, o)
=============================================================================
