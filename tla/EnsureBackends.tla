--------------------------- MODULE EnsureBackends ---------------------------
(***************************************************************************)
(* What the seven backends make of a webhook, a deploy key and a branch    *)
(* protection: the body a create call leaves on the platform, the body a   *)
(* list or get call reads back from it, and the requests each takes.  A    *)
(* platform keeps a webhook as the set of its event names or flags, a      *)
(* deploy key as material and read-only flag, a protection as a record;    *)
(* the reader's vocabulary is that of provider.PlatformWebhook,            *)
(* provider.DeployKey and provider.BranchProtection.                       *)
(***************************************************************************)
EXTENDS Integers

Backends == {"github", "gitlab", "gitea", "forgejo", "gitee", "gitcode",
             "tencentcode"}
Kinds == {"hook", "key", "rule"}

(* tencentcode implements neither DeploymentKeyManager nor                 *)
(* BranchProtectionManager.                                                *)
Supports(b, kind) == kind = "hook" \/ b # "tencentcode"

If(cond, x) == IF cond THEN {x} ELSE {}
Image(f, S) == {f[x] : x \in S}

-----------------------------------------------------------------------------
(* Webhooks: what CreateWebhook sends.                                     *)

MergeNames == {"merge_request", "merge_requests", "pull_request", "cr"}
TagNames == {"tag_push", "tag"}

GithubCreateWebhook(events) == events
GiteaCreateWebhook(events) == events
ForgejoCreateWebhook(events) == events
GitcodeCreateWebhook(events) == events
GitlabCreateWebhook(events) ==
    {"PushEvents"}
    \cup If(events \cap MergeNames # {}, "MergeRequestsEvents")
    \cup If(events \cap TagNames # {}, "TagPushEvents")
TencentcodeCreateWebhook(events) ==
    {"PushEvents"}
    \cup If(events \cap MergeNames # {}, "MergeRequestsEvents")
    \cup If(events \cap TagNames # {}, "TagPushEvents")

(* A name the table lacks sets no flag.                                    *)
GiteeHookEventFlags ==
    [push |-> "PushEvents", tag_push |-> "TagPushEvents",
     issues |-> "IssuesEvents", note |-> "NoteEvents",
     comment |-> "NoteEvents", pull_request |-> "MergeRequestsEvents"]
GiteeCreateWebhook(events) ==
    Image(GiteeHookEventFlags, events \cap DOMAIN GiteeHookEventFlags)

CreateWebhook(b, events) ==
    CASE b = "github" -> GithubCreateWebhook(events)
      [] b = "gitlab" -> GitlabCreateWebhook(events)
      [] b = "gitea" -> GiteaCreateWebhook(events)
      [] b = "forgejo" -> ForgejoCreateWebhook(events)
      [] b = "gitee" -> GiteeCreateWebhook(events)
      [] b = "gitcode" -> GitcodeCreateWebhook(events)
      [] b = "tencentcode" -> TencentcodeCreateWebhook(events)

(* The events of a request that reach the platform: those with a flag, and *)
(* push, which gitlab and tencentcode always set.                          *)
CarriedEvents(b, events) ==
    CASE b \in {"gitlab", "tencentcode"} ->
             {"push"} \cup (events \cap (MergeNames \cup TagNames))
      [] b = "gitee" -> events \cap DOMAIN GiteeHookEventFlags
      [] b \in {"github", "gitea", "forgejo", "gitcode"} -> events

(* Webhooks: what the converters read.  The URL is the target the hook was *)
(* created with, except on github: CreateWebhook puts the target into      *)
(* Config.URL and convertHook reads URL, the hook's own API resource.      *)
GithubConvertHook(body) == [url |-> "resource", events |-> body]
GiteaConvertHook(body) == [url |-> "target", events |-> body]
ForgejoConvertHook(body) == [url |-> "target", events |-> body]
GitcodeConvertHook(body) == [url |-> "target", events |-> body]
GitlabConvertHook(body) ==
    [url |-> "target",
     events |-> Image([PushEvents |-> "push",
                      MergeRequestsEvents |-> "merge_request",
                      TagPushEvents |-> "tag_push"], body)]
TencentcodeConvertWebhook(body) ==
    [url |-> "target",
     events |-> Image([PushEvents |-> "push",
                      MergeRequestsEvents |-> "merge_request",
                      TagPushEvents |-> "tag_push"], body)]
GiteeConvertHook(body) ==
    [url |-> "target",
     events |-> Image([PushEvents |-> "push", TagPushEvents |-> "tag_push",
                      IssuesEvents |-> "issues", NoteEvents |-> "note",
                      MergeRequestsEvents |-> "pull_request"], body)]

ConvertHook(b, body) ==
    CASE b = "github" -> GithubConvertHook(body)
      [] b = "gitlab" -> GitlabConvertHook(body)
      [] b = "gitea" -> GiteaConvertHook(body)
      [] b = "forgejo" -> ForgejoConvertHook(body)
      [] b = "gitee" -> GiteeConvertHook(body)
      [] b = "gitcode" -> GitcodeConvertHook(body)
      [] b = "tencentcode" -> TencentcodeConvertWebhook(body)

-----------------------------------------------------------------------------
(* Deploy keys.  gitee's create request has no read-only field, and its    *)
(* converter leaves ReadOnly at false.                                     *)
GithubDeployKey(key) == key
GitlabDeployKey(key) == [key |-> key.key, canPush |-> ~key.readOnly]
GiteaDeployKey(key) == key
ForgejoDeployKey(key) == key
GitcodeDeployKey(key) == key
GiteeDeployKey(key) == [key |-> key.key]
CarriesReadOnly(b) == b # "gitee"

AddDeployKey(b, key) ==
    CASE b = "github" -> GithubDeployKey(key)
      [] b = "gitlab" -> GitlabDeployKey(key)
      [] b = "gitea" -> GiteaDeployKey(key)
      [] b = "forgejo" -> ForgejoDeployKey(key)
      [] b = "gitcode" -> GitcodeDeployKey(key)
      [] b = "gitee" -> GiteeDeployKey(key)

GithubConvertKey(k) == k
GitlabConvertKey(k) == [key |-> k.key, readOnly |-> ~k.canPush]
GiteaConvertKey(k) == k
ForgejoConvertKey(k) == k
GitcodeConvertKey(k) == k
GiteeConvertKey(k) == [key |-> k.key, readOnly |-> FALSE]

ConvertDeployKey(b, k) ==
    CASE b = "github" -> GithubConvertKey(k)
      [] b = "gitlab" -> GitlabConvertKey(k)
      [] b = "gitea" -> GiteaConvertKey(k)
      [] b = "forgejo" -> ForgejoConvertKey(k)
      [] b = "gitcode" -> GitcodeConvertKey(k)
      [] b = "gitee" -> GiteeConvertKey(k)

-----------------------------------------------------------------------------
(* Branch protections: [reviews, checks, force, deletions] to the caller.  *)
(* Each operator gives the platform's record after a request for want that *)
(* found the record cur (equal to want's own when there was none).         *)

GithubUpdateRule(cur, want) == want
GitlabUpdateRule(cur, want) == [force |-> want.force]
GiteaUpdateRule(cur, want) ==
    [approvals |-> want.reviews, statusCheck |-> want.checks,
     push |-> want.force, blockOnRejected |-> cur.blockOnRejected]
ForgejoUpdateRule(cur, want) ==
    [approvals |-> want.reviews, statusCheck |-> want.checks,
     push |-> want.force, blockOnRejected |-> cur.blockOnRejected]
GitcodeUpdateRule(cur, want) == want
GiteeUpdateRule(cur, want) == "set"

UpdateRule(b, cur, want) ==
    CASE b = "github" -> GithubUpdateRule(cur, want)
      [] b = "gitlab" -> GitlabUpdateRule(cur, want)
      [] b = "gitea" -> GiteaUpdateRule(cur, want)
      [] b = "forgejo" -> ForgejoUpdateRule(cur, want)
      [] b = "gitcode" -> GitcodeUpdateRule(cur, want)
      [] b = "gitee" -> GiteeUpdateRule(cur, want)

(* The create requests carry the same fields; a new record on gitea and    *)
(* forgejo does not block on rejected reviews.                             *)
GitlabCreateRule(want) == [force |-> want.force]
GiteaCreateRule(want) ==
    [approvals |-> want.reviews, statusCheck |-> want.checks,
     push |-> want.force, blockOnRejected |-> FALSE]
ForgejoCreateRule(want) ==
    [approvals |-> want.reviews, statusCheck |-> want.checks,
     push |-> want.force, blockOnRejected |-> FALSE]
GiteeCreateRule(want) == "set"

(* A record made by hand on github or gitcode has every field.             *)
CreateRule(b, want) ==
    CASE b = "gitlab" -> GitlabCreateRule(want)
      [] b = "gitea" -> GiteaCreateRule(want)
      [] b = "forgejo" -> ForgejoCreateRule(want)
      [] b = "gitee" -> GiteeCreateRule(want)
      [] b \in {"github", "gitcode"} -> want

GithubConvertProtection(r) == r
GitlabConvertProtectedBranch(r) ==
    [reviews |-> 0, checks |-> FALSE, force |-> r.force, deletions |-> FALSE]
GiteaConvertProtection(r) ==
    [reviews |-> r.approvals, checks |-> r.statusCheck, force |-> r.push,
     deletions |-> ~r.blockOnRejected]
ForgejoConvertProtection(r) ==
    [reviews |-> r.approvals, checks |-> r.statusCheck, force |-> r.push,
     deletions |-> ~r.blockOnRejected]
GitcodeConvertProtectionRule(r) == r

ConvertRule(b, r) ==
    CASE b = "github" -> GithubConvertProtection(r)
      [] b = "gitlab" -> GitlabConvertProtectedBranch(r)
      [] b = "gitea" -> GiteaConvertProtection(r)
      [] b = "forgejo" -> ForgejoConvertProtection(r)
      [] b = "gitcode" -> GitcodeConvertProtectionRule(r)

(* The fields a request carries to the platform.                           *)
CarriedFields(b) ==
    CASE b \in {"github", "gitcode"} ->
             {"reviews", "checks", "force", "deletions"}
      [] b \in {"gitea", "forgejo"} -> {"reviews", "checks", "force"}
      [] b = "gitlab" -> {"force"}
      [] b = "gitee" -> {}

-----------------------------------------------------------------------------
(* Requests.  gitee and gitcode list webhooks with one request, gitcode    *)
(* deploy keys too; every other list walks all the pages.                  *)
SingleShot(b, kind) ==
    \/ kind = "hook" /\ b \in {"gitee", "gitcode"}
    \/ kind = "key" /\ b = "gitcode"

(* provider.IsNotFound of the error for a rule that is missing: gitcode    *)
(* formats an error of its own that no sentinel is part of.                *)
MissingIsNotFound(b) == b # "gitcode"

(* UpdateBranchProtection: github and gitcode read the rule again, gitcode *)
(* then deletes and creates, the others send one request.                  *)
FirstUpdateStep(b) == IF b \in {"github", "gitcode"} THEN "reread" ELSE "write"

(* CreateBranchProtection of github is its update.                         *)
FirstCreateStep(b) == IF b = "github" THEN "reread" ELSE "create"

(* A write for a rule that is missing: gitee's and github's PUT make it,   *)
(* the PATCH of the others is refused.                                     *)
WriteMakesRule(b) == b \in {"github", "gitee"}

(* A create for a rule that exists: gitcode's PUT replaces it, and gitee's *)
(* sets it again.                                                          *)
CreateReplaces(b) == b \in {"gitcode", "gitee"}
=============================================================================
