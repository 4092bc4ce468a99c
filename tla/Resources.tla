----------------------------- MODULE Resources ------------------------------
(***************************************************************************)
(* Clients that work on one issue, change request, milestone, release,     *)
(* file or repository through a backend, and on the labels there.  Each    *)
(* request of a call is a step of its own; any of them may fail before it  *)
(* takes effect or lose its answer after it did.  Each client has a        *)
(* provider of its own, with its cache of label ids.  The platform behind  *)
(* the requests is as the backends rely on it.                             *)
(***************************************************************************)
EXTENDS IssueRequests, ChangeRequests, RepoRequests, FiniteSets

CONSTANTS
    Clients,
    Calls(_, _),   \* by topic and client: records of op and o
    MaxRuns,       \* bound: calls
    MaxFaults      \* bound: failed requests

ASSUME ResourcesAssumption == MaxRuns \in Nat /\ MaxFaults \in Nat

VARIABLES
    backend, topic,
    capped,     \* the platform pages labels one by one, however many are asked
    item,       \* the issue, change request, milestone, release or file
    labels,     \* the labels of the repository: id and name
    nextLabel,
    cache,      \* per client, the ids its provider remembers: id and name
    call,       \* per client, its current or last call
    runs, faults

vars == <<backend, topic, capped, item, labels, nextLabel, cache, call, runs,
          faults>>
setting == <<backend, topic, capped>>

Topics == {"issue", "cr", "milestone", "release", "file", "repo"}
Names == {"bug", "doc"}

-----------------------------------------------------------------------------
(* The platform.                                                           *)

FieldsOf(t) ==
    CASE t = "issue" -> IssueFields
      [] t = "cr" -> {"title", "body", "target", "state", "labels"}
      [] t = "milestone" -> MilestoneFields
      [] t = "release" -> ReleaseFields
      [] t = "file" -> {"content"}
      [] t = "repo" -> RepoFields

Fresh(t) ==
    [f \in FieldsOf(t) |->
        CASE f = "state" -> "open" [] f = "labels" -> {} [] OTHER -> "old"]

NamesOf(ids) == {l.name : l \in {k \in labels : k.id \in ids}}
IdsOf(names) == {l.id : l \in {k \in labels : k.name \in names}}
LabelIds == {l.id : l \in labels}
LabelNames == {l.name : l \in labels}

ShortWords(b) == b \in {"gitlab", "tencentcode"}

(* The state an edit asks for, and the state word an answer carries.       *)
EditedState(word) ==
    CASE ~ShortWords(backend) \/ topic \notin {"issue", "cr", "milestone"} ->
            IF word \in {"open", "closed"} THEN word ELSE ""
      [] word = "close" -> "closed"
      [] topic # "milestone" /\ word = "reopen" -> "open"
      [] topic = "milestone" /\ backend = "gitlab" /\ word = "activate" ->
            "open"
      [] topic = "milestone" /\ backend = "tencentcode" /\ word = "active" ->
            "open"
      [] OTHER -> ""

StateWord(s) ==
    CASE ShortWords(backend) /\ s = "open" ->
            IF topic = "milestone" THEN "active" ELSE "opened"
      [] s = "merged" /\ ~ShortWords(backend) /\ backend # "gitee" -> "closed"
      [] OTHER -> s

(* A word the list of a platform does not know selects every state.        *)
Selects(filter, s) ==
    \/ filter = StateWord(s)
    \/ filter \notin {StateWord(k) : k \in {"open", "closed", "merged"}}

(* A merged change request keeps its state.                                *)
Accepts(put) ==
    "state" \in DOMAIN put =>
        /\ EditedState(put.state) # ""
        /\ item.field["state"] # "merged"

-----------------------------------------------------------------------------
(* The calls.                                                              *)

Steps(b, t, op, o) ==
    CASE t = "issue" /\ op = "list" -> <<List(ListIssues(b, o.state))>>
      [] t = "cr" /\ op = "list" -> <<List(ListCRs(b, o.state))>>
      [] t = "milestone" /\ op = "list" -> <<List(ListMilestones(b, o.state))>>
      [] t = "issue" /\ op \in {"add", "remove"} ->
            IssueLabelsCall(b, op, o.labels)
      [] t = "issue" /\ op \in {"newlabel", "rename", "droplabel"} ->
            LabelCall(b, op, o.name, o.to)
      [] t = "issue" /\ op \in {"create", "update", "close", "reopen"} ->
            IssueCall(b, op, o)
      [] t = "cr" /\ op = "create" -> CreateCR(b, o)
      [] t = "cr" /\ op \notin {"create", "list"} -> CRCall(b, op, o)
      [] t = "milestone" /\ op # "list" -> MilestoneCall(b, op, o)
      [] t = "release" -> ReleaseCall(b, op, o)
      [] t = "file" -> FileCall(b, op, o)
      [] t = "repo" -> RepoEditCall(b, op, o)

ShownState ==
    CASE topic = "issue" ->
            ConvertIssue(backend, StateWord(item.field["state"]))
      [] topic = "cr" ->
            ConvertCR(backend, [state |-> StateWord(item.field["state"]),
                                merged |-> item.field["state"] = "merged"])
      [] topic = "milestone" ->
            ConvertMilestone(backend, StateWord(item.field["state"]))

(* What holds of a call of c when it begins: its labels are told apart by  *)
(* what its provider remembers or finds, and the platform has no reason to *)
(* refuse it.                                                              *)
Wanted(q) ==
    (IF "labels" \in DOMAIN q.o THEN q.o.labels ELSE {}) \cup
    (IF q.op \in {"rename", "droplabel"} THEN {q.o.name} ELSE {})

FirstPage == {l \in labels : ~capped \/ \A k \in labels : l.id <= k.id}

Exact(c, q) ==
    \A n \in Wanted(q) :
        /\ {k \in cache[c] : k.name = n} \subseteq labels
        /\ \E l \in FirstPage : l.name = n

Legal(q) ==
    /\ q.op \in {"newlabel", "rename", "droplabel", "list"} \/
       item.there = (q.op # "create")
    /\ Wanted(q) \subseteq LabelNames
    /\ q.op \in {"newlabel", "rename"} => q.o.to \notin LabelNames
    /\ q.op = "remove" => q.o.labels \subseteq NamesOf(item.field["labels"])
    /\ q.op = "merge" => item.field["state"] = "open" /\ ~item.conflict
    /\ q.op = "close" => item.field["state"] = "open"
    /\ q.op = "reopen" => item.field["state"] = "closed"

Idle == [op |-> "none", o |-> << >>, steps |-> << >>, out |-> "idle",
         seen |-> << >>, ids |-> {}, held |-> << >>,
         alone |-> FALSE, exact |-> FALSE, legal |-> FALSE, listed |-> FALSE]

Active(c) == call[c].steps # << >>
Doing(c, kind) == Active(c) /\ Head(call[c].steps).do = kind

Finished(r, out) ==
    [r EXCEPT !.steps = << >>, !.out = out, !.seen = Idle.seen, !.ids = {},
              !.held = Idle.held]
Onward(r) ==
    IF Len(r.steps) = 1 THEN Finished(r, "ok")
    ELSE [r EXCEPT !.steps = Tail(@)]
Quit(r) == Finished(r, "failed")

(* The answer comes, and the call goes on from r; the answer of a request  *)
(* that took effect is lost; the platform refuses.                         *)
Reply(c, r) == call' = [call EXCEPT ![c] = Onward(r)] /\ UNCHANGED faults
Lose(c) ==
    /\ faults < MaxFaults
    /\ faults' = faults + 1
    /\ call' = [call EXCEPT ![c] = Quit(@)]
Answer(c) == Reply(c, call[c]) \/ Lose(c)
Refuse(c) ==
    /\ call' = [call EXCEPT ![c] = Quit(@)]
    /\ UNCHANGED <<item, labels, nextLabel, cache, faults>>

-----------------------------------------------------------------------------
(* Labels of the first repository, and of one where they have been renamed *)
(* since a provider looked.                                                *)
Init ==
    /\ backend \in Backends
    /\ topic \in Topics
    /\ capped \in IF backend \in {"gitea", "forgejo"} THEN BOOLEAN ELSE {FALSE}
    /\ labels \in {{[id |-> 1, name |-> "bug"]},
                   {[id |-> 1, name |-> "doc"], [id |-> 2, name |-> "bug"]}}
    /\ Cardinality(labels) = 2 =>
           topic = "issue" /\ (ById(backend) \/ backend = "tencentcode")
    /\ nextLabel = Cardinality(labels) + 1
    /\ cache \in [Clients -> IF topic = "issue" /\ ById(backend)
                             THEN {{}, {[id |-> 1, name |-> "bug"]},
                                   {[id |-> 1, name |-> "doc"]}}
                             ELSE {{}}]
    /\ \E there, conflict \in BOOLEAN, s \in {"open", "closed", "merged"},
          on \in SUBSET LabelIds :
        /\ s = "merged" => topic = "cr" /\ there
        /\ s = "closed" => topic \in {"issue", "cr", "milestone"} /\ there
        /\ conflict => topic = "cr" /\ there
        /\ on # {} => topic \in {"issue", "cr"} /\ there
        /\ item = [there |-> there, id |-> 1, conflict |-> conflict,
                   field |-> [f \in FieldsOf(topic) |->
                       CASE f = "state" -> s [] f = "labels" -> on
                         [] OTHER -> "old"]]
    /\ call = [c \in Clients |-> Idle]
    /\ runs = 0
    /\ faults = 0

Begin(c) ==
    /\ ~Active(c)
    /\ runs < MaxRuns
    /\ runs' = runs + 1
    /\ \E q \in Calls(topic, c) :
        call' = [d \in Clients |->
            IF d = c
            THEN [Idle EXCEPT
                     !.op = q.op, !.o = q.o, !.out = "",
                     !.steps = Steps(backend, topic, q.op, q.o),
                     !.held = [id |-> item.id, field |-> item.field],
                     !.alone = \A e \in Clients : ~Active(e),
                     !.exact = Exact(c, q), !.legal = Legal(q)]
            ELSE [call[d] EXCEPT !.alone = @ /\ ~Active(d)]]
    /\ UNCHANGED <<setting, item, labels, nextLabel, cache, faults>>

(* A request that does not take effect; only a merge goes on without what  *)
(* it asked first.                                                         *)
Fail(c) ==
    /\ Active(c)
    /\ ~Doing(c, "unsupported")
    /\ faults < MaxFaults
    /\ faults' = faults + 1
    /\ call' = [call EXCEPT ![c] =
                    IF Doing(c, "preflight") THEN Onward(@) ELSE Quit(@)]
    /\ UNCHANGED <<setting, item, labels, nextLabel, cache, runs>>

(* The item as a call addresses it: a milestone by its number, a file by   *)
(* its path, anything else by a name that lasts.                           *)
Reached(c, by) ==
    /\ item.there
    /\ topic = "milestone" => item.id = call[c].held.id
    /\ by = "id" => item.id = call[c].seen.id
    /\ by = "version" => item.field = call[c].held.field

GetItem(c) ==
    /\ Doing(c, "get")
    /\ \/ /\ item.there
          /\ Reply(c, [call[c] EXCEPT !.seen =
                 [id |-> item.id, field |-> item.field,
                  names |-> IF topic = "issue"
                            THEN NamesOf(item.field["labels"]) ELSE {}]])
          /\ UNCHANGED <<item, labels, nextLabel, cache>>
       \/ ~item.there /\ Refuse(c)
    /\ UNCHANGED <<setting, runs>>

PreflightMerge(c) ==
    /\ Doing(c, "preflight")
    /\ LET barred ==
               /\ item.there
               /\ \/ ShownState # "opened"
                  \/ item.conflict /\ Head(call[c].steps).conflicts
       IN  \/ barred /\ Refuse(c)
           \/ ~barred /\ Reply(c, call[c])
              /\ UNCHANGED <<item, labels, nextLabel, cache>>
    /\ UNCHANGED <<setting, runs>>

LookUpUsers(c) ==
    /\ Doing(c, "lookup")
    /\ Reply(c, call[c])
    /\ UNCHANGED <<setting, item, labels, nextLabel, cache, runs>>

(* A name that is not found is not remembered.                             *)
NotFound(c, name) == Refuse(c)

(* One name after the other: from the cache while its entry lives, or by a *)
(* walk that ends at a page with fewer labels than were asked for.         *)
ResolveLabel(c) ==
    /\ Doing(c, "resolve")
    /\ \E n \in Head(call[c].steps).names :
        LET left == Head(call[c].steps).names \ {n}
            Found(id) ==
                LET r == [call[c] EXCEPT !.ids = @ \cup {id},
                                         !.steps[1] = Resolve(left)]
                IN  /\ call' = [call EXCEPT
                                   ![c] = IF left = {} THEN Onward(r) ELSE r]
                    /\ UNCHANGED <<item, labels, nextLabel, faults>>
            held == {k \in cache[c] : k.name = n}
        IN  \/ \E k \in held : Found(k.id) /\ UNCHANGED cache
            \/ \E l \in FirstPage :
                   /\ l.name = n
                   /\ Found(l.id)
                   /\ cache' = [cache EXCEPT ![c] = (@ \ held) \cup {l}]
            \/ (\A l \in FirstPage : l.name # n) /\ NotFound(c, n)
    /\ UNCHANGED <<setting, runs>>

-----------------------------------------------------------------------------
(* Labels the platform does not know are refused or left out.              *)
Known(names) == IdsOf(names)
MayRefuse(c, unknown) == unknown # {} /\ Refuse(c)

(* The fields of an item after p, with the state and labels an edit asks   *)
(* for.                                                                    *)
Written(fields, p) ==
    [f \in DOMAIN fields |->
        CASE f \notin DOMAIN p -> fields[f]
          [] f = "state" -> EditedState(p[f])
          [] f = "labels" -> Known(p[f])
          [] OTHER -> p[f]]

LabelsIn(p) == IF "labels" \in DOMAIN p THEN p.labels ELSE {}

(* A release has its tag, a file its path and a repository its name;       *)
(* anything else that is created once more is an item of its own.          *)
CreateItem(c) ==
    /\ Doing(c, "create")
    /\ LET s == Head(call[c].steps)
           made == Written(Fresh(topic), s.put)
           once == topic \in {"release", "file", "repo"}
       IN  \/ item.there /\ once /\ Refuse(c)
           \/ /\ item.there /\ ~once /\ Answer(c)
              /\ UNCHANGED <<item, labels, nextLabel, cache>>
           \/ MayRefuse(c, LabelsIn(s.put) \ LabelNames)
           \/ ~item.there /\ s.ids /\ MayRefuse(c, call[c].ids \ LabelIds)
           \/ /\ ~item.there
              /\ item' = [item EXCEPT
                     !.there = TRUE, !.id = @ + 1,
                     !.field = IF s.ids
                               THEN [made EXCEPT !["labels"] =
                                        call[c].ids \cap LabelIds]
                               ELSE made]
              /\ Answer(c)
              /\ UNCHANGED <<labels, nextLabel, cache>>
    /\ UNCHANGED <<setting, runs>>

EditItem(c) ==
    /\ Doing(c, "edit")
    /\ LET s == Head(call[c].steps)
       IN  \/ ~(Reached(c, s.by) /\ Accepts(s.put)) /\ Refuse(c)
           \/ MayRefuse(c, LabelsIn(s.put) \ LabelNames)
           \/ /\ Reached(c, s.by) /\ Accepts(s.put)
              /\ item' = [item EXCEPT !.field =
                     [f \in DOMAIN @ |->
                         IF f \in s.back THEN call[c].seen.field[f]
                         ELSE Written(@, s.put)[f]]]
              /\ Answer(c)
              /\ UNCHANGED <<labels, nextLabel, cache>>
    /\ UNCHANGED <<setting, runs>>

DeleteItem(c) ==
    /\ Doing(c, "delete")
    /\ \/ ~Reached(c, Head(call[c].steps).by) /\ Refuse(c)
       \/ /\ Reached(c, Head(call[c].steps).by)
          /\ item' = [item EXCEPT !.there = FALSE, !.field = Fresh(topic)]
          /\ Answer(c)
          /\ UNCHANGED <<labels, nextLabel, cache>>
    /\ UNCHANGED <<setting, runs>>

(* A merge, and the look at the change request after a refusal.            *)
MergeItem(c) ==
    /\ Doing(c, "merge")
    /\ LET mergeable == /\ item.there /\ item.field["state"] = "open"
                        /\ ~item.conflict
       IN  \/ /\ mergeable
              /\ item' = [item EXCEPT !.field["state"] = "merged"]
              /\ Answer(c)
              /\ UNCHANGED <<labels, nextLabel, cache>>
           \/ ~mergeable /\ ~Head(call[c].steps).recover /\ Refuse(c)
           \/ /\ ~mergeable /\ Head(call[c].steps).recover
              /\ call' = [call EXCEPT ![c].steps = <<[do |-> "recover"]>>]
              /\ UNCHANGED <<item, labels, nextLabel, cache, faults>>
    /\ UNCHANGED <<setting, runs>>

RecoverMerge(c) ==
    /\ Doing(c, "recover")
    /\ LET merged == item.there /\ ShownState = "merged"
       IN  \/ merged /\ Reply(c, call[c])
              /\ UNCHANGED <<item, labels, nextLabel, cache>>
           \/ ~merged /\ Refuse(c)
    /\ UNCHANGED <<setting, runs>>

ListItem(c) ==
    /\ Doing(c, "list")
    /\ Reply(c, [call[c] EXCEPT
           !.listed = /\ item.there
                      /\ Selects(Head(call[c].steps).filter,
                                 item.field["state"])])
    /\ UNCHANGED <<setting, item, labels, nextLabel, cache, runs>>

NotSupported(c) ==
    /\ Doing(c, "unsupported")
    /\ Refuse(c)
    /\ UNCHANGED <<setting, runs>>

-----------------------------------------------------------------------------
(* The labels on the item.                                                 *)
Labelled(how, on, ids) ==
    CASE how = "add" -> on \cup ids
      [] how = "remove" -> on \ ids
      [] how = "set" -> ids

PutLabels(c, on) ==
    /\ item' = [item EXCEPT !.field["labels"] = on]
    /\ Answer(c)
    /\ UNCHANGED <<labels, nextLabel, cache>>

LabelItem(c) ==
    /\ Doing(c, "labels")
    /\ LET s == Head(call[c].steps)
       IN  \/ ~item.there /\ Refuse(c)
           \/ MayRefuse(c, s.names \ LabelNames)
           \/ /\ item.there
              /\ PutLabels(c, Labelled(s.how, item.field["labels"],
                                       Known(s.names)))
    /\ UNCHANGED <<setting, runs>>

LabelItemById(c) ==
    /\ Doing(c, "labelids")
    /\ \/ ~item.there /\ Refuse(c)
       \/ MayRefuse(c, call[c].ids \ LabelIds)
       \/ /\ item.there
          /\ PutLabels(c, Labelled(Head(call[c].steps).how,
                                   item.field["labels"],
                                   call[c].ids \cap LabelIds))
    /\ UNCHANGED <<setting, runs>>

(* The labels the get showed, with those added or removed; an empty set is *)
(* not sent.                                                               *)
RewriteLabels(c) ==
    /\ Doing(c, "rewrite")
    /\ LET s == Head(call[c].steps)
           full == Labelled(s.how, call[c].seen.names, s.names)
       IN  \/ ~item.there /\ Refuse(c)
           \/ MayRefuse(c, full \ LabelNames)
           \/ /\ item.there
              /\ PutLabels(c, IF full = {} THEN item.field["labels"]
                              ELSE Known(full))
    /\ UNCHANGED <<setting, runs>>

(* The labels of the repository: a name is there once, and a label that is *)
(* deleted is taken off the item.                                          *)
CreateLabel(c) ==
    /\ Doing(c, "newlabel")
    /\ LET name == Head(call[c].steps).name
       IN  \/ name \in LabelNames /\ Refuse(c)
           \/ /\ name \notin LabelNames
              /\ labels' = labels \cup {[id |-> nextLabel, name |-> name]}
              /\ nextLabel' = nextLabel + 1
              /\ Answer(c)
              /\ UNCHANGED <<item, cache>>
    /\ UNCHANGED <<setting, runs>>

Meant(c) ==
    LET s == Head(call[c].steps)
    IN  {l \in labels : IF s.by = "id" THEN l.id \in call[c].ids
                        ELSE l.name = s.name}

RenameLabel(c) ==
    /\ Doing(c, "relabel") /\ Head(call[c].steps).to # ""
    /\ LET to == Head(call[c].steps).to
           free == \A k \in labels \ Meant(c) : k.name # to
       IN  \/ ~(Meant(c) # {} /\ free) /\ Refuse(c)
           \/ /\ free
              /\ \E l \in Meant(c) :
                     labels' = (labels \ {l}) \cup {[l EXCEPT !.name = to]}
              /\ Answer(c)
              /\ UNCHANGED <<item, nextLabel, cache>>
    /\ UNCHANGED <<setting, runs>>

DeleteLabel(c) ==
    /\ Doing(c, "relabel") /\ Head(call[c].steps).to = ""
    /\ \/ Meant(c) = {} /\ Refuse(c)
       \/ /\ Meant(c) # {}
          /\ labels' = labels \ Meant(c)
          /\ item' = [item EXCEPT !.field["labels"] =
                         @ \ {l.id : l \in Meant(c)}]
          /\ Answer(c)
          /\ UNCHANGED <<nextLabel, cache>>
    /\ UNCHANGED <<setting, runs>>

(* After the last call everyone rests.                                     *)
Rest ==
    /\ runs = MaxRuns
    /\ \A c \in Clients : ~Active(c)
    /\ UNCHANGED vars

Next ==
    \/ Rest
    \/ \E c \in Clients :
        \/ Begin(c) \/ Fail(c) \/ GetItem(c) \/ PreflightMerge(c)
        \/ LookUpUsers(c) \/ ResolveLabel(c)
        \/ CreateItem(c) \/ EditItem(c) \/ DeleteItem(c)
        \/ MergeItem(c) \/ RecoverMerge(c) \/ ListItem(c) \/ NotSupported(c)
        \/ LabelItem(c) \/ LabelItemById(c) \/ RewriteLabels(c)
        \/ CreateLabel(c) \/ RenameLabel(c) \/ DeleteLabel(c)

Spec == Init /\ [][Next]_vars

-----------------------------------------------------------------------------
(* The fields a call names, and the labels.                                *)
Named(q) ==
    CASE q.op \in {"update", "create"} -> DOMAIN q.o
      [] q.op \in {"close", "reopen", "merge"} -> {"state"}
      [] q.op \in {"add", "remove", "labels", "droplabel"} -> {"labels"}
      [] OTHER -> {}

(* What the backends write back or send without being asked, so that a     *)
(* write of someone else in between is undone: the title of an issue and   *)
(* the title and notes of a release where an edit must carry them; for     *)
(* Gitee's UpdateCR, the title and body even alone, and for its UpdateRepo *)
(* the branch as well.                                                     *)
CarriedBack ==
    CASE topic = "issue" /\ backend \in {"gitea", "forgejo"} -> {"title"}
      [] topic = "release" /\ backend \in {"gitea", "forgejo", "gitcode"} ->
            {"title", "body"}
      [] OTHER -> {}

MayTouch(r, f) ==
    \/ f \in Named(r)
    \/ ~r.alone /\ f \in CarriedBack
    \/ backend = "gitee" /\ topic \in {"cr", "repo"} /\ r.op = "update" /\
       f \in {"title", "body", "branch"}

(* A label goes on or off an item only by a call that names it, unless     *)
(* Tencent Code's rewrite raced or an id was stale; UpdateIssue and        *)
(* UpdateCRLabels may replace them all.                                    *)
MayLabel(r, n) ==
    \/ n \in Wanted(r)
    \/ r.op \in {"update", "labels"}
    \/ backend = "tencentcode" /\ ~r.alone
    \/ ById(backend) /\ ~(r.alone /\ r.exact)

(* A call changes nothing of the item but what it names: not the other     *)
(* fields (options.go, "leave unchanged"), not the other labels, and a     *)
(* file only in the version its caller holds, except where the backend     *)
(* does not send the SHA.                                                  *)
OnlyNamed ==
    [][\A c \in Clients :
        LET r == call[c]
        IN  (r # call'[c] /\ Active(c) /\ item.there /\ item'.there) =>
            /\ \A f \in FieldsOf(topic) :
                   item'.field[f] # item.field[f] => MayTouch(r, f)
            /\ topic = "issue" =>
                   \A l \in labels \cap labels' :
                       (l.id \in item.field["labels"]) #
                       (l.id \in item'.field["labels"]) => MayLabel(r, l.name)
            /\ (topic = "file" /\ item' # item /\ ~ShortWords(backend)) =>
                   item.field = r.held.field]_vars

(* What the backends leave out of a call that succeeds.                    *)
LeftOut(q) ==
    CASE backend = "github" /\ topic = "issue" /\ q.op = "update" -> {"state"}
      [] topic = "cr" /\ q.op = "create" /\ backend \notin {"gitlab", "gitee"} ->
            {"labels"}
      [] topic = "cr" /\ q.op = "update" /\ backend = "gitee" -> {"target"}
      [] topic = "repo" /\ q.op = "create" /\
         backend \in {"gitee", "gitcode", "tencentcode"} -> {"branch"}
      [] topic = "release" /\ backend = "gitlab" -> {"draft", "prerelease"}
      [] topic = "release" /\ backend = "gitee" -> {"draft"}
      [] topic = "release" /\ backend = "tencentcode" ->
            {"title", "draft", "prerelease"}
      [] OTHER -> {}

Shows(f, v) == IF f = "labels" THEN NamesOf(item.field[f]) = v
               ELSE item.field[f] = v

Delivered(q) ==
    CASE q.op \in {"create", "update"} ->
            /\ item.there
            /\ \A f \in DOMAIN q.o \ LeftOut(q) : Shows(f, q.o[f])
      [] q.op = "delete" -> ~item.there
      [] q.op = "close" -> item.field["state"] = "closed"
      [] q.op = "reopen" -> item.field["state"] = "open"
      [] q.op = "merge" -> item.field["state"] = "merged"
      [] q.op \in {"add", "labels"} ->
            \/ q.o.labels \subseteq NamesOf(item.field["labels"])
            \/ q.op = "labels" /\ backend \in {"gitea", "forgejo"}
      [] q.op = "remove" ->
            \/ q.o.labels \cap NamesOf(item.field["labels"]) = {}
            \/ backend = "tencentcode" /\
               q.o.labels = NamesOf(item.field["labels"])
      [] q.op = "newlabel" -> q.o.to \in LabelNames
      [] q.op = "rename" -> q.o.to \in LabelNames /\ q.o.name \notin LabelNames
      [] q.op = "droplabel" -> q.o.name \notin LabelNames
      [] OTHER -> TRUE

(* A call that nobody disturbs, that names labels its provider knows       *)
(* rightly and that the platform has no reason to refuse, fails only with  *)
(* a request of its own, and when it succeeds the platform holds what it   *)
(* was asked for, translated as it may have been on the way.               *)
LoneDelivers ==
    [][\A c \in Clients :
        LET r == call[c]
        IN  (Active(c) /\ call'[c].out # "" /\ r.alone /\ r.exact /\ r.legal)
            => /\ call'[c].out = "ok" => Delivered(r)'
               /\ call'[c].out = "failed" =>
                      faults' # faults \/ Doing(c, "unsupported")]_vars

(* A merge that succeeds leaves the change request merged for good; on     *)
(* Gitea and Forgejo one that fails with no failed request found it        *)
(* unmerged, whoever merged it (gitea/crs.go, "already merged; recover").  *)
MergeRetrySafe ==
    [][\A c \in Clients :
        /\ (call[c].op = "merge" /\ call'[c].out = "ok") =>
               item'.field["state"] = "merged"
        /\ (/\ backend \in {"gitea", "forgejo"} /\ call[c].op = "merge"
            /\ Active(c) /\ call'[c].out = "failed" /\ faults' = faults)
            => item.field["state"] # "merged"]_vars

(* The filters that select more than was asked: the platform has no word   *)
(* for merged, or is sent one it does not know.                            *)
Wider(state) ==
    \/ topic = "cr" /\ state \in {"merged", "closed"} /\
       backend \in {"github", "gitea", "gitcode"}
    \/ topic = "cr" /\ state \in {"opened", "merged", "closed"} /\
       backend = "forgejo"
    \/ topic = "milestone" /\ backend = "tencentcode"

(* A list shows the item when it is in the state that was asked for and    *)
(* not otherwise, the state being the one the caller is shown.             *)
ListShowsAsked ==
    [][\A c \in Clients :
        (Doing(c, "list") /\ call'[c].out = "ok") =>
            LET asked == item.there /\ ShownState = call[c].o.state
            IN  /\ asked => call'[c].listed
                /\ call'[c].listed => asked \/ Wider(call[c].o.state)]_vars
=============================================================================
