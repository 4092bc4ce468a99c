------------------------------- MODULE Ensure -------------------------------
(***************************************************************************)
(* The Ensure helpers of provider/ensure.go: reconcilers that run at the   *)
(* same time bring one named resource of a repository to what each of them *)
(* wants, a webhook known by its URL, a deploy key by its title or a       *)
(* branch protection by its branch.  Every request to the platform is a    *)
(* step of its own, and any request may fail before it takes effect or     *)
(* lose its answer after it did.                                           *)
(***************************************************************************)
EXTENDS EnsureBackends, FiniteSets

CONSTANTS
    Clients,
    Wants,        \* per kind, the contents a reconciler may ask for
    PageSize,     \* entries per page
    MaxPages,     \* maxAllPages
    MaxInitial,   \* bound: entries before the first call
    MaxRuns,      \* bound: calls
    MaxFaults     \* bound: failed requests

ASSUME EnsureAssumption ==
    /\ PageSize \in Nat \ {0} /\ MaxPages \in Nat \ {0}
    /\ MaxInitial \in Nat /\ MaxRuns \in Nat /\ MaxFaults \in Nat

(* The parameters of the three functions: a webhook's event names, with    *)
(* the default in place of none, and the fields of provider.DeployKey and  *)
(* of provider.BranchProtection.                                           *)
ASSUME WantsAssumption ==
    Wants \in [hook : SUBSET ((SUBSET STRING) \ {{}}),
               key : SUBSET [key : STRING, readOnly : BOOLEAN],
               rule : SUBSET [reviews : Int, checks : BOOLEAN,
                              force : BOOLEAN, deletions : BOOLEAN]]

VARIABLES
    backend, kind, \* what the calls are about
    ignoresPage,   \* the platform answers every page number with page 1
    items,         \* the platform's entries, listed by ascending id
    nextId,
    call,          \* per reconciler, its current or last call
    runs, faults,  \* number of calls and of failed requests
    alone,         \* history: nobody else wrote since the call began
    fits,          \* history: the list could be read whole when it began
    had,           \* history: entries for the resource when it began
    expect,        \* history: it asks for what was settled when it began
    settled,       \* history: what a lone call left, if nobody wrote since
    debt,          \* history: deleted an entry, no success since
    existed        \* history: the resource was there at some time

platform == <<items, nextId>>
history == <<alone, fits, had, expect, settled, debt, existed>>
vars == <<backend, kind, ignoresPage, platform, call, runs, faults, history>>

None == "none"
Successes == {"created", "updated", "unchanged"}

-----------------------------------------------------------------------------
(* The body a create request leaves, and the content a converter reads.    *)
Body(want) ==
    CASE kind = "hook" -> CreateWebhook(backend, want)
      [] kind = "key" -> AddDeployKey(backend, want)
      [] kind = "rule" -> CreateRule(backend, want)

Shown(body) ==
    CASE kind = "hook" -> ConvertHook(backend, body).events
      [] kind = "key" -> ConvertDeployKey(backend, body)
      [] kind = "rule" -> ConvertRule(backend, body)

(* The entries for the resource, and those a reader recognises as such.    *)
Target(S) == {i \in S : i.name = "target"}
Recognised(i) ==
    /\ i.name = "target"
    /\ kind = "hook" => ConvertHook(backend, i.body).url = "target"

(* One page of the list.                                                   *)
Page(p) ==
    {i \in items :
        Cardinality({j \in items : j.id < i.id}) \div PageSize = p - 1}

(* The largest list one walk can read whole.                               *)
Reach == IF SingleShot(backend, kind) \/ ignoresPage
         THEN PageSize ELSE PageSize * MaxPages

(* The first of a list's entries, page by page.                            *)
First(entries) ==
    CHOOSE e \in entries : \A f \in entries :
        e.page < f.page \/ (e.page = f.page /\ e.item.id <= f.item.id)

-----------------------------------------------------------------------------
(* The bookkeeping of the history variables after a step of c.             *)
Record(c, wrote, deleted) ==
    LET ok == call'[c].out \in Successes
    IN  /\ alone' = IF wrote THEN [d \in Clients |-> d = c /\ alone[c]]
                             ELSE alone
        /\ settled' = IF ok /\ alone[c] /\ fits[c] THEN {call[c].want}
                      ELSE IF wrote THEN {} ELSE settled
        /\ debt' = [debt EXCEPT ![c] = ~ok /\ (deleted \/ @)]
        /\ existed' = (existed \/ Target(items') # {})
        /\ UNCHANGED <<fits, had, expect, runs, backend, kind, ignoresPage>>

Goto(c, pc) == [call[c] EXCEPT !.pc = pc]
Return(c, out) == [call[c] EXCEPT !.pc = "done", !.out = out, !.seen = {},
                                  !.todo = {}, !.page = 1, !.found = FALSE]
Error(c) == Return(c, "error")
Set(c, next) == call' = [call EXCEPT ![c] = next]

(* A request that took effect: the call goes on, or its answer is lost.    *)
Answer(c, next) ==
    \/ Set(c, next) /\ UNCHANGED faults
    \/ /\ faults < MaxFaults
       /\ faults' = faults + 1
       /\ Set(c, Error(c))

(* A request the platform refuses: the error is returned.                  *)
Refused(c) == /\ Set(c, Error(c))
              /\ UNCHANGED <<platform, faults>>
              /\ Record(c, FALSE, FALSE)

Fresh(want) == [pc |-> IF kind = "rule" THEN "get" ELSE "list",
                want |-> want, page |-> 1, seen |-> {}, todo |-> {},
                found |-> FALSE, out |-> ""]

(* A call of EnsureWebhook, EnsureDeployKey or EnsureBranchProtection.     *)
Begin(c, want) ==
    /\ call[c].pc = "done" /\ runs < MaxRuns
    /\ runs' = runs + 1
    /\ Set(c, Fresh(want))
    /\ alone' = [alone EXCEPT ![c] = TRUE]
    /\ fits' = [fits EXCEPT ![c] = Cardinality(items) <= Reach]
    /\ had' = [had EXCEPT ![c] = Cardinality(Target(items))]
    /\ expect' = [expect EXCEPT ![c] = want \in settled]
    /\ UNCHANGED <<backend, kind, ignoresPage, platform, faults, settled,
                   debt, existed>>

(* A request that is lost before it takes effect, or fails.                *)
Fail(c) ==
    /\ call[c].pc # "done" /\ faults < MaxFaults
    /\ call[c].pc = "get" => backend # "gitee"
    /\ faults' = faults + 1
    /\ Set(c, Error(c))
    /\ UNCHANGED platform
    /\ Record(c, FALSE, FALSE)

-----------------------------------------------------------------------------
(* The call goes on to delete these entries and to create its own.         *)
Replace(c, entries) ==
    [call[c] EXCEPT !.pc = IF entries = {} THEN "create" ELSE "delete",
                    !.todo = entries, !.found = entries # {}, !.seen = {},
                    !.page = 1]

(* EnsureWebhook after the list: one entry with the wanted events is left  *)
(* alone; otherwise every match is deleted before the create.              *)
(* Mutant: an entry with the wanted events is enough, however many match.  *)
DecideWebhookAny(c, seen) ==
    LET matches == {e \in seen : Recognised(e.item)}
    IN  IF \E e \in matches : Shown(e.item.body) = call[c].want
        THEN Return(c, "unchanged") ELSE Replace(c, matches)
(* Mutant: the existing webhook is always replaced.                        *)
DecideWebhookAlways(c, seen) ==
    Replace(c, {e \in seen : Recognised(e.item)})
DecideWebhook(c, seen) ==
    LET matches == {e \in seen : Recognised(e.item)}
    IN  IF /\ Cardinality(matches) = 1
           /\ \A e \in matches : Shown(e.item.body) = call[c].want
        THEN Return(c, "unchanged") ELSE Replace(c, matches)

(* EnsureDeployKey after the list: only the first key of that title is     *)
(* looked at.                                                              *)
DecideDeployKey(c, seen) ==
    LET matches == {e \in seen : Recognised(e.item)}
    IN  IF matches = {} THEN Replace(c, {})
        ELSE IF Shown(First(matches).item.body) = call[c].want
             THEN Return(c, "unchanged") ELSE Replace(c, {First(matches)})

Decide(c, seen) == IF kind = "hook" THEN DecideWebhook(c, seen)
                                    ELSE DecideDeployKey(c, seen)

(* One page of AllPages, or the only request of a list without pages.  The *)
(* walk ends on an empty page and, silently, on the last page it may read. *)
LastPage(p, got) ==
    got = {} \/ p = MaxPages \/ SingleShot(backend, kind)
ListPage(c) ==
    LET p == call[c].page
        got == Page(IF ignoresPage THEN 1 ELSE p)
        seen == call[c].seen \cup {[page |-> p, item |-> i] : i \in got}
    IN  /\ call[c].pc = "list"
        /\ Set(c, IF LastPage(p, got) THEN Decide(c, seen)
                  ELSE [call[c] EXCEPT !.page = p + 1, !.seen = seen])
        /\ UNCHANGED <<platform, faults>>
        /\ Record(c, FALSE, FALSE)

(* DeleteWebhook or DeleteDeployKey of the next entry; one that is gone is *)
(* an error, which ends the call.                                          *)
(* Mutant: a replaced entry is deleted and not created again.              *)
DeleteEntryForgetsCreate(c) ==
    LET e == First(call[c].todo)
        rest == call[c].todo \ {e}
    IN  /\ call[c].pc = "delete"
        /\ IF \E i \in items : i.id = e.item.id
           THEN /\ items' = {i \in items : i.id # e.item.id}
                /\ UNCHANGED nextId
                /\ Answer(c, IF rest = {} THEN Return(c, "updated")
                             ELSE [call[c] EXCEPT !.todo = rest])
                /\ Record(c, TRUE, TRUE)
           ELSE Refused(c)
DeleteEntry(c) ==
    LET e == First(call[c].todo)
        rest == call[c].todo \ {e}
    IN  /\ call[c].pc = "delete"
        /\ IF \E i \in items : i.id = e.item.id
           THEN /\ items' = {i \in items : i.id # e.item.id}
                /\ UNCHANGED nextId
                /\ Answer(c, [call[c] EXCEPT !.todo = rest,
                                  !.pc = IF rest = {} THEN "create" ELSE @])
                /\ Record(c, TRUE, TRUE)
           ELSE Refused(c)

Succeed(c) == Return(c, IF call[c].found THEN "updated" ELSE "created")
AddTarget(body) ==
    /\ items' = items \cup {[id |-> nextId, name |-> "target", body |-> body]}
    /\ nextId' = nextId + 1

(* CreateWebhook or AddDeployKey, and the end of the call.                 *)
CreateEntry(c) ==
    /\ call[c].pc = "create" /\ kind # "rule"
    /\ AddTarget(Body(call[c].want))
    /\ Answer(c, Succeed(c))
    /\ Record(c, TRUE, FALSE)

-----------------------------------------------------------------------------
(* EnsureBranchProtection.  gitee's get makes no request and always comes  *)
(* back empty without an error, which reads as a rule that differs.        *)
GetRule(c) ==
    LET update == [call[c] EXCEPT !.pc = FirstUpdateStep(backend),
                                  !.found = TRUE]
    IN  /\ call[c].pc = "get"
        /\ \/ /\ backend = "gitee"
              /\ Set(c, update)
           \/ /\ backend # "gitee" /\ Target(items) # {}
              /\ \E r \in Target(items) :
                    Set(c, IF Shown(r.body) = call[c].want
                           THEN Return(c, "unchanged") ELSE update)
           \/ /\ backend # "gitee" /\ Target(items) = {}
              /\ Set(c, IF MissingIsNotFound(backend)
                        THEN Goto(c, FirstCreateStep(backend))
                        ELSE Error(c))
        /\ UNCHANGED <<platform, faults>>
        /\ Record(c, FALSE, FALSE)

(* The read an update starts with on github and gitcode.                   *)
RereadRule(c) ==
    /\ call[c].pc = "reread"
    /\ Set(c, IF Target(items) = {} THEN Error(c)
              ELSE Goto(c, IF backend = "gitcode" THEN "remove"
                                                  ELSE "write"))
    /\ UNCHANGED <<platform, faults>>
    /\ Record(c, FALSE, FALSE)

(* gitcode's update deletes the rule before it creates it anew.            *)
RemoveRule(c) ==
    /\ call[c].pc = "remove"
    /\ IF Target(items) = {} THEN Refused(c)
       ELSE /\ items' = items \ Target(items)
            /\ UNCHANGED nextId
            /\ Answer(c, Goto(c, "create"))
            /\ Record(c, TRUE, TRUE)

(* Mutant: an update leaves the number of reviews out.                     *)
ReplaceRuleZero(want) ==
    /\ items' = {[id |-> i.id, name |-> i.name,
                  body |-> UpdateRule(backend, i.body,
                                      [want EXCEPT !.reviews = 0])] :
                 i \in items}
    /\ UNCHANGED nextId
ReplaceRule(want) ==
    /\ items' = {[id |-> i.id, name |-> i.name,
                  body |-> UpdateRule(backend, i.body, want)] : i \in items}
    /\ UNCHANGED nextId

(* The write an update ends with.                                          *)
WriteRule(c) ==
    /\ call[c].pc = "write"
    /\ IF Target(items) = {} /\ ~WriteMakesRule(backend) THEN Refused(c)
       ELSE /\ IF Target(items) = {} THEN AddTarget(Body(call[c].want))
                                     ELSE ReplaceRule(call[c].want)
            /\ Answer(c, Succeed(c))
            /\ Record(c, TRUE, FALSE)

(* The create of a rule; most platforms refuse a second one.               *)
CreateBranchProtection(c) ==
    /\ call[c].pc = "create" /\ kind = "rule"
    /\ IF Target(items) # {} /\ ~CreateReplaces(backend) THEN Refused(c)
       ELSE /\ IF Target(items) = {} THEN AddTarget(Body(call[c].want))
                                     ELSE ReplaceRule(call[c].want)
            /\ Answer(c, Succeed(c))
            /\ Record(c, TRUE, FALSE)

-----------------------------------------------------------------------------
(* Entries that are there before the first call: any made by this library  *)
(* or by hand, in any order.                                               *)
InitialItems ==
    UNION {{{[id |-> n, name |-> f[n].name, body |-> Body(f[n].want)] :
                n \in 1..k} :
            f \in [1..k -> [name : {"target", "other"}, want : Wants[kind]]]} :
           k \in 0..MaxInitial}

Init ==
    /\ backend \in Backends /\ kind \in Kinds /\ Supports(backend, kind)
    /\ ignoresPage \in BOOLEAN /\ (kind = "rule" => ~ignoresPage)
    /\ items \in InitialItems
    /\ kind = "rule" => Target(items) = items /\ \A i, j \in items : i = j
    /\ nextId = MaxInitial + 1
    /\ call = [c \in Clients |->
                [Fresh(None) EXCEPT !.pc = "done"]]
    /\ runs = 0 /\ faults = 0
    /\ alone = [c \in Clients |-> FALSE]
    /\ fits = [c \in Clients |-> FALSE]
    /\ had = [c \in Clients |-> 0]
    /\ expect = [c \in Clients |-> FALSE]
    /\ settled = {}
    /\ debt = [c \in Clients |-> FALSE]
    /\ existed = (Target(items) # {})

(* No call is under way and none may begin.                                *)
Rest == /\ runs = MaxRuns /\ \A c \in Clients : call[c].pc = "done"
        /\ UNCHANGED vars

Step(c) ==
    \/ \E want \in Wants[kind] : Begin(c, want)
    \/ Fail(c)
    \/ ListPage(c) \/ DeleteEntry(c) \/ CreateEntry(c)
    \/ GetRule(c) \/ RereadRule(c) \/ RemoveRule(c) \/ WriteRule(c)
    \/ CreateBranchProtection(c)

Next == (\E c \in Clients : Step(c)) \/ Rest

Spec == Init /\ [][Next]_vars

-----------------------------------------------------------------------------
Pcs == {"done", "list", "delete", "create", "get", "reread", "remove",
        "write"}

(* Types, and that ids are unique and a branch has at most one rule.       *)
EnsureTypeOK ==
    /\ backend \in Backends /\ kind \in Kinds
    /\ \A i \in items : i.id \in 1..(nextId - 1)
                        /\ i.name \in {"target", "other"}
    /\ \A i, j \in items : i.id = j.id => i = j
    /\ kind = "rule" => \A i, j \in items : i = j
    /\ \A c \in Clients :
        /\ call[c].pc \in Pcs
        /\ call[c].out \in Successes \cup {"", "error"}
        /\ call[c].page \in 1..MaxPages
        /\ \A e \in call[c].seen \cup call[c].todo :
              e.page \in 1..MaxPages /\ e.item.id \in 1..(nextId - 1)
        /\ call[c].pc = "delete" => call[c].todo # {}
    /\ runs \in 0..MaxRuns /\ faults \in 0..MaxFaults

(* A resource that was there is missing only while a reconciler that       *)
(* deleted it owes the new one: it is on its way to the create, or its     *)
(* call failed in between.  No interleaving with other reconcilers and no  *)
(* lost answer takes it away otherwise.                                    *)
BareOnlyInDebt ==
    existed /\ Target(items) = {} => \E c \in Clients : debt[c]

(* What a content is held to on the platform.  Platforms know one event    *)
(* under several names.                                                    *)
EventNames == {MergeNames, TagNames, {"note", "comment"}}
Meaning(events) == {{e} \cup UNION {N \in EventNames : e \in N} : e \in events}
Holds(body, want) ==
    CASE kind = "hook" ->
            Meaning(Shown(body)) = Meaning(CarriedEvents(backend, want))
      [] kind = "key" ->
            /\ Shown(body).key = want.key
            /\ CarriesReadOnly(backend) => Shown(body).readOnly = want.readOnly
      [] kind = "rule" /\ backend # "gitee" ->
            \A f \in CarriedFields(backend) : Shown(body)[f] = want[f]
      [] kind = "rule" /\ backend = "gitee" -> TRUE

(* The list tells a webhook's URL.                                         *)
Told == kind = "hook" => backend # "github"

(* How many entries a call leaves that found n: one, but only the first of *)
(* several keys is replaced, and a hook whose URL is not told is added.    *)
LeftOf(n) == CASE ~Told -> n + 1
               [] kind = "key" /\ n # 0 -> n
               [] OTHER -> 1

(* ensure.go makes "the repository carry exactly one webhook for opts.URL  *)
(* with opts.Events" and converges a deploy key and a rule onto what was   *)
(* asked for.  When a call into which nobody else wrote succeeds, the      *)
(* platform holds an entry with all of it, and there is one entry.  Only,  *)
(*   - GitLab and Tencent carry merge request and tag events alone and     *)
(*     always add push, Gitee the events of its table, and a rule request  *)
(*     the fields its backend sends;                                       *)
(*   - a deploy key of Gitee is never read-only;                           *)
(*   - GitHub adds a webhook at each call;                                 *)
(*   - of several deploy keys of one title, the first alone is replaced;   *)
(*   - a list that is cut short may cost an entry too many, never more.    *)
AloneLeavesWanted ==
    \A c \in Clients :
        call[c].pc = "done" /\ call[c].out \in Successes /\ alone[c] =>
        LET left == Cardinality(Target(items)) IN
        /\ \E i \in Target(items) : Holds(i.body, call[c].want)
        /\ fits[c] => left = LeftOf(had[c])
        /\ left <= had[c] + 1

(* The contents that read back as they were asked for, whatever was there. *)
ReadsBack(want) ==
    CASE kind = "hook" ->
            /\ ConvertHook(backend, Body(want)).url = "target"
            /\ Shown(Body(want)) = want
      [] kind = "key" -> Shown(Body(want)) = want
      [] kind = "rule" -> backend \in {"github", "gitcode"}

(* A second call for the same content, with no write in between and none   *)
(* by others, changes nothing, on the backends whose answers read back.    *)
(* Of several keys with one title a call replaces one only, so this is     *)
(* said of a title that one key has.                                       *)
Rerun(c) == /\ call[c].pc = "done" /\ call[c].out \in Successes
            /\ alone[c] /\ fits[c] /\ expect[c]
            /\ kind = "key" => Cardinality(Target(items)) = 1
RerunUnchanged ==
    \A c \in Clients :
        Rerun(c) /\ ReadsBack(call[c].want) => call[c].out = "unchanged"

(* ensure.go: "Same URL, same event set" is unchanged, "safe to re-run",   *)
(* said of every backend.                                                  *)
AlwaysUnchanged == \A c \in Clients : Rerun(c) => call[c].out = "unchanged"
=============================================================================
