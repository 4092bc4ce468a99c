---------------------------- MODULE MCCommitWait -----------------------------
(***************************************************************************)
(* Instances of CommitWait and Posts for TLC: two clients with each call   *)
(* of a topic, a client's value being the client itself.  In other         *)
(* behaviours a program follows one thing (Follow) and the clients rest.   *)
(***************************************************************************)
EXTENDS CommitWait, Follow

CONSTANTS c1, c2

MCClients == {c1, c2}
MCSymmetry == Permutations(MCClients)
MCTopics == {"comments", "notes", "reviews", "onissue", "oncomment", "oncr",
             "oncrcomment", "inbox", "branches", "members", "statuses",
             "repos"}

Ask(op, o) == [op |-> op, o |-> o]
Nothing == [f \in {} |-> ""]

Reactions(on) ==
    (IF on = "cr" THEN {}
     ELSE {Ask("react", [on |-> on, emoji |-> e]) : e \in {"heart", "hooray"}}
          \cup {Ask("unreact", [on |-> on])})
    \cup {Ask("listreactions", [on |-> on])}

MCCalls(t, c) ==
    CASE t = "comments" ->
            {Ask("comment", [text |-> c]), Ask("editcomment", [text |-> c]),
             Ask("listcomments", Nothing)}
      [] t = "notes" ->
            {Ask("note", [text |-> c]), Ask("discuss", [text |-> c]),
             Ask("editnote", [text |-> c]), Ask("deletenote", Nothing),
             Ask("listnotes", Nothing)}
      [] t = "reviews" ->
            {Ask("review", [text |-> c, event |-> e, inline |-> i]) :
                e \in {"APPROVE", "REQUEST_CHANGES"},
                i \in {"none", "in", "out"}} \cup
            {Ask("request", [text |-> n]) : n \in {"ann", "bob"}} \cup
            {Ask("dismiss", Nothing), Ask("listreviews", Nothing),
             Ask("getreview", Nothing)}
      [] t = "onissue" -> Reactions("issue")
      [] t = "oncomment" -> Reactions("comment")
      [] t = "oncr" -> Reactions("cr")
      [] t = "oncrcomment" -> Reactions("crcomment")
      [] t = "inbox" ->
            {Ask("listinbox", [scope |-> "all", page |-> p, all |-> FALSE]) :
                p \in {"first", "every"}} \cup
            {Ask("listinbox", [scope |-> "repo", page |-> p, all |-> TRUE]) :
                p \in {"first", "every"}} \cup
            {Ask("markall", [scope |-> "all", upto |-> u]) :
                u \in {"seen", "all"}} \cup
            {Ask("markall", [scope |-> "repo", upto |-> "seen"])} \cup
            {Ask("markone", Nothing)}
      [] t = "branches" ->
            {Ask("branch", [name |-> n]) : n \in {"topic", "next"}} \cup
            {Ask("dropbranch", Nothing), Ask("listbranches", Nothing)}
      [] t = "members" ->
            {Ask("addmember", [name |-> n]) : n \in {"ann", "bob"}} \cup
            {Ask("dropmember", Nothing), Ask("listmembers", Nothing)}
      [] t = "statuses" ->
            {Ask("report", [context |-> "ci", state |-> s]) :
                s \in {"success", "failure", "failed", "pending"}} \cup
            {Ask("report", [context |-> "lint", state |-> "success"]),
             Ask("wait", [want |-> {}, delay |-> FALSE]),
             Ask("wait", [want |-> {"ci"}, delay |-> TRUE]),
             Ask("wait", [want |-> {"ci", "lint"}, delay |-> FALSE])} \cup
            {Ask("liststatuses", Nothing)}
      [] t = "repos" ->
            {Ask("newrepo", [name |-> "lib", owner |-> w]) :
                w \in {"", "org"}} \cup
            {Ask("fork", [name |-> n, owner |-> w]) :
                n \in {"", "lib"}, w \in {"", "org"}} \cup
            {Ask("droprepo", Nothing), Ask("listrepos", [owner |-> "org"])}

MCThings == {"nothing", "issue", "cr", "branch", "tag", "pipeline"}

MCInit ==
    /\ Init /\ FollowInit
    /\ \/ thing = "nothing" /\ source = "github"
       \/ /\ thing # "nothing" /\ source = backend
          /\ topic = "members" /\ posts = {}
MCNext ==
    \/ thing = "nothing" /\ Next /\ UNCHANGED followVars
    \/ thing # "nothing" /\ Rest /\ UNCHANGED followVars
    \/ FollowNext /\ UNCHANGED vars
MCSpec == MCInit /\ [][MCNext]_<<vars, followVars>>
=============================================================================
