---------------------------- MODULE MCResources -----------------------------
(***************************************************************************)
(* Instances of Resources for TLC: two clients with each call of a topic,  *)
(* a client's value being the client itself.                               *)
(***************************************************************************)
EXTENDS Resources, TLC

CONSTANTS c1, c2

MCClients == {c1, c2}
MCSymmetry == Permutations(MCClients)

Call(op, o) == [op |-> op, o |-> o]
Nothing == [f \in {} |-> ""]

MCCalls(t, c) ==
    CASE t = "issue" ->
            {Call("create", [title |-> c, labels |-> {"bug", "doc"}]),
             Call("update", [title |-> c]),
             Call("update", [assignees |-> c, labels |-> {"bug"}]),
             Call("update", [body |-> c, state |-> "closed"]),
             Call("update", Nothing),
             Call("close", Nothing), Call("reopen", Nothing),
             Call("add", [labels |-> {"bug"}]),
             Call("remove", [labels |-> {"bug"}]),
             Call("newlabel", [name |-> "doc", to |-> "doc"]),
             Call("rename", [name |-> "bug", to |-> "doc"]),
             Call("droplabel", [name |-> "bug", to |-> ""]),
             Call("list", [state |-> "open"]),
             Call("list", [state |-> "closed"])}
      [] t = "cr" ->
            {Call("create", [title |-> c, labels |-> {"bug"}]),
             Call("update", [body |-> c, target |-> c]),
             Call("merge", Nothing),
             Call("close", Nothing), Call("reopen", Nothing),
             Call("labels", [labels |-> {"bug"}])} \cup
            {Call("list", [state |-> s]) : s \in {"opened", "closed", "merged"}}
      [] t = "milestone" ->
            {Call("create", [title |-> c]),
             Call("update", [body |-> c]),
             Call("delete", Nothing)} \cup
            {Call("update", [state |-> s]) : s \in {"open", "closed"}} \cup
            {Call("list", [state |-> s]) : s \in {"open", "closed"}}
      [] t = "release" ->
            {Call("create", [title |-> c, body |-> c, draft |-> "yes"]),
             Call("update", [title |-> c]),
             Call("update", [body |-> c]),
             Call("update", [prerelease |-> "yes"]),
             Call("delete", Nothing)}
      [] t = "file" ->
            {Call("create", [content |-> c]),
             Call("update", [content |-> c]),
             Call("delete", Nothing)}
      [] t = "repo" ->
            {Call("create", [title |-> c, branch |-> c]),
             Call("update", [body |-> c]),
             Call("update", [branch |-> c, private |-> "yes"]),
             Call("delete", Nothing)}
=============================================================================
