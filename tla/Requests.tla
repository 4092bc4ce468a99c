------------------------------ MODULE Requests ------------------------------
(***************************************************************************)
(* The vocabulary in which a backend's calls are written: a call is the    *)
(* sequence of requests its function sends, in their order.  The options   *)
(* of a call are a function of the fields its caller gave.                 *)
(***************************************************************************)
EXTENDS Integers, Sequences

Backends == {"github", "gitlab", "gitea", "forgejo", "gitee", "gitcode",
             "tencentcode"}

(* The fields of F that were given, and all of F with the empty value for  *)
(* the others.                                                             *)
Given(o, F) == [f \in DOMAIN o \cap F |-> o[f]]
Sent(o, F) == [f \in F |-> IF f \in DOMAIN o THEN o[f] ELSE ""]

(* A state translated to the platform's word or verb for it.               *)
WithState(p, word) ==
    [f \in DOMAIN p |-> IF f = "state" THEN word[p.state] ELSE p[f]]

-----------------------------------------------------------------------------
(* Requests about the one item of a call.  An edit carries the fields put, *)
(* the fields back as an earlier get showed them, and reaches the item by  *)
(* its name, by the id the get showed or by the version its caller holds.  *)
Get == [do |-> "get"]
Edit(put) == [do |-> "edit", put |-> put, back |-> {}, by |-> "name"]
EditBack(put, back) == [do |-> "edit", put |-> put, back |-> back,
                        by |-> "name"]
EditFound(put, back) == [do |-> "edit", put |-> put, back |-> back,
                         by |-> "id"]
EditVersion(put) == [do |-> "edit", put |-> put, back |-> {},
                     by |-> "version"]
Create(put) == [do |-> "create", put |-> put, ids |-> FALSE]
CreateWithIds(put) == [do |-> "create", put |-> put, ids |-> TRUE]
Delete == [do |-> "delete", by |-> "name"]
DeleteFound == [do |-> "delete", by |-> "id"]
DeleteVersion == [do |-> "delete", by |-> "version"]

(* A get whose failure is ignored and whose answer may end the call; a     *)
(* merge, and one whose refusal is looked into.                            *)
Preflight(conflicts) == [do |-> "preflight", conflicts |-> conflicts]
Merge == [do |-> "merge", recover |-> FALSE]
MergeOrRecover == [do |-> "merge", recover |-> TRUE]

(* The users of a call are looked up by name; a call the backend does not  *)
(* implement; a list with the filter sent.                                 *)
LookUp == [do |-> "lookup"]
Unsupported == [do |-> "unsupported"]
List(filter) == [do |-> "list", filter |-> filter]

(* Labels of the item: by their names, by ids resolved before, or written  *)
(* anew from what a get showed.                                            *)
Labels(how, names) == [do |-> "labels", how |-> how, names |-> names]
Resolve(names) == [do |-> "resolve", names |-> names]
LabelsById(how) == [do |-> "labelids", how |-> how]
LabelsSeen(how, names) == [do |-> "rewrite", how |-> how, names |-> names]

(* Labels of the repository; to is the new name of a label, or "" for one  *)
(* that is deleted.                                                        *)
NewLabel(name) == [do |-> "newlabel", name |-> name]
Relabel(name, to) == [do |-> "relabel", name |-> name, to |-> to,
                      by |-> "name"]
RelabelFound(name, to) == [do |-> "relabel", name |-> name, to |-> to,
                           by |-> "id"]
=============================================================================
