------------------------------ MODULE Revisions ------------------------------
(***************************************************************************)
(* Which commits and which diffs the Git client makes of the revisions on  *)
(* a command line: parse_revision_spec, diff, get_commit_history and the   *)
(* text of the commits.                                                    *)
(*                                                                         *)
(* A history h numbers its commits in the order of their dates.            *)
(*   h.parents[c]  the parents of a commit, first parent first             *)
(*   h.change[c]   what it changes: the tree of a commit is the set of the *)
(*                 changes in its ancestry, and 0 changes nothing          *)
(*   h.message[c]  its message, a sequence of words                        *)
(*   h.head        HEAD                                                    *)
(*   h.upstream    the parent branch (the tracking branch, or --parent)    *)
(*   h.remotes     the tips of the remote's branches, the upstream too     *)
(* A revision specification names commits of the history.                  *)
(***************************************************************************)
EXTENDS Integers, FiniteSets, SequencesExt, Sublist

CONSTANT None

Commit(h) == DOMAIN h.parents

(* What names a commit names one that there is; no clock is wrong *)
IsHistory(h) ==
  /\ DOMAIN h = {"parents", "change", "message", "head", "upstream",
                 "remotes"}
  /\ h.parents \in Seq(Seq(Nat))
  /\ \A c \in Commit(h) : ToSet(h.parents[c]) \subseteq 1..(c - 1)
  /\ h.change \in Seq(Nat) /\ Len(h.change) = Len(h.parents)
  /\ {h.head, h.upstream} \cup h.remotes \subseteq Commit(h)

Ancestors(h) ==
  LET ancestors[c \in Commit(h)] ==
        {c} \cup UNION {ancestors[p] : p \in ToSet(h.parents[c])}
  IN  ancestors

(* git rev-list "tips" --not "hidden" *)
RevList(h, tips, hidden) ==
  {c \in Commit(h) : /\ \E tip \in tips : c \in Ancestors(h)[tip]
                     /\ \A base \in hidden : c \notin Ancestors(h)[base]}

(* The same in the order of git log --reverse *)
OldestFirst(h, tip, base) ==
  LET commits == RevList(h, {tip}, {base})
  IN  [i \in 1..Cardinality(commits) |-> Nth(commits, i)]

Tree(h, c) == {h.change[x] : x \in Ancestors(h)[c]} \ {0}

(* git diff a..b: what leads from one tree to the other, or nothing *)
DiffBetween(h, a, b) ==
  IF Tree(h, a) = Tree(h, b) THEN None ELSE <<Tree(h, a), Tree(h, b)>>

IsRoot(h, c) == h.parents[c] = <<>>
FirstParent(h, c) == h.parents[c][1]

(* A plausible bug: the newest local commit instead of the oldest *)
MutantYoungestRemoteAncestor(h, c) ==
  LET local == RevList(h, {c}, h.remotes)
      last == Max(local)
  IN  IF local = {} THEN c
      ELSE IF IsRoot(h, last) THEN last
      ELSE FirstParent(h, last)

(* _rev_list_youngest_remote_ancestor: the parent of the last local commit *)
(* that rev-list gives, which is the oldest by date.                       *)
YoungestRemoteAncestor(h, c) ==
  LET local == RevList(h, {c}, h.remotes)
      last == Min(local)
  IN  IF local = {} THEN c
      ELSE IF IsRoot(h, last) THEN last
      ELSE FirstParent(h, last)

(* git merge-base: a common ancestor that no other one descends from *)
MergeBase(h, a, b) ==
  LET common == Ancestors(h)[a] \cap Ancestors(h)[b]
  IN  IF common = {} THEN None ELSE Max(common)

(* "": HEAD against the parent branch.  "a": one commit, the root has no   *)
(* parent to serve as base.  "a..b" and "a b": a range.  "a...b": since    *)
(* the merge base; rev-parse prints the right hand side first.             *)
Revs(base, tip, commit_id) ==
  [base |-> base, tip |-> tip, commit_id |-> commit_id]

IsSpec(h, spec) ==
  /\ spec.form \in {"head", "one", "range", "since"}
  /\ spec.form # "head" => spec.a \in Commit(h)
  /\ spec.form \in {"range", "since"} => spec.b \in Commit(h)

NamedRevisions(h, spec) ==
  IF spec.form = "head" THEN Revs(h.upstream, h.head, h.head)
  ELSE IF spec.form = "one"
  THEN Revs(IF IsRoot(h, spec.a) THEN None ELSE FirstParent(h, spec.a),
            spec.a, spec.a)
  ELSE IF spec.form = "range" THEN Revs(spec.a, spec.b, None)
  ELSE Revs(MergeBase(h, spec.a, spec.b), spec.b, None)

(* The result of parse_revision_spec, or None when it raises *)
ParseRevisionSpec(h, spec) ==
  LET r == NamedRevisions(h, spec)
      remote == YoungestRemoteAncestor(h, r.base)
  IN  IF r.base = None THEN None
      ELSE [base |-> r.base, tip |-> r.tip, commit_id |-> r.commit_id,
            parent_base |-> IF remote = r.base THEN None ELSE remote]

(* GitClient.diff; a parent diff that changes nothing is sent as none *)
GitDiff(h, r) ==
  [diff |-> DiffBetween(h, r.base, r.tip),
   parent_diff |-> IF r.parent_base = None THEN None
                   ELSE DiffBetween(h, r.parent_base, r.base),
   commit_id |-> r.commit_id,
   base_commit_id |-> IF r.parent_base = None THEN r.base ELSE r.parent_base]

(* get_commit_history and the diff of each entry; None when there is no    *)
(* commit, or one that has not exactly one parent                          *)
CommitHistory(h, r) ==
  LET commits == OldestFirst(h, r.tip, r.base)
  IN  IF \/ commits = <<>>
         \/ \E c \in ToSet(commits) : Len(h.parents[c]) # 1
      THEN None
      ELSE [i \in DOMAIN commits |->
              LET c == commits[i] IN
                [commit_id |-> c, parent_id |-> FirstParent(h, c),
                 diff |-> DiffBetween(h, FirstParent(h, c), c)]]

(* get_raw_commit_message: the messages of (base, tip], one after another *)
RawCommitMessage(h, r) ==
  LET commits == OldestFirst(h, r.tip, r.base)
  IN  FlattenSeq([i \in DOMAIN commits |-> h.message[commits[i]]])

(* git commit, and git commit --amend: HEAD moves to a new commit, and the *)
(* one that is amended is on no branch any more.                           *)
AddCommit(h, parents, change, message) ==
  [h EXCEPT !.parents = Append(@, parents),
            !.change = Append(@, change),
            !.message = Append(@, message),
            !.head = Len(h.parents) + 1]

Amend(h, change, message) ==
  AddCommit(h, h.parents[h.head], change, message)
=============================================================================
