------------------------------ MODULE OrgTree ------------------------------
(***************************************************************************)
(* The tree of organisations and what they inherit: OrgsService.           *)
(*                                                                         *)
(* The tree is stored twice: every row has its parent and, for queries     *)
(* about whole subtrees, the path from the top down to itself.  A request  *)
(* that changes the tree writes row after row without a transaction, and   *)
(* readers of a subtree keep what they found for a while.  The preview of  *)
(* a move is one step here: it only reads.  The requests come from         *)
(* superadmins, whom no policy of a parent restricts.  The three kinds of  *)
(* taxonomies follow the same rules and are one; an organisation has its   *)
(* own items as long as it exists.                                         *)
(***************************************************************************)
EXTENDS Identities, Integers, FiniteSets, SequencesExt

CONSTANTS
  Orgs,        \* ids of organisations, each given to at most one
  Root,        \* the organisation that exists at first
  Items,       \* categories, tags and cohorts
  Own,         \* Own[o]: those that belong to o
  Legacy,      \* cohorts children see when no rule says anything
  Rules,       \* bound: the rules administrators choose for an organisation
  Defaults,    \* bound: those they choose for its children
  Editable,    \* bound: the organisations they set rules for
  Listed,      \* bound: the organisations whose subtrees are read
  Kinds,       \* bound: what administrators ask for in this instance
  Writers,     \* requests that change the tree at the same time
  Readers      \* requests that list a subtree at the same time

(* A rule names the items that are inherited, or all there are.            *)
Setting == [all : BOOLEAN, ids : SUBSET Items]

ASSUME OrgTreeConstants ==
  /\ IsFiniteSet(Orgs)
  /\ Root \in Orgs /\ Own \in [Orgs -> SUBSET Items] /\ Legacy \subseteq Items
  /\ Rules \union Defaults \subseteq Setting /\ Editable \subseteq Orgs /\ Listed \subseteq Orgs
  /\ Kinds \subseteq {"create", "move", "remove", "edit"}

VARIABLES
  org,      \* org[o]: the row of o, Fresh or Gone
  writers,  \* writers[w]: the change w is making, or None
  readers,  \* readers[r]: the subtree r is reading, or None
  cache     \* cache[o]: the subtree of o somebody found, or None

treeVars == <<org, writers, readers, cache>>

(* path is empty while it is null; rules and defaults are taxonomySettings *)
(* and childTaxonomyDefaults.                                              *)
OrgRow == [parent : Orgs \union {None}, path : Seq(Orgs),
           rules : Setting \union {None}, defaults : Setting \union {None}]

Top(o) == [parent |-> None, path |-> <<o>>, rules |-> None, defaults |-> None]

Existing(tree) == {o \in Orgs : tree[o] \notin {Fresh, Gone}}

TreeInit ==
  /\ org = [o \in Orgs |-> IF o = Root THEN Top(o) ELSE Fresh]
  /\ writers = [w \in Writers |-> None]
  /\ readers = [r \in Readers |-> None]
  /\ cache = [o \in Orgs |-> None]

-----------------------------------------------------------------------------
(* The two forms of the tree.                                              *)

(* From the top down to o, by the parents; on a cycle it has more elements *)
(* than there are organisations.                                           *)
Lineage(tree, o) ==
  LET up[n \in 0..Cardinality(Orgs)] ==
        IF n = 0 THEN <<o>>
        ELSE LET below == up[n - 1]  p == tree[Head(below)].parent IN
             IF p = None THEN below ELSE <<p>> \o below
  IN up[Cardinality(Orgs)]

EffectivePath(o, row) == IF row.path = <<>> THEN <<o>> ELSE row.path

(* By the paths.                                                           *)
SubtreeByPath(tree, path) ==
  {o \in Existing(tree) : IsStrictPrefix(path, EffectivePath(o, tree[o]))}

Subtree(tree, o) == {o} \union SubtreeByPath(tree, EffectivePath(o, tree[o]))

(* By the parents.                                                         *)
Below(tree, o) == {x \in Existing(tree) : o \in ToSet(Lineage(tree, x))}

-----------------------------------------------------------------------------
(* What an organisation sees: its own items and those it inherits.         *)

(* The rule for the i-th of a lineage: its own, else the one the nearest   *)
(* organisation above gives its children, else the cohorts marked so.      *)
RuleFor(tree, line, i) ==
  LET above == SelectLastInSubSeq(line, 1, i - 1, LAMBDA x : tree[x].defaults # None) IN
  IF tree[line[i]].rules # None THEN tree[line[i]].rules
  ELSE IF above # 0 THEN tree[line[above]].defaults
  ELSE [all |-> FALSE, ids |-> Legacy]

Visible(tree, o) ==
  LET line == Lineage(tree, o)
      seen[i \in 1..Len(line)] ==
        LET rule == RuleFor(tree, line, i) IN
        Own[line[i]] \union IF i = 1 THEN {}
                            ELSE IF rule.all THEN seen[i - 1]
                            ELSE seen[i - 1] \intersect rule.ids
  IN seen[Len(line)]

(* assertInheritedTaxonomyIdsVisible                                       *)
Offered(rule, visible) == rule.all \/ rule.ids \subseteq visible

-----------------------------------------------------------------------------
(* How a request moves on.                                                 *)

Change == [op : Kinds, id : Orgs, at : {"insert", "path", "read", "save", "find", "rewrite",
                                          "delete", "write", "clear"},
           parent : Orgs \union {None}, above : OrgRow \union {None}, copy : OrgRow \union {None},
           from : Seq(Orgs), todo : SUBSET (Orgs \X Seq(Orgs)), force : BOOLEAN,
           before : [Orgs -> SUBSET Items] \union {None}]

StartChange(w, op, o, at, parent, above, copy, force, before) ==
  /\ writers[w] = None /\ op \in Kinds
  /\ writers' = [writers EXCEPT ![w] =
       [op |-> op, id |-> o, at |-> at, parent |-> parent, above |-> above, copy |-> copy,
        from |-> <<>>, todo |-> {}, force |-> force, before |-> before]]
  /\ readers' = [r \in Readers |->
       IF readers[r] = None THEN None ELSE [readers[r] EXCEPT !.alone = FALSE]]
  /\ UNCHANGED <<org, cache>>

Doing(w, op, at) == writers[w] # None /\ writers[w].op = op /\ writers[w].at = at
Proceed(w, at)   == writers' = [writers EXCEPT ![w].at = at]
Finish(w)        == writers' = [writers EXCEPT ![w] = None]

Unborn(o) == org[o] = Fresh /\ \A w \in Writers : writers[w] # None => writers[w].id # o

(* What a query for the row of o returns.                                  *)
Found(o) == IF o # None /\ o \in Existing(org) THEN org[o] ELSE None

(* The foreign key.                                                        *)
HasParent(row) == row.parent = None \/ row.parent \in Existing(org)

ClearSubtreeCache(w) ==
  /\ writers[w] # None /\ writers[w].at = "clear" /\ Finish(w)
  /\ cache' = [o \in Orgs |-> None]
  /\ UNCHANGED <<org, readers>>

-----------------------------------------------------------------------------
(* create                                                                  *)

BeginCreateOrg(w, o, p) ==
  /\ Unborn(o)
  /\ StartChange(w, "create", o, "insert", p, Found(p), None, FALSE, None)

InsertOrg(w) ==
  LET c == writers[w]
      row == [Top(c.id) EXCEPT !.parent = IF c.above = None THEN None ELSE c.parent, !.path = <<>>] IN
  /\ Doing(w, "create", "insert")
  /\ IF HasParent(row) THEN org' = [org EXCEPT ![c.id] = row] /\ Proceed(w, "path")
     ELSE UNCHANGED org /\ Finish(w)
  /\ UNCHANGED <<readers, cache>>

PathBelow(above, o) == IF above = None \/ above.path = <<>> THEN <<o>> ELSE Append(above.path, o)

WriteNewPath(w) ==
  LET c == writers[w] IN
  /\ Doing(w, "create", "path") /\ Proceed(w, "clear")
  /\ org' = IF c.id \in Existing(org)
            THEN [org EXCEPT ![c.id].path = PathBelow(c.above, c.id)] ELSE org
  /\ UNCHANGED <<readers, cache>>

-----------------------------------------------------------------------------
(* previewMoveOrg and moveOrg                                              *)

\* a broken variant: the simulation keeps the rules the move resets
SimulatedWithRules(o, p) == [org EXCEPT ![o].parent = p]

(* The tree as it would be.                                                *)
Simulated(o, p) == [org EXCEPT ![o].parent = p, ![o].rules = None]

RequiresConfirmation(o, p) ==
  \E x \in Subtree(org, o) : Visible(Simulated(o, p), x) # Visible(org, x)

\* a broken variant: an organisation may move below its own children
MayMoveAnywhere(o, p) == /\ {o, p} \subseteq Existing(org) /\ p # o /\ org[o].parent # p

MayMove(o, p) ==
  /\ {o, p} \subseteq Existing(org)
  /\ org[o].parent # p
  /\ p \notin Subtree(org, o)

BeginMove(w, o, p, force) ==
  /\ MayMove(o, p)
  /\ force \/ ~RequiresConfirmation(o, p)
  /\ StartChange(w, "move", o, "read", p, None, None, force,
           IF force THEN None ELSE [x \in Orgs |-> IF x \in Existing(org) THEN Visible(org, x) ELSE {}])

ReadMoved(w) ==
  LET c == writers[w] IN
  /\ Doing(w, "move", "read")
  /\ IF c.id \notin Existing(org) THEN Finish(w)
     ELSE writers' = [writers EXCEPT ![w].at = "save", ![w].copy = org[c.id], ![w].above = Found(c.parent),
                                     ![w].from = EffectivePath(c.id, org[c.id])]
  /\ UNCHANGED <<org, readers, cache>>

(* save() leaves the row as the copy is.                                   *)
SaveMoved(w) ==
  LET c == writers[w]
      row == [c.copy EXCEPT !.parent = IF c.above = None THEN None ELSE c.parent, !.rules = None] IN
  /\ Doing(w, "move", "save")
  /\ IF HasParent(row) THEN org' = [org EXCEPT ![c.id] = row] /\ Proceed(w, "path")
     ELSE UNCHANGED org /\ Finish(w)
  /\ UNCHANGED <<readers, cache>>

WriteMovedPath(w) ==
  LET c == writers[w] IN
  /\ Doing(w, "move", "path") /\ Proceed(w, "find")
  /\ org' = IF c.id \in Existing(org)
            THEN [org EXCEPT ![c.id].path = PathBelow(c.above, c.id), ![c.id].rules = None] ELSE org
  /\ UNCHANGED <<readers, cache>>

\* a broken variant: the rows directly below, by their parents
Children(c) ==
  {<<x, Append(PathBelow(c.above, c.id), x)>> : x \in {y \in Existing(org) : org[y].parent = c.id}}

(* The rows whose path began with the old one, with their new paths.       *)
Descendants(c) ==
  {<<x, PathBelow(c.above, c.id) \o
        SubSeq(EffectivePath(x, org[x]), Len(c.from) + 1, Len(EffectivePath(x, org[x])))>> :
     x \in SubtreeByPath(org, c.from) \ {c.id}}

FindDescendants(w) ==
  LET below == Descendants(writers[w]) IN
  /\ Doing(w, "move", "find")
  /\ writers' = [writers EXCEPT ![w].at = IF below = {} THEN "clear" ELSE "rewrite", ![w].todo = below]
  /\ UNCHANGED <<org, readers, cache>>

RewritePath(w) ==
  /\ Doing(w, "move", "rewrite")
  /\ \E t \in writers[w].todo :
       LET rest == writers[w].todo \ {t} IN
       /\ org' = IF t[1] \in Existing(org) THEN [org EXCEPT ![t[1]].path = t[2]] ELSE org
       /\ writers' = [writers EXCEPT ![w].at = IF rest = {} THEN "clear" ELSE "rewrite", ![w].todo = rest]
  /\ UNCHANGED <<readers, cache>>

-----------------------------------------------------------------------------
(* removeOrg                                                               *)

BeginRemoveOrg(w, o) ==
  /\ o \in Existing(org) /\ SubtreeByPath(org, EffectivePath(o, org[o])) = {}
  /\ StartChange(w, "remove", o, "delete", None, None, None, FALSE, None)

\* a broken variant: the cache keeps what it has
DeleteOnly(w) ==
  LET o == writers[w].id IN
  /\ Doing(w, "remove", "delete") /\ Finish(w)
  /\ org' = [x \in Orgs |-> IF x = o THEN Gone
                            ELSE IF x \in Existing(org) /\ org[x].parent = o
                            THEN [org[x] EXCEPT !.parent = None] ELSE org[x]]
  /\ UNCHANGED <<readers, cache>>

(* The foreign key of the children is set to null.                         *)
DeleteOrg(w) ==
  LET o == writers[w].id IN
  /\ Doing(w, "remove", "delete") /\ Proceed(w, "clear")
  /\ org' = [x \in Orgs |-> IF x = o THEN Gone
                            ELSE IF x \in Existing(org) /\ org[x].parent = o
                            THEN [org[x] EXCEPT !.parent = None] ELSE org[x]]
  /\ UNCHANGED <<readers, cache>>

-----------------------------------------------------------------------------
(* updateOrgTaxonomySettingsScoped: rules for the organisation itself, or  *)
(* the defaults of its children.                                           *)

BeginEditRules(w, o, rule) ==
  LET row == org[o]  nothing == [all |-> FALSE, ids |-> {}] IN
  /\ o \in Existing(org)
  /\ rule # None /\ row.parent # None => Offered(rule, Visible(org, row.parent))
  /\ StartChange(w, "edit", o, "write", None, None,
           [row EXCEPT !.rules = IF rule # None /\ row.parent = None THEN nothing ELSE rule], FALSE, None)

BeginEditDefaults(w, o, rule) ==
  /\ o \in Existing(org)
  /\ rule # None => Offered(rule, Visible(org, o))
  /\ StartChange(w, "edit", o, "write", None, None, [org[o] EXCEPT !.defaults = rule], FALSE, None)

SaveEdited(w) ==
  LET c == writers[w] IN
  /\ Doing(w, "edit", "write") /\ Finish(w)
  /\ org' = IF HasParent(c.copy) THEN [org EXCEPT ![c.id] = c.copy] ELSE org
  /\ UNCHANGED <<readers, cache>>

-----------------------------------------------------------------------------
(* getSubtreeOrgIds: alone, that nobody changed the tree meanwhile.        *)

Reading == [root : Orgs, at : {"find", "query", "keep"}, path : Seq(Orgs), ids : SUBSET Orgs,
            alone : BOOLEAN]

ASSUME TreeMarks ==
  /\ Fresh \notin OrgRow /\ Gone \notin OrgRow
  /\ None \notin Orgs \union OrgRow \union Setting \union Change \union Reading
              \union [ids : SUBSET Orgs, alone : BOOLEAN] \union [Orgs -> SUBSET Items]

BeginRead(r, o) ==
  /\ readers[r] = None /\ cache[o] = None
  /\ readers' = [readers EXCEPT ![r] =
       [root |-> o, at |-> "find", path |-> <<>>, ids |-> {},
        alone |-> \A w \in Writers : writers[w] = None]]
  /\ UNCHANGED <<org, writers, cache>>

FindRoot(r) ==
  LET o == readers[r].root IN
  /\ readers[r] # None /\ readers[r].at = "find"
  /\ readers' = [readers EXCEPT ![r] =
       IF o \in Existing(org) THEN [readers[r] EXCEPT !.at = "query", !.path = EffectivePath(o, org[o])]
       ELSE None]
  /\ UNCHANGED <<org, writers, cache>>

(* The pattern matches no path that is null.                               *)
QuerySubtree(r) ==
  LET o == readers[r].root IN
  /\ readers[r] # None /\ readers[r].at = "query"
  /\ readers' = [readers EXCEPT
       ![r].at = "keep",
       ![r].ids = {x \in Existing(org) : x = o \/ IsStrictPrefix(readers[r].path, org[x].path)}]
  /\ UNCHANGED <<org, writers, cache>>

KeepSubtree(r) ==
  LET c == readers[r] IN
  /\ c # None /\ c.at = "keep"
  /\ cache' = [cache EXCEPT ![c.root] = [ids |-> c.ids, alone |-> c.alone]]
  /\ readers' = [readers EXCEPT ![r] = None]
  /\ UNCHANGED <<org, writers>>

(* Ten seconds have passed.                                                *)
Expire(o) ==
  /\ cache[o] # None
  /\ cache' = [cache EXCEPT ![o] = None]
  /\ UNCHANGED <<org, writers, readers>>

-----------------------------------------------------------------------------

Write(w) ==
  \/ \E o \in Orgs :
       \/ \E p \in Orgs \union {None} : BeginCreateOrg(w, o, p)
       \/ \E p \in Orgs, force \in BOOLEAN : BeginMove(w, o, p, force)
       \/ BeginRemoveOrg(w, o)
  \/ \E o \in Editable : \/ \E rule \in Rules \union {None} : BeginEditRules(w, o, rule)
                         \/ \E rule \in Defaults \union {None} : BeginEditDefaults(w, o, rule)
  \/ InsertOrg(w) \/ WriteNewPath(w)
  \/ ReadMoved(w) \/ SaveMoved(w) \/ WriteMovedPath(w) \/ FindDescendants(w) \/ RewritePath(w)
  \/ DeleteOrg(w) \/ SaveEdited(w) \/ ClearSubtreeCache(w)

Read(r) ==
  (\E o \in Listed : BeginRead(r, o)) \/ FindRoot(r) \/ QuerySubtree(r) \/ KeepSubtree(r)

TreeNext == \/ \E w \in Writers : Write(w)
            \/ \E r \in Readers : Read(r)
            \/ \E o \in Orgs : Expire(o)

TreeSpec == TreeInit /\ [][TreeNext]_treeVars

-----------------------------------------------------------------------------
(* The types of the rows, the requests and the cache.                      *)
TreeTypeOK ==
  /\ org \in [Orgs -> OrgRow \union {Fresh, Gone}]
  /\ writers \in [Writers -> Change \union {None}]
  /\ readers \in [Readers -> Reading \union {None}]
  /\ cache \in [Orgs -> [ids : SUBSET Orgs, alone : BOOLEAN] \union {None}]

(* Every organisation has one at the top above it, even halfway through a  *)
(* move: previewMoveOrg refuses moves into the own subtree ("Organisation  *)
(* kann nicht in die eigene Unterstruktur verschoben werden"), which it    *)
(* looks up by the paths.                                                  *)
NoCycle == \A o \in Existing(org) : Len(Lineage(org, o)) <= Cardinality(Orgs)

(* When no change is under way the stored paths are those of the tree,     *)
(* after any number of creations, moves of whole subtrees and removals.    *)
PathsMatchTree ==
  (\A w \in Writers : writers[w] = None) =>
    \A o \in Existing(org) : org[o].path = Lineage(org, o)

(* A move nobody had to confirm takes nothing from anyone and gives nobody *)
(* anything, in the whole tree: the preview foresees what moveOrg does.    *)
UnforcedMoveHidesNothing ==
  \A w \in Writers : Doing(w, "move", "clear") /\ ~writers[w].force =>
    \A o \in Existing(org) : Visible(org, o) = writers[w].before[o]

(* A list of a subtree in the cache is wrong only while the tree is being  *)
(* changed, or when it was changed while the list was read: each change    *)
(* empties the cache, and what is stored later was read later.             *)
StaleOnlyWhenOverlapped ==
  (\A w \in Writers : writers[w] = None) =>
    \A o \in Existing(org) : cache[o] # None /\ cache[o].alone => cache[o].ids = Below(org, o)
=============================================================================
