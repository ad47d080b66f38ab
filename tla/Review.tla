------------------------------- MODULE Review -------------------------------
(***************************************************************************)
(* insightsd's review of finding classes: the analyzer stores findings and *)
(* keeps their classes, operators decide the classes from pages that may   *)
(* be out of date, the grouping pass suggests which classes go together,   *)
(* and the maintenance pass prunes what nothing depends on.                *)
(*                                                                         *)
(* Every transaction of the store is one step; the passes take several and *)
(* the others run in between.                                              *)
(***************************************************************************)
EXTENDS Integers, FiniteSets, Sequences, SequencesExt

CONSTANTS
  System, Class,
  Decided,      \* the decided visibilities: customer, operator, dismissed;
                \* no property tells one from another
  Wording,      \* what the model may write for a finding
  Batch,        \* classes per grouping pass
  Retention,    \* FindingRetention, in ticks
  StaleAfter,   \* in ticks
  RunTimeout,   \* ticks that a run of the analyzer takes at most
  MaxClock,     \* bound: last tick
  MaxModel,     \* bound: the models the sidecar serves, one after the other
  MaxRecords    \* bound: decisions recorded

ASSUME ReviewAssumption ==
  /\ IsFiniteSet(Class) /\ IsFiniteSet(System)
  /\ Batch \in Nat \ {0}
  /\ Retention \in Nat /\ StaleAfter \in Nat /\ RunTimeout \in Nat
  /\ MaxClock \in Nat /\ MaxModel \in Nat /\ MaxRecords \in Nat
  /\ "pending" \notin Decided

VARIABLES
  clock,
  findings,   \* the retained findings, one per system and class at most
  classes,    \* finding_classes
  texts,      \* class_texts
  groups,     \* class_groups
  trail,      \* class_decisions: what was decided on each class, in order
  page,       \* the group page an operator has open
  served,     \* which model the sidecar serves
  grouper,    \* where classgroup.Runner.Run is
  pruner      \* where maint.Runner.Run is

store == <<findings, classes, texts, groups>>
vars == <<clock, store, trail, page, served, grouper, pruner>>

Unset == "unset"    \* no override, or an emptied box of a form

Finding == [open : BOOLEAN, seen : 0..MaxClock]
ClassRow == [visibility : Decided \cup {"pending"}, seen : 0..MaxClock]
\* The three wording fields as one.  The override stands for the other fields
\* an operator decides as well, the security tag, the severity override and
\* the documentation link: an absent one is Unset.
Text == [seed : Wording, override : Wording \cup {Unset}]
\* model: as recorded; of: ghost, the one that made the vector.
Group == [anchor : Class, model : 0..MaxModel, of : 0..MaxModel]
\* by: the form that decided it.
Decision ==
  [field : {"visibility"}, value : Decided, by : {"class", "group", "bulk"}]
    \cup [field : {"wording"}, value : Wording \cup {Unset}, by : {"class"}]

\* A table: rows for some of the keys.
Table(K, R) == UNION {[k -> R] : k \in SUBSET K}
With(t, k, row) == [x \in DOMAIN t \cup {k} |-> IF x = k THEN row ELSE t[x]]
Without(t, k) == [x \in DOMAIN t \ {k} |-> t[x]]

NoPage == [members |-> {}]
NotGrouping == [pc |-> "idle"]
NotPruning == [pc |-> "idle", cutoff |-> 0]

Init ==
  /\ clock = 0
  /\ findings = <<>> /\ classes = <<>> /\ texts = <<>> /\ groups = <<>>
  /\ trail = [c \in Class |-> <<>>]
  /\ page = NoPage
  /\ served = 0
  /\ grouper = NotGrouping
  /\ pruner = NotPruning

-----------------------------------------------------------------------------
(* The analyzer. *)

\* Mutation of Seeded: the latest finding words the class.
SeededAnew(t, c, w) ==
  With(t, c, [seed |-> w, override |-> IF c \in DOMAIN t THEN t[c].override ELSE Unset])

\* First writer wins: a class that has a wording keeps it.
Seeded(t, c, w) == IF c \in DOMAIN t THEN t ELSE With(t, c, [seed |-> w, override |-> Unset])

\* last_seen of a class, and of a finding seen again, moves forward only.
Later(old, now) == IF old < now THEN now ELSE old

\* A class that is there keeps its decisions: only its last_seen moves.
Kept(c, now) ==
  With(classes, c, IF c \in DOMAIN classes
                     THEN [classes[c] EXCEPT !.seen = Later(@, now)]
                     ELSE [visibility |-> "pending", seen |-> now])

\* The now of a run that writes: it took it when it began.
RunNow == {t \in 0..clock : t >= clock - RunTimeout}

\* UpsertFinding: the finding, its class and the class's wording, together;
\* last_seen of the finding may move back.  The class was chosen from what
\* ExistingClasses read earlier: any of them.
Upsert(s, c, w, now) ==
  /\ findings' = With(findings, <<s, c>>, [open |-> TRUE, seen |-> now])
  /\ classes' = Kept(c, now)
  /\ texts' = Seeded(texts, c, w)
  /\ UNCHANGED <<clock, groups, trail, page, served, grouper, pruner>>

\* RefreshFindings: the findings of a system whose lines are in the window are
\* seen now, and so are their classes.
Refresh(s, hits, now) ==
  /\ hits # {} /\ \A c \in hits : <<s, c>> \in DOMAIN findings
  /\ findings' = [f \in DOMAIN findings |->
       IF f[1] = s /\ f[2] \in hits
         THEN [findings[f] EXCEPT !.open = TRUE, !.seen = Later(@, now)]
         ELSE findings[f]]
  /\ classes' = [c \in DOMAIN classes |->
       IF c \in hits THEN [classes[c] EXCEPT !.seen = Later(@, now)] ELSE classes[c]]
  /\ UNCHANGED <<clock, texts, groups, trail, page, served, grouper, pruner>>

\* MarkStale: the system's findings that have been silent.
MarkStale(s, now) ==
  /\ findings' = [f \in DOMAIN findings |->
       IF f[1] = s /\ findings[f].seen < now - StaleAfter
         THEN [findings[f] EXCEPT !.open = FALSE]
         ELSE findings[f]]
  /\ UNCHANGED <<clock, classes, texts, groups, trail, page, served, grouper, pruner>>

-----------------------------------------------------------------------------
(* The operators.  A decision and its record are one transaction. *)

Records == FoldSet(LAMBDA c, n : n + Len(trail[c]), 0, Class)

\* The visibility of some classes is set, with a record for each.
SetVisibility(keys, v, by) ==
  /\ classes' = [c \in DOMAIN classes |->
       IF c \in keys THEN [classes[c] EXCEPT !.visibility = v] ELSE classes[c]]
  /\ trail' = [c \in Class |->
       IF c \in keys
         THEN Append(trail[c], [field |-> "visibility", value |-> v, by |-> by])
         ELSE trail[c]]

Anchored(a) == {c \in DOMAIN groups : groups[c].anchor = a}

\* ListClasses, asked for a group.
Listed(a) == Anchored(a) \cap DOMAIN classes

\* handleReview with ?group=: the members of a group; the page's forms post
\* the ones it shows as pending, and are refused without any.
ShowGroup(a) ==
  LET pending == {c \in Listed(a) : classes[c].visibility = "pending"}
  IN /\ pending # {}
     /\ page' = [anchor |-> a, members |-> pending]
     /\ UNCHANGED <<clock, store, trail, served, grouper, pruner>>

\* Mutation of PendingMembers: what the page showed as pending is decided.
ListedMembers(a, members) == members \cap Anchored(a) \cap DOMAIN classes

\* Of the classes the page listed, those still in the group and undecided.
PendingMembers(a, members) ==
  {c \in members \cap Anchored(a) \cap DOMAIN classes : classes[c].visibility = "pending"}

\* /review/group: an open page is posted, maybe long after it was rendered
\* and maybe twice.  A group that is gone is refused.
DecideGroup(v) ==
  /\ Records < MaxRecords
  /\ page.members # {}
  /\ Anchored(page.anchor) # {}
  /\ SetVisibility(PendingMembers(page.anchor, page.members), v, "group")
  /\ UNCHANGED <<clock, findings, texts, groups, page, served, grouper, pruner>>

\* /review/bulk: the ticked classes, decided or not.
DecideBulk(keys, v) ==
  /\ Records < MaxRecords
  /\ SetVisibility({c \in keys \cap DOMAIN classes : classes[c].visibility # v}, v, "bulk")
  /\ UNCHANGED <<clock, findings, texts, groups, page, served, grouper, pruner>>

\* What the class dialog posts: the class's whole state, as the page showed
\* it but for what the operator changed.
Form ==
  [visibility : Decided \cup {"pending"}, wording : Wording \cup {Unset}]

\* wordingOverride: an emptied box, or the seed itself, is no override.
Override(posted, seed) == IF posted = seed THEN Unset ELSE posted

\* formClassUpdate: an undecided form leaves the visibility as it is.
Chosen(form, row) == IF form.visibility = "pending" THEN row.visibility ELSE form.visibility

\* The record of a field that a form changes.
Record(field, old, new) ==
  IF new = old THEN <<>> ELSE <<[field |-> field, value |-> new, by |-> "class"]>>

\* /review/decide: the fields that differ from the row change, each with its
\* record, and a form that changes nothing leaves nothing.
DecideClass(c, form) ==
  /\ Records < MaxRecords
  /\ c \in DOMAIN classes
  /\ LET row == classes[c]
         visibility == Chosen(form, row)
         override == Override(form.wording, texts[c].seed)
         changes == Record("visibility", row.visibility, visibility)
                      \o Record("wording", texts[c].override, override)
     IN /\ changes # <<>>
        /\ classes' = [classes EXCEPT ![c].visibility = visibility]
        /\ texts' = [texts EXCEPT ![c].override = override]
        /\ trail' = [trail EXCEPT ![c] = @ \o changes]
  /\ UNCHANGED <<clock, findings, groups, page, served, grouper, pruner>>

\* handleDecision: the three forms.
Decide ==
  \/ \E v \in Decided :
       DecideGroup(v) \/ \E keys \in SUBSET Class \ {{}} : DecideBulk(keys, v)
  \/ \E c \in Class, form \in Form : DecideClass(c, form)

-----------------------------------------------------------------------------
(* The grouping pass. *)

\* UngroupedClasses: those with a finding to embed and no row under the model.
Ungrouped(m) ==
  {c \in DOMAIN classes :
     /\ \E s \in System : <<s, c>> \in DOMAIN findings
     /\ ~(c \in DOMAIN groups /\ groups[c].model = m)}

GroupAnchors(m) == {c \in DOMAIN groups : groups[c].anchor = c /\ groups[c].model = m}

\* The probe tells the model.  A batch of the classes it has not grouped is
\* read (the oldest: which ones, no property tells apart), and its anchors,
\* once for the whole batch.
GroupingStarts ==
  /\ grouper.pc = "idle"
  /\ \E todo \in SUBSET Ungrouped(served) :
       /\ todo # {}
       /\ Cardinality(todo) <= Batch
       /\ todo = Ungrouped(served) \/ Cardinality(todo) = Batch
       /\ grouper' = [pc |-> "embed", model |-> served, todo |-> todo,
                      anchors |-> GroupAnchors(served)]
  /\ UNCHANGED <<clock, store, trail, page, served, pruner>>

Embedded(c, anchors) ==
  IF grouper.todo = {c}
    THEN NotGrouping
    ELSE [grouper EXCEPT !.todo = @ \ {c}, !.anchors = anchors]

\* Mutation of SameModel: any answer is taken.
AnyModel == grouper.model \in 0..MaxModel

\* An answer of another model than the one probed ends the pass.
SameModel == served = grouper.model

\* SetClassGroup: a class joins the anchor most like it, or becomes one; which
\* of them depends on the vectors.  The row is written whatever became of the
\* class and of the anchor since they were read.
EmbedClass(c) ==
  /\ grouper.pc = "embed" /\ c \in grouper.todo
  /\ SameModel
  /\ \E a \in grouper.anchors \cup {c} :
       /\ groups' = With(groups, c, [anchor |-> a, model |-> grouper.model, of |-> served])
       /\ grouper' = Embedded(c, grouper.anchors \cup ({c} \cap {a}))
  /\ UNCHANGED <<clock, findings, classes, texts, trail, page, served, pruner>>

\* A class the sidecar refuses is left for the next pass.
SkipClass(c) ==
  /\ grouper.pc = "embed" /\ c \in grouper.todo
  /\ grouper' = Embedded(c, grouper.anchors)
  /\ UNCHANGED <<clock, store, trail, page, served, pruner>>

\* The sidecar is down or serves another model, a call on the store fails,
\* or the process stops: the rest waits for the next pass.
GroupingEnds ==
  /\ grouper.pc # "idle"
  /\ grouper' = NotGrouping
  /\ UNCHANGED <<clock, store, trail, page, served, pruner>>

\* The sidecar restarts with another model.
ServeAnother ==
  /\ served < MaxModel
  /\ served' = served + 1
  /\ UNCHANGED <<clock, store, trail, page, grouper, pruner>>

-----------------------------------------------------------------------------
(* The maintenance pass.  Rows go in batches, the lock released in between; *)
(* a batch of several is several of these steps in a row.                   *)

PruneStarts ==
  /\ pruner.pc = "idle"
  /\ pruner' = [pc |-> "findings", cutoff |-> clock - Retention]
  /\ UNCHANGED <<clock, store, trail, page, served, grouper>>

\* PruneFindings: an open finding is never old.
PrunableFindings ==
  {f \in DOMAIN findings : ~findings[f].open /\ findings[f].seen < pruner.cutoff}

\* Mutations of PrunableClasses: decisions do not hold a class back, or
\* findings do not.
PrunableDecided ==
  {c \in DOMAIN classes :
     classes[c].seen < pruner.cutoff /\ \A s \in System : <<s, c>> \notin DOMAIN findings}
PrunableNamed == {c \in DOMAIN classes : classes[c].seen < pruner.cutoff /\ trail[c] = <<>>}

\* PruneClasses: no decision depends on the class, and no finding names it.
PrunableClasses ==
  {c \in DOMAIN classes :
     /\ classes[c].seen < pruner.cutoff
     /\ trail[c] = <<>>
     /\ \A s \in System : <<s, c>> \notin DOMAIN findings}

\* What is left of the classes that are gone.
Orphans(table) == DOMAIN table \ DOMAIN classes

PruneFinding(f) ==
  /\ pruner.pc = "findings" /\ f \in PrunableFindings
  /\ findings' = Without(findings, f)
  /\ UNCHANGED <<clock, classes, texts, groups, trail, page, served, grouper, pruner>>

PruneClass(c) ==
  /\ pruner.pc = "classes" /\ c \in PrunableClasses
  /\ classes' = Without(classes, c)
  /\ UNCHANGED <<clock, findings, texts, groups, trail, page, served, grouper, pruner>>

PruneGroup(c) ==
  /\ pruner.pc = "groups" /\ c \in Orphans(groups)
  /\ groups' = Without(groups, c)
  /\ UNCHANGED <<clock, findings, classes, texts, trail, page, served, grouper, pruner>>

PruneText(c) ==
  /\ pruner.pc = "texts" /\ c \in Orphans(texts)
  /\ texts' = Without(texts, c)
  /\ UNCHANGED <<clock, findings, classes, groups, trail, page, served, grouper, pruner>>

\* The next table, once a batch finds no more.
PruneGoesOn ==
  /\ \/ pruner.pc = "findings" /\ PrunableFindings = {} /\ pruner' = [pruner EXCEPT !.pc = "classes"]
     \/ pruner.pc = "classes" /\ PrunableClasses = {} /\ pruner' = [pruner EXCEPT !.pc = "groups"]
     \/ pruner.pc = "groups" /\ Orphans(groups) = {} /\ pruner' = [pruner EXCEPT !.pc = "texts"]
     \/ pruner.pc = "texts" /\ Orphans(texts) = {} /\ pruner' = NotPruning
  /\ UNCHANGED <<clock, store, trail, page, served, grouper>>

\* A failed batch ends its prune: of the findings, and the classes are tried
\* all the same; of the classes, and what is left of them waits.
PruneFails ==
  /\ pruner.pc # "idle"
  /\ pruner' = IF pruner.pc = "findings" THEN [pruner EXCEPT !.pc = "classes"] ELSE NotPruning
  /\ UNCHANGED <<clock, store, trail, page, served, grouper>>

-----------------------------------------------------------------------------

\* The process stops and starts: the tables are kept, the passes are not.
Restart ==
  /\ grouper' = NotGrouping
  /\ pruner' = NotPruning
  /\ UNCHANGED <<clock, store, trail, page, served>>

Tick ==
  /\ clock < MaxClock
  /\ clock' = clock + 1
  /\ UNCHANGED <<store, trail, page, served, grouper, pruner>>

Next ==
  \/ \E s \in System, now \in RunNow :
       \/ MarkStale(s, now)
       \/ \E hits \in SUBSET Class : Refresh(s, hits, now)
       \/ \E c \in Class, w \in Wording : Upsert(s, c, w, now)
  \/ \E s \in System, c \in Class : PruneFinding(<<s, c>>)
  \/ \E a \in Class : ShowGroup(a)
  \/ Decide
  \/ GroupingStarts \/ GroupingEnds \/ ServeAnother
  \/ PruneStarts \/ PruneGoesOn \/ PruneFails
  \/ \E c \in Class :
       EmbedClass(c) \/ SkipClass(c) \/ PruneClass(c) \/ PruneGroup(c) \/ PruneText(c)
  \/ Restart \/ Tick

Spec == Init /\ [][Next]_vars

-----------------------------------------------------------------------------

TypeOK ==
  /\ clock \in 0..MaxClock
  /\ findings \in Table(System \X Class, Finding)
  /\ classes \in Table(Class, ClassRow)
  /\ texts \in Table(Class, Text)
  /\ groups \in Table(Class, Group)
  /\ \A c \in Class : \A i \in DOMAIN trail[c] : trail[c][i] \in Decision
  /\ served \in 0..MaxModel
  /\ page = NoPage \/ page \in [anchor : Class, members : SUBSET Class]

\* The last value recorded of a field, or what it was before any decision.
Latest(c, field, default) ==
  LET of == {i \in DOMAIN trail[c] : trail[c][i].field = field}
  IN IF of = {} THEN default ELSE trail[c][CHOOSE i \in of : \A j \in of : j <= i].value

\* A decision is never lost, and nothing is decided without a record:
\* whatever prunes, recurrences and out-of-date forms come between, a decided
\* class is there and is what its trail says (classDecision,
\* UpdateClass, PruneClasses).
DecisionsKept ==
  \A c \in Class :
    /\ trail[c] # <<>> => c \in DOMAIN classes
    /\ c \in DOMAIN classes =>
         /\ classes[c].visibility = Latest(c, "visibility", "pending")
         /\ c \in DOMAIN texts => texts[c].override = Latest(c, "wording", Unset)

\* A group form decides only what nobody decided yet, however old the page it
\* was posted from (SetGroupVisibility).
GroupDecidesUndecided ==
  \A c \in Class : \A i \in DOMAIN trail[c] :
    trail[c][i].by = "group" => \A j \in 1..(i - 1) : trail[c][j].field # "visibility"

\* A retained finding can be reviewed: its class is there, whichever prune and
\* whichever recurrence came between (UpsertFinding, PruneClasses).
FindingsReviewable == \A f \in DOMAIN findings : f[2] \in DOMAIN classes

\* A class and its anchor were compared by vectors of one model, though the
\* sidecar changes models, also under a running pass
\* (classgroup.Runner.Run, GroupAnchors).
GroupsOfOneModel ==
  \A c \in DOMAIN groups :
    LET a == groups[c].anchor
    IN a \in DOMAIN groups /\ groups[a].model = groups[c].model => groups[a].of = groups[c].of

\* The wording of a class is one for all its findings and stays as it is,
\* through recurrences and prunes, until an operator changes it
\* (UpsertFinding, RefreshFindings, PruneClasses).
WordingStable ==
  [][\A c \in DOMAIN classes \cap DOMAIN classes' \cap DOMAIN texts :
       /\ c \in DOMAIN texts'
       /\ texts'[c].seed = texts[c].seed
       /\ texts'[c].override # texts[c].override => trail'[c] # trail[c]]_vars

=============================================================================
