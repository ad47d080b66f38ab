---------------------------- MODULE ReviewProofs ----------------------------
(***************************************************************************)
(* Proofs about Review for any systems, classes, wordings and retention:   *)
(* type correctness, that no decision is lost and none is made unrecorded, *)
(* that a group form decides only the undecided, that every finding can be *)
(* reviewed, that groups compare vectors of one model, and that a wording  *)
(* stays until an operator changes it.                                     *)
(***************************************************************************)
EXTENDS Review, SequenceTheorems, Extremes

-----------------------------------------------------------------------------
(* Tables. *)

\* A table is a function on some of the keys.
LEMMA TableIs ==
  ASSUME NEW K, NEW R, NEW t
  PROVE  t \in Table(K, R) <=> t \in [DOMAIN t -> R] /\ DOMAIN t \subseteq K
<1>1. ASSUME t \in Table(K, R)
      PROVE  t \in [DOMAIN t -> R] /\ DOMAIN t \subseteq K
  <2>1. PICK k \in SUBSET K : t \in [k -> R]
    BY <1>1 DEF Table
  <2> QED
    BY <2>1
<1>2. ASSUME t \in [DOMAIN t -> R], DOMAIN t \subseteq K
      PROVE  t \in Table(K, R)
  BY <1>2 DEF Table
<1> QED
  BY <1>1, <1>2

\* A row written, and a row deleted.
LEMMA RowWritten ==
  ASSUME NEW K, NEW R, NEW t \in Table(K, R), NEW k \in K, NEW r \in R
  PROVE  /\ With(t, k, r) \in Table(K, R)
         /\ DOMAIN With(t, k, r) = DOMAIN t \cup {k}
         /\ With(t, k, r)[k] = r
         /\ \A x \in DOMAIN t \ {k} : With(t, k, r)[x] = t[x]
<1>1. t \in [DOMAIN t -> R] /\ DOMAIN t \subseteq K
  BY TableIs
<1>2. /\ With(t, k, r) \in [DOMAIN With(t, k, r) -> R]
      /\ DOMAIN With(t, k, r) = DOMAIN t \cup {k}
      /\ With(t, k, r)[k] = r /\ \A x \in DOMAIN t \ {k} : With(t, k, r)[x] = t[x]
  BY <1>1 DEF With
<1>3. With(t, k, r) \in Table(K, R)
  BY <1>1, <1>2, TableIs
<1> QED
  BY <1>2, <1>3

LEMMA RowDeleted ==
  ASSUME NEW K, NEW R, NEW t \in Table(K, R), NEW k \in K
  PROVE  /\ Without(t, k) \in Table(K, R)
         /\ DOMAIN Without(t, k) = DOMAIN t \ {k}
         /\ \A x \in DOMAIN t \ {k} : Without(t, k)[x] = t[x]
<1>1. t \in [DOMAIN t -> R] /\ DOMAIN t \subseteq K
  BY TableIs
<1>2. Without(t, k) \in [DOMAIN t \ {k} -> R] /\ DOMAIN Without(t, k) = DOMAIN t \ {k}
      /\ \A x \in DOMAIN t \ {k} : Without(t, k)[x] = t[x]
  BY <1>1 DEF Without
<1>3. Without(t, k) \in Table(K, R)
  BY <1>1, <1>2, TableIs
<1> QED
  BY <1>2, <1>3

-----------------------------------------------------------------------------
(* Trails. *)

\* Latest, of any trail.
LastOf(s, field, default) ==
  LET of == {i \in DOMAIN s : s[i].field = field}
  IN IF of = {} THEN default ELSE s[CHOOSE i \in of : \A j \in of : j <= i].value

\* A group's record comes before any other of the visibility.
GroupFirst(s) ==
  \A i \in DOMAIN s : s[i].by = "group" => \A j \in 1..(i - 1) : s[j].field # "visibility"

\* The last record of a field is one of the trail.
LEMMA LastIsThere ==
  ASSUME NEW s \in Seq(Decision), NEW field, NEW default,
         {i \in DOMAIN s : s[i].field = field} # {}
  PROVE  \E i \in DOMAIN s :
           /\ s[i].field = field
           /\ \A j \in DOMAIN s : s[j].field = field => j <= i
           /\ LastOf(s, field, default) = s[i].value
<1> DEFINE of == {i \in DOMAIN s : s[i].field = field}
           last == CHOOSE i \in of : \A j \in of : j <= i
<1>1. DOMAIN s = 1..Len(s) /\ Len(s) \in Nat
  OBVIOUS
<1>2. of \in SUBSET (0..Len(s))
  BY <1>1
<1>3. \E i \in of : \A j \in of : j <= i
  <2> HIDE DEF of
  <2> QED
    BY <1>1, <1>2, LargestExists DEF of
<1>4. last \in of /\ \A j \in of : j <= last
  <2> HIDE DEF of
  <2> QED
    BY <1>3
<1>5. LastOf(s, field, default) = s[last].value
  <2>1. LastOf(s, field, default) = IF of = {} THEN default ELSE s[last].value
    BY DEF LastOf
  <2> QED
    <3> HIDE DEF last, of
    <3> QED
      BY <2>1, <1>4
<1> HIDE DEF last
<1> QED
  BY <1>4, <1>5

\* A record appended is the last of its field, and of no other.
LEMMA LastAppended ==
  ASSUME NEW s \in Seq(Decision), NEW r \in Decision, NEW field, NEW default
  PROVE  LastOf(Append(s, r), field, default) =
           IF r.field = field THEN r.value ELSE LastOf(s, field, default)
<1> DEFINE t == Append(s, r)
           n == Len(s)
<1>1. /\ t \in Seq(Decision) /\ n \in Nat
      /\ DOMAIN s = 1..n /\ DOMAIN t = 1..(n + 1)
      /\ t[n + 1] = r /\ \A i \in 1..n : t[i] = s[i]
  OBVIOUS
<1> HIDE DEF t, n
<1>2. CASE r.field = field
  <2>1. {i \in DOMAIN t : t[i].field = field} # {}
    BY <1>1, <1>2
  <2>2. PICK i \in DOMAIN t :
          /\ \A j \in DOMAIN t : t[j].field = field => j <= i
          /\ LastOf(t, field, default) = t[i].value
    BY <1>1, <2>1, LastIsThere
  <2>3. i = n + 1
    BY <1>1, <1>2, <2>2
  <2> QED
    BY <1>1, <1>2, <2>2, <2>3 DEF t
<1>3. CASE r.field # field
  <2>1. {i \in DOMAIN t : t[i].field = field} = {i \in DOMAIN s : s[i].field = field}
    BY <1>1, <1>3
  <2>2. CASE {i \in DOMAIN s : s[i].field = field} = {}
    BY <1>3, <2>1, <2>2 DEF LastOf, t
  <2>3. CASE {i \in DOMAIN s : s[i].field = field} # {}
    <3>1. PICK i \in DOMAIN t :
            /\ t[i].field = field /\ \A j \in DOMAIN t : t[j].field = field => j <= i
            /\ LastOf(t, field, default) = t[i].value
      BY <1>1, <2>1, <2>3, LastIsThere
    <3>2. PICK k \in DOMAIN s :
            /\ s[k].field = field /\ \A j \in DOMAIN s : s[j].field = field => j <= k
            /\ LastOf(s, field, default) = s[k].value
      BY <2>3, LastIsThere
    <3>3. i = k /\ t[i] = s[k]
      BY <1>1, <1>3, <3>1, <3>2
    <3> QED
      BY <1>3, <3>1, <3>2, <3>3 DEF t
  <2> QED
    BY <2>2, <2>3
<1> QED
  BY <1>2, <1>3

\* An undecided class has no record of its visibility.
LEMMA UndecidedUnrecorded ==
  ASSUME NEW s \in Seq(Decision), LastOf(s, "visibility", "pending") = "pending"
  PROVE  \A i \in DOMAIN s : s[i].field # "visibility"
<1> SUFFICES ASSUME {i \in DOMAIN s : s[i].field = "visibility"} # {} PROVE FALSE
  OBVIOUS
<1>1. PICK i \in DOMAIN s :
        s[i].field = "visibility" /\ LastOf(s, "visibility", "pending") = s[i].value
  BY LastIsThere
<1>2. s[i] \in Decision
  BY <1>1
<1>3. s[i].value \in Decided
  BY <1>1, <1>2 DEF Decision
<1> QED
  BY <1>1, <1>3, ReviewAssumption

\* The order of the trail is kept by a record of another form, and by a
\* group's on a class nobody decided.
LEMMA GroupFirstAppended ==
  ASSUME NEW s \in Seq(Decision), NEW r \in Decision, GroupFirst(s),
         r.by = "group" => \A i \in DOMAIN s : s[i].field # "visibility"
  PROVE  GroupFirst(Append(s, r))
<1> DEFINE t == Append(s, r)
           n == Len(s)
<1>1. /\ n \in Nat /\ DOMAIN s = 1..n /\ DOMAIN t = 1..(n + 1)
      /\ t[n + 1] = r /\ \A i \in 1..n : t[i] = s[i]
  OBVIOUS
<1> HIDE DEF t, n
<1>2. GroupFirst(t)
  <2> SUFFICES ASSUME NEW i \in DOMAIN t, t[i].by = "group", NEW j \in 1..(i - 1)
               PROVE  t[j].field # "visibility"
    BY DEF GroupFirst
  <2>1. i \in Nat /\ j \in 1..n /\ t[j] = s[j]
    BY <1>1
  <2>2. CASE i = n + 1
    BY <1>1, <2>1, <2>2
  <2>3. CASE i \in 1..n
    BY <1>1, <2>1, <2>3 DEF GroupFirst
  <2> QED
    BY <1>1, <2>2, <2>3
<1> QED
  BY <1>2 DEF t

\* What the class dialog appends: for each field a record if it changed.
LEMMA RecordAppended ==
  ASSUME NEW s \in Seq(Decision), NEW field, NEW old, NEW new,
         new # old => [field |-> field, value |-> new, by |-> "class"] \in Decision,
         GroupFirst(s)
  PROVE  LET t == s \o Record(field, old, new) IN
         /\ t \in Seq(Decision) /\ GroupFirst(t)
         /\ Record(field, old, new) \in Seq(Decision)
         /\ \A other, default : LastOf(t, other, default) =
              IF other = field /\ new # old THEN new ELSE LastOf(s, other, default)
<1>1. CASE new = old
  <2>1. Record(field, old, new) = <<>>
    BY <1>1 DEF Record
  <2>2. s \o <<>> = s /\ <<>> \in Seq(Decision)
    BY ConcatEmptySeq
  <2> QED
    BY <1>1, <2>1, <2>2
<1>2. CASE new # old
  <2> DEFINE r == [field |-> field, value |-> new, by |-> "class"]
  <2>1. Record(field, old, new) = <<r>> /\ r \in Decision /\ <<r>> \in Seq(Decision)
    BY <1>2 DEF Record
  <2>2. r.field = field /\ r.value = new /\ r.by # "group"
    OBVIOUS
  <2> HIDE DEF r
  <2>3. s \o <<r>> = Append(s, r)
    BY <2>1, AppendIsConcat
  <2>4. Append(s, r) \in Seq(Decision) /\ GroupFirst(Append(s, r))
    BY <2>1, <2>2, GroupFirstAppended
  <2>5. \A other, default : LastOf(Append(s, r), other, default) =
          IF other = field THEN new ELSE LastOf(s, other, default)
    BY <2>1, <2>2, LastAppended
  <2> QED
    BY <1>2, <2>1, <2>3, <2>4, <2>5
<1> QED
  BY <1>1, <1>2

-----------------------------------------------------------------------------
(* The invariant. *)

Grouping ==
  [pc : {"embed"}, model : 0..MaxModel, todo : SUBSET Class, anchors : SUBSET Class]

Types ==
  /\ clock \in 0..MaxClock
  /\ findings \in Table(System \X Class, Finding)
  /\ classes \in Table(Class, ClassRow)
  /\ texts \in Table(Class, Text)
  /\ groups \in Table(Class, Group)
  /\ trail \in [Class -> Seq(Decision)]
  /\ served \in 0..MaxModel
  /\ page = NoPage \/ page \in [anchor : Class, members : SUBSET Class]
  /\ grouper = NotGrouping \/ grouper \in Grouping

\* A class has a wording as long as it is there.
Worded == DOMAIN classes \subseteq DOMAIN texts

\* What the trail of a class says, its rows say.  A wording may outlive its
\* class for a while, with nothing decided about it.
Recorded(c) ==
  /\ trail[c] # <<>> => c \in DOMAIN classes
  /\ c \in DOMAIN classes => classes[c].visibility = LastOf(trail[c], "visibility", "pending")
  /\ c \in DOMAIN texts => texts[c].override = LastOf(trail[c], "wording", Unset)
  /\ GroupFirst(trail[c])

AllRecorded == \A c \in Class : Recorded(c)

\* The model on record is the one that made the vector.
ModelRecorded == \A c \in DOMAIN groups : groups[c].of = groups[c].model

ReviewInv == Types /\ Worded /\ AllRecorded /\ FindingsReviewable /\ ModelRecorded

LEMMA ReviewInvIsEnough ==
  ReviewInv => /\ TypeOK
               /\ DecisionsKept
               /\ GroupDecidesUndecided
               /\ FindingsReviewable
               /\ GroupsOfOneModel
<1> SUFFICES ASSUME ReviewInv
             PROVE  /\ TypeOK /\ DecisionsKept /\ GroupDecidesUndecided
                    /\ FindingsReviewable /\ GroupsOfOneModel
  OBVIOUS
<1> USE DEF ReviewInv, Types
<1>1. TypeOK
  <2>1. ASSUME NEW c \in Class, NEW i \in DOMAIN trail[c] PROVE trail[c][i] \in Decision
    <3>1. trail[c] \in Seq(Decision)
      OBVIOUS
    <3> QED
      BY <3>1
  <2> QED
    BY <2>1 DEF TypeOK
<1>2. DecisionsKept
  BY DEF DecisionsKept, Latest, LastOf, AllRecorded, Recorded
<1>3. GroupDecidesUndecided
  BY DEF GroupDecidesUndecided, GroupFirst, AllRecorded, Recorded
<1>4. GroupsOfOneModel
  BY DEF GroupsOfOneModel, ModelRecorded
<1> QED
  BY <1>1, <1>2, <1>3, <1>4

LEMMA ReviewInvInit == Init => ReviewInv
<1> SUFFICES ASSUME Init PROVE ReviewInv
  OBVIOUS
<1> USE DEF Init
<1>1. /\ DOMAIN findings = {} /\ DOMAIN classes = {} /\ DOMAIN texts = {} /\ DOMAIN groups = {}
      /\ findings \in [{} -> Finding] /\ classes \in [{} -> ClassRow]
      /\ texts \in [{} -> Text] /\ groups \in [{} -> Group]
  OBVIOUS
<1>2. Types
  <2>1. <<>> \in Seq(Decision)
    OBVIOUS
  <2>2. trail \in [Class -> Seq(Decision)]
    BY <2>1
  <2>3. /\ findings \in Table(System \X Class, Finding) /\ classes \in Table(Class, ClassRow)
        /\ texts \in Table(Class, Text) /\ groups \in Table(Class, Group)
    <3>1. ASSUME NEW K, NEW R, NEW t, DOMAIN t = {}, t \in [{} -> R]
          PROVE  t \in Table(K, R)
      BY <3>1, TableIs
    <3> HIDE DEF Init
    <3> QED
      BY <1>1, <3>1
  <2> QED
    BY <2>2, <2>3, ReviewAssumption DEF Types
<1>3. AllRecorded
  BY <1>1 DEF AllRecorded, Recorded, GroupFirst
<1> QED
  BY <1>1, <1>2, <1>3 DEF ReviewInv, Worded, FindingsReviewable, ModelRecorded

-----------------------------------------------------------------------------
(* The analyzer's steps. *)

\* A run's now is one of the ticks so far.
LEMMA RunNowIsPast ==
  ASSUME ReviewInv
  PROVE  RunNow \subseteq 0..MaxClock
  BY ReviewAssumption DEF RunNow, ReviewInv, Types

\* Of the tables that a finding is written to:
LEMMA FindingWritten ==
  ASSUME NEW t \in Table(System \X Class, Finding), NEW k \in System \X Class, NEW r \in Finding
  PROVE  /\ With(t, k, r) \in Table(System \X Class, Finding)
         /\ DOMAIN With(t, k, r) = DOMAIN t \cup {k}
         /\ With(t, k, r)[k] = r
         /\ \A x \in DOMAIN t \ {k} : With(t, k, r)[x] = t[x]
<1> DEFINE key == System \X Class
<1>1. t \in Table(key, Finding) /\ k \in key
  OBVIOUS
<1> HIDE DEF key
<1>2. /\ With(t, k, r) \in Table(key, Finding)
      /\ DOMAIN With(t, k, r) = DOMAIN t \cup {k}
      /\ With(t, k, r)[k] = r
      /\ \A x \in DOMAIN t \ {k} : With(t, k, r)[x] = t[x]
  BY <1>1, RowWritten
<1> QED
  BY <1>2 DEF key

LEMMA ClassWritten ==
  ASSUME NEW t \in Table(Class, ClassRow), NEW k \in Class, NEW r \in ClassRow
  PROVE  /\ With(t, k, r) \in Table(Class, ClassRow)
         /\ DOMAIN With(t, k, r) = DOMAIN t \cup {k}
         /\ With(t, k, r)[k] = r
         /\ \A x \in DOMAIN t \ {k} : With(t, k, r)[x] = t[x]
  BY RowWritten

LEMMA TextWritten ==
  ASSUME NEW t \in Table(Class, Text), NEW k \in Class, NEW r \in Text
  PROVE  /\ With(t, k, r) \in Table(Class, Text)
         /\ DOMAIN With(t, k, r) = DOMAIN t \cup {k}
         /\ With(t, k, r)[k] = r
         /\ \A x \in DOMAIN t \ {k} : With(t, k, r)[x] = t[x]
  BY RowWritten

\* A finding is stored with its class and its wording.
LEMMA UpsertKeeps ==
  ASSUME ReviewInv, NEW s \in System, NEW c \in Class, NEW w \in Wording,
         NEW now \in RunNow, Upsert(s, c, w, now)
  PROVE  ReviewInv'
<1> USE DEF ReviewInv, Types
<1> DEFINE finding == [open |-> TRUE, seen |-> now]
           row == IF c \in DOMAIN classes THEN [classes[c] EXCEPT !.seen = Later(@, now)]
                  ELSE [visibility |-> "pending", seen |-> now]
           text == [seed |-> w, override |-> Unset]
<1>0. now \in 0..MaxClock
  BY RunNowIsPast
<1>1. UNCHANGED <<clock, groups, trail, page, served, grouper>>
  BY DEF Upsert
<1>2. /\ findings' \in Table(System \X Class, Finding)
      /\ DOMAIN findings' = DOMAIN findings \cup {<<s, c>>}
  <2>1. finding \in Finding
    BY <1>0 DEF Finding
  <2> HIDE DEF finding
  <2>2. findings' = With(findings, <<s, c>>, finding)
    BY DEF Upsert, finding
  <2>3. findings \in Table(System \X Class, Finding) /\ <<s, c>> \in System \X Class
    OBVIOUS
  <2>4. /\ With(findings, <<s, c>>, finding) \in Table(System \X Class, Finding)
        /\ DOMAIN With(findings, <<s, c>>, finding) = DOMAIN findings \cup {<<s, c>>}
    <3> HIDE DEF ReviewInv, Types
    <3> QED
      BY <2>1, <2>3, FindingWritten
  <2> QED
    BY <2>2, <2>4
<1>3. /\ classes' \in Table(Class, ClassRow)
      /\ DOMAIN classes' = DOMAIN classes \cup {c}
      /\ classes'[c].visibility = IF c \in DOMAIN classes THEN classes[c].visibility ELSE "pending"
      /\ \A x \in DOMAIN classes \ {c} : classes'[x] = classes[x]
  <2>1. classes \in [DOMAIN classes -> ClassRow]
    BY TableIs
  <2>2. /\ row \in ClassRow
        /\ row.visibility = IF c \in DOMAIN classes THEN classes[c].visibility ELSE "pending"
    BY <1>0, <2>1 DEF ClassRow, Later
  <2> HIDE DEF row
  <2>3. classes' = With(classes, c, row)
    BY DEF Upsert, Kept, row
  <2>4. classes \in Table(Class, ClassRow) /\ row \in ClassRow
    BY <2>2
  <2>5. /\ With(classes, c, row) \in Table(Class, ClassRow)
        /\ DOMAIN With(classes, c, row) = DOMAIN classes \cup {c}
        /\ With(classes, c, row)[c] = row
        /\ \A x \in DOMAIN classes \ {c} : With(classes, c, row)[x] = classes[x]
    <3> HIDE DEF ReviewInv, Types
    <3> QED
      BY <2>4, ClassWritten
  <2> QED
    BY <2>2, <2>3, <2>5
<1>4. /\ texts' \in Table(Class, Text)
      /\ DOMAIN texts' = DOMAIN texts \cup {c}
      /\ c \notin DOMAIN texts => texts'[c].override = Unset
      /\ \A x \in DOMAIN texts : texts'[x] = texts[x]
  <2>1. CASE c \in DOMAIN texts
    <3>1. texts' = texts
      BY <2>1 DEF Upsert, Seeded
    <3> QED
      BY <2>1, <3>1
  <2>2. CASE c \notin DOMAIN texts
    <3>1. text \in Text /\ text.override = Unset
      BY DEF Text
    <3> HIDE DEF text
    <3>2. texts' = With(texts, c, text)
      BY <2>2 DEF Upsert, Seeded, text
    <3>3. texts \in Table(Class, Text)
      OBVIOUS
    <3>4. /\ With(texts, c, text) \in Table(Class, Text)
          /\ DOMAIN With(texts, c, text) = DOMAIN texts \cup {c}
          /\ With(texts, c, text)[c] = text
          /\ \A x \in DOMAIN texts \ {c} : With(texts, c, text)[x] = texts[x]
      <4> HIDE DEF ReviewInv, Types
      <4> QED
        BY <3>1, <3>3, TextWritten
    <3> QED
      BY <2>2, <3>1, <3>2, <3>4
  <2> QED
    BY <2>1, <2>2
<1>5. ASSUME NEW d \in Class PROVE Recorded(d)'
  <2>1. Recorded(d) /\ trail'[d] = trail[d]
    BY <1>1 DEF AllRecorded
  <2>2. CASE d # c
    BY <1>3, <1>4, <2>1, <2>2 DEF Recorded
  <2>3. CASE d = c
    <3>1. trail[c] = <<>> => LastOf(trail[c], "visibility", "pending") = "pending"
                             /\ LastOf(trail[c], "wording", Unset) = Unset
      BY DEF LastOf
    <3> QED
      BY <1>3, <1>4, <2>1, <2>3, <3>1 DEF Recorded, Worded
  <2> QED
    BY <2>2, <2>3
<1>6. Worded' /\ FindingsReviewable'
  BY <1>2, <1>3, <1>4 DEF Worded, FindingsReviewable
<1> QED
  BY <1>1, <1>2, <1>3, <1>4, <1>5, <1>6 DEF AllRecorded, ModelRecorded

\* Findings and classes are seen again, or have been silent.
LEMMA SightingKeeps ==
  ASSUME ReviewInv, NEW s \in System,
         NEW now \in RunNow,
         MarkStale(s, now) \/ \E hits \in SUBSET Class : Refresh(s, hits, now)
  PROVE  ReviewInv'
<1> USE DEF ReviewInv, Types
<1>1. UNCHANGED <<clock, texts, groups, trail, page, served, grouper>>
  BY DEF MarkStale, Refresh
<1>2. /\ findings \in [DOMAIN findings -> Finding] /\ classes \in [DOMAIN classes -> ClassRow]
      /\ DOMAIN findings \subseteq System \X Class /\ DOMAIN classes \subseteq Class
  BY TableIs
<1>3. /\ findings' \in [DOMAIN findings -> Finding] /\ DOMAIN findings' = DOMAIN findings
      /\ classes' \in [DOMAIN classes -> ClassRow] /\ DOMAIN classes' = DOMAIN classes
      /\ \A c \in DOMAIN classes : classes'[c].visibility = classes[c].visibility
  <2>1. CASE MarkStale(s, now)
    <3>1. /\ findings' = [f \in DOMAIN findings |->
               IF f[1] = s /\ findings[f].seen < now - StaleAfter
                 THEN [findings[f] EXCEPT !.open = FALSE] ELSE findings[f]]
          /\ classes' = classes
      BY <2>1 DEF MarkStale
    <3> QED
      BY <1>2, <3>1 DEF Finding
  <2>2. ASSUME NEW hits \in SUBSET Class, Refresh(s, hits, now)
        PROVE  /\ findings' \in [DOMAIN findings -> Finding] /\ DOMAIN findings' = DOMAIN findings
               /\ classes' \in [DOMAIN classes -> ClassRow] /\ DOMAIN classes' = DOMAIN classes
               /\ \A c \in DOMAIN classes : classes'[c].visibility = classes[c].visibility
    <3>1. now \in 0..MaxClock
      BY RunNowIsPast
    <3>2. findings' = [f \in DOMAIN findings |->
            IF f[1] = s /\ f[2] \in hits
              THEN [findings[f] EXCEPT !.open = TRUE, !.seen = Later(@, now)] ELSE findings[f]]
      BY <2>2 DEF Refresh
    <3>3. classes' = [c \in DOMAIN classes |->
            IF c \in hits THEN [classes[c] EXCEPT !.seen = Later(@, now)] ELSE classes[c]]
      BY <2>2 DEF Refresh
    <3>4. findings' \in [DOMAIN findings -> Finding] /\ DOMAIN findings' = DOMAIN findings
      BY <1>2, <3>1, <3>2 DEF Finding, Later
    <3>5. /\ classes' \in [DOMAIN classes -> ClassRow] /\ DOMAIN classes' = DOMAIN classes
          /\ \A c \in DOMAIN classes : classes'[c].visibility = classes[c].visibility
      BY <1>2, <3>1, <3>3 DEF ClassRow, Later
    <3> QED
      BY <3>4, <3>5
  <2> QED
    BY <2>1, <2>2
<1>4. /\ findings' \in Table(System \X Class, Finding)
      /\ classes' \in Table(Class, ClassRow)
  BY <1>2, <1>3, TableIs
<1>5. ASSUME NEW d \in Class PROVE Recorded(d)'
  BY <1>1, <1>3 DEF AllRecorded, Recorded
<1> QED
  BY <1>1, <1>3, <1>4, <1>5 DEF AllRecorded, Worded, FindingsReviewable, ModelRecorded

-----------------------------------------------------------------------------
(* The operators' steps. *)

\* Some classes are decided, each with its record; those of a group form were
\* undecided.
LEMMA SetVisibilityKeeps ==
  ASSUME ReviewInv, NEW keys \in SUBSET DOMAIN classes, NEW v \in Decided,
         NEW by \in {"group", "bulk"}, SetVisibility(keys, v, by),
         by = "group" => \A c \in keys : classes[c].visibility = "pending",
         UNCHANGED <<clock, findings, texts, groups, page, served, grouper>>
  PROVE  ReviewInv'
<1> USE DEF ReviewInv, Types
<1> DEFINE r == [field |-> "visibility", value |-> v, by |-> by]
<1>1. classes \in [DOMAIN classes -> ClassRow] /\ DOMAIN classes \subseteq Class
  BY TableIs
<1>2. /\ classes' \in [DOMAIN classes -> ClassRow] /\ DOMAIN classes' = DOMAIN classes
      /\ \A c \in DOMAIN classes : classes'[c].visibility =
           IF c \in keys THEN v ELSE classes[c].visibility
  <2>1. classes' = [c \in DOMAIN classes |->
          IF c \in keys THEN [classes[c] EXCEPT !.visibility = v] ELSE classes[c]]
    BY DEF SetVisibility
  <2> QED
    BY <1>1, <2>1 DEF ClassRow
<1>3. classes' \in Table(Class, ClassRow)
  BY <1>1, <1>2, TableIs
<1>4. r \in Decision /\ r.field = "visibility" /\ r.value = v /\ r.by = by
  BY DEF Decision
<1>5. /\ trail' \in [Class -> Seq(Decision)]
      /\ \A c \in Class : trail'[c] = IF c \in keys THEN Append(trail[c], r) ELSE trail[c]
  <2>1. trail' = [c \in Class |-> IF c \in keys THEN Append(trail[c], r) ELSE trail[c]]
    BY DEF SetVisibility
  <2>2. ASSUME NEW c \in Class PROVE Append(trail[c], r) \in Seq(Decision)
    <3>1. trail[c] \in Seq(Decision)
      OBVIOUS
    <3> HIDE DEF r
    <3> QED
      BY <1>4, <3>1, AppendProperties
  <2> HIDE DEF r
  <2> QED
    BY <2>1, <2>2
<1>6. ASSUME NEW c \in Class PROVE Recorded(c)'
  <2>1. Recorded(c) /\ trail[c] \in Seq(Decision)
    BY DEF AllRecorded
  <2>2. CASE c \notin keys
    BY <1>2, <1>5, <2>1, <2>2 DEF Recorded
  <2>3. CASE c \in keys
    <3> HIDE DEF r
    <3>1. trail'[c] = Append(trail[c], r)
      BY <1>5, <2>3
    <3>2. /\ LastOf(trail'[c], "visibility", "pending") = v
          /\ LastOf(trail'[c], "wording", Unset) = LastOf(trail[c], "wording", Unset)
      BY <1>4, <2>1, <3>1, LastAppended
    <3>3. by = "group" => \A i \in DOMAIN trail[c] : trail[c][i].field # "visibility"
      BY <2>1, <2>3, UndecidedUnrecorded DEF Recorded
    <3>4. GroupFirst(trail'[c])
      BY <1>4, <2>1, <3>1, <3>3, GroupFirstAppended DEF Recorded
    <3> QED
      BY <1>2, <2>1, <2>3, <3>2, <3>4 DEF Recorded
  <2> QED
    BY <2>2, <2>3
<1> QED
  BY <1>2, <1>3, <1>5, <1>6 DEF AllRecorded, Worded, FindingsReviewable, ModelRecorded

LEMMA DecideKeepsVisibilities ==
  ASSUME ReviewInv, NEW v \in Decided,
         DecideGroup(v) \/ \E keys \in SUBSET Class \ {{}} : DecideBulk(keys, v)
  PROVE  ReviewInv'
<1>1. CASE DecideGroup(v)
  <2> DEFINE members == PendingMembers(page.anchor, page.members)
  <2>1. /\ members \in SUBSET DOMAIN classes
        /\ \A c \in members : classes[c].visibility = "pending"
    BY DEF PendingMembers
  <2> HIDE DEF members
  <2>2. SetVisibility(members, v, "group")
        /\ UNCHANGED <<clock, findings, texts, groups, page, served, grouper>>
    BY <1>1 DEF DecideGroup, members
  <2> QED
    BY <2>1, <2>2, SetVisibilityKeeps
<1>2. ASSUME NEW keys \in SUBSET Class, DecideBulk(keys, v) PROVE ReviewInv'
  <2> DEFINE ticked == {c \in keys \cap DOMAIN classes : classes[c].visibility # v}
  <2>1. ticked \in SUBSET DOMAIN classes
    OBVIOUS
  <2>2. SetVisibility(ticked, v, "bulk")
        /\ UNCHANGED <<clock, findings, texts, groups, page, served, grouper>>
    BY <1>2 DEF DecideBulk
  <2> HIDE DEF ticked
  <2> QED
    BY <2>1, <2>2, SetVisibilityKeeps
<1> QED
  BY <1>1, <1>2

\* The class dialog: each field that changes has its record.
LEMMA DecideClassKeeps ==
  ASSUME ReviewInv, NEW c \in Class, NEW form \in Form, DecideClass(c, form)
  PROVE  ReviewInv' /\ trail'[c] # trail[c]
<1> USE DEF ReviewInv, Types
<1> DEFINE row == classes[c]
           visibility == Chosen(form, row)
           override == Override(form.wording, texts[c].seed)
           first == Record("visibility", row.visibility, visibility)
           second == Record("wording", texts[c].override, override)
<1>1. /\ c \in DOMAIN classes /\ first \o second # <<>>
      /\ classes' = [classes EXCEPT ![c].visibility = visibility]
      /\ texts' = [texts EXCEPT ![c].override = override]
      /\ trail' = [trail EXCEPT ![c] = @ \o (first \o second)]
      /\ UNCHANGED <<clock, findings, groups, page, served, grouper>>
  BY DEF DecideClass
<1>2. /\ classes \in [DOMAIN classes -> ClassRow] /\ DOMAIN classes \subseteq Class
      /\ texts \in [DOMAIN texts -> Text] /\ DOMAIN texts \subseteq Class
      /\ c \in DOMAIN texts
  BY <1>1, TableIs DEF Worded
<1>3. /\ visibility \in Decided \cup {"pending"}
      /\ visibility # row.visibility => visibility \in Decided
      /\ override \in Wording \cup {Unset}
  BY <1>1, <1>2 DEF Form, Chosen, Override, ClassRow
<1> HIDE DEF visibility, override
<1>4. /\ classes' \in [DOMAIN classes -> ClassRow] /\ DOMAIN classes' = DOMAIN classes
      /\ classes'[c].visibility = visibility
      /\ \A d \in DOMAIN classes \ {c} : classes'[d] = classes[d]
  BY <1>1, <1>2, <1>3 DEF ClassRow
<1>5. /\ texts' \in [DOMAIN texts -> Text] /\ DOMAIN texts' = DOMAIN texts
      /\ texts'[c].override = override
      /\ \A d \in DOMAIN texts \ {c} : texts'[d] = texts[d]
  BY <1>1, <1>2, <1>3 DEF Text
<1>6. classes' \in Table(Class, ClassRow) /\ texts' \in Table(Class, Text)
  BY <1>2, <1>4, <1>5, TableIs
<1>7. trail[c] \in Seq(Decision) /\ Recorded(c)
  BY DEF AllRecorded
<1>8. /\ visibility # row.visibility =>
           [field |-> "visibility", value |-> visibility, by |-> "class"] \in Decision
      /\ [field |-> "wording", value |-> override, by |-> "class"] \in Decision
  BY <1>3 DEF Decision
<1> DEFINE half == trail[c] \o first
<1>9. /\ half \in Seq(Decision) /\ GroupFirst(half) /\ first \in Seq(Decision)
      /\ \A other, default : LastOf(half, other, default) =
           IF other = "visibility" /\ visibility # row.visibility THEN visibility
           ELSE LastOf(trail[c], other, default)
  BY <1>7, <1>8, RecordAppended DEF Recorded
<1> HIDE DEF half
<1>10. /\ half \o second \in Seq(Decision) /\ GroupFirst(half \o second)
       /\ second \in Seq(Decision)
       /\ \A other, default : LastOf(half \o second, other, default) =
            IF other = "wording" /\ override # texts[c].override THEN override
            ELSE LastOf(half, other, default)
  BY <1>8, <1>9, RecordAppended
<1> HIDE DEF first, second
<1>11. /\ trail'[c] = half \o second
       /\ \A d \in Class \ {c} : trail'[d] = trail[d]
       /\ trail' \in [Class -> Seq(Decision)]
  <2>1. trail[c] \o (first \o second) = half \o second
    BY <1>7, <1>9, <1>10, ConcatAssociative DEF half
  <2> QED
    BY <1>1, <1>10, <2>1
<1>12. trail'[c] # trail[c]
  <2>1. first \o second \in Seq(Decision)
    BY <1>9, <1>10, ConcatProperties
  <2>2. trail[c] \o (first \o second) # trail[c]
    BY <1>1, <1>7, <2>1, ConcatEqualIffEmpty
  <2> QED
    BY <1>1, <2>2
<1>13. Recorded(c)'
  <2>1. /\ LastOf(trail[c], "visibility", "pending") = row.visibility
        /\ LastOf(trail[c], "wording", Unset) = texts[c].override
    BY <1>1, <1>2, <1>7 DEF Recorded
  <2>2. /\ LastOf(half \o second, "visibility", "pending") = visibility
        /\ LastOf(half \o second, "wording", Unset) = override
    BY <1>9, <1>10, <2>1
  <2> QED
    BY <1>1, <1>4, <1>5, <1>10, <1>11, <2>2 DEF Recorded
<1>14. ASSUME NEW d \in Class \ {c} PROVE Recorded(d)'
  BY <1>4, <1>5, <1>11 DEF AllRecorded, Recorded
<1> QED
  BY <1>1, <1>4, <1>5, <1>6, <1>11, <1>12, <1>13, <1>14
     DEF AllRecorded, Worded, FindingsReviewable, ModelRecorded

-----------------------------------------------------------------------------
(* The passes' steps. *)

\* A step that leaves the tables, the trail and the model alone.
LEMMA TablesUntouched ==
  ASSUME ReviewInv, UNCHANGED <<store, trail>>,
         clock' \in 0..MaxClock, served' \in 0..MaxModel,
         page' = NoPage \/ page' \in [anchor : Class, members : SUBSET Class],
         grouper' = NotGrouping \/ grouper' \in Grouping
  PROVE  ReviewInv'
BY DEF ReviewInv, Types, Worded, AllRecorded, Recorded, FindingsReviewable, ModelRecorded,
       store

\* A pass that goes on with less to do.
LEMMA EmbeddedTyped ==
  ASSUME grouper \in Grouping, NEW c \in Class, NEW anchors \in SUBSET Class
  PROVE  Embedded(c, anchors) = NotGrouping \/ Embedded(c, anchors) \in Grouping
BY DEF Embedded, Grouping

\* What the grouping pass does besides storing.
LEMMA GroupingKeeps ==
  ASSUME ReviewInv, GroupingStarts \/ GroupingEnds \/ \E c \in Class : SkipClass(c)
  PROVE  ReviewInv'
<1> USE DEF ReviewInv, Types
<1>1. UNCHANGED <<clock, store, trail, page, served>>
  BY DEF GroupingStarts, GroupingEnds, SkipClass
<1>2. grouper' = NotGrouping \/ grouper' \in Grouping
  <2>1. CASE GroupingStarts
    <3>1. PICK todo \in SUBSET Ungrouped(served) :
            grouper' = [pc |-> "embed", model |-> served, todo |-> todo,
                        anchors |-> GroupAnchors(served)]
      BY <2>1 DEF GroupingStarts
    <3>2. DOMAIN classes \subseteq Class /\ DOMAIN groups \subseteq Class
      BY TableIs
    <3>3. todo \in SUBSET Class /\ GroupAnchors(served) \in SUBSET Class
      BY <3>2 DEF Ungrouped, GroupAnchors
    <3> QED
      BY <3>1, <3>3 DEF Grouping
  <2>2. CASE GroupingEnds
    BY <2>2 DEF GroupingEnds
  <2>3. ASSUME NEW c \in Class, SkipClass(c)
        PROVE  grouper' = NotGrouping \/ grouper' \in Grouping
    <3>1. grouper \in Grouping
      BY <2>3 DEF SkipClass, NotGrouping
    <3>2. grouper.anchors \in SUBSET Class
      BY <3>1 DEF Grouping
    <3> QED
      BY <2>3, <3>1, <3>2, EmbeddedTyped DEF SkipClass
  <2> QED
    BY <2>1, <2>2, <2>3
<1> HIDE DEF ReviewInv
<1> QED
  BY <1>1, <1>2, TablesUntouched DEF ReviewInv

\* A row of a group is written with the model that answered.
LEMMA EmbedClassKeeps ==
  ASSUME ReviewInv, NEW c \in Class, EmbedClass(c)
  PROVE  ReviewInv'
<1> USE DEF ReviewInv, Types
<1>1. /\ grouper.pc = "embed" /\ c \in grouper.todo /\ served = grouper.model
      /\ UNCHANGED <<clock, findings, classes, texts, trail, page, served>>
  BY DEF EmbedClass, SameModel
<1>2. PICK a \in grouper.anchors \cup {c} :
        /\ groups' = With(groups, c, [anchor |-> a, model |-> grouper.model, of |-> served])
        /\ grouper' = Embedded(c, grouper.anchors \cup ({c} \cap {a}))
  BY DEF EmbedClass
<1>3. grouper \in Grouping
  BY <1>1 DEF NotGrouping
<1>4. grouper.anchors \in SUBSET Class /\ grouper.model \in 0..MaxModel /\ a \in Class
  BY <1>2, <1>3 DEF Grouping
<1> DEFINE row == [anchor |-> a, model |-> grouper.model, of |-> served]
<1>5. row \in Group /\ row.of = row.model
  BY <1>1, <1>4 DEF Group
<1> HIDE DEF row
<1>6. groups \in Table(Class, Group) /\ row \in Group
  BY <1>5
<1>7. /\ With(groups, c, row) \in Table(Class, Group)
      /\ DOMAIN With(groups, c, row) = DOMAIN groups \cup {c}
      /\ With(groups, c, row)[c] = row
      /\ \A x \in DOMAIN groups \ {c} : With(groups, c, row)[x] = groups[x]
  <2> HIDE DEF ReviewInv, Types
  <2> QED
    BY <1>6, RowWritten
<1>8. groups' = With(groups, c, row)
  BY <1>2 DEF row
<1>9. grouper' = NotGrouping \/ grouper' \in Grouping
  <2>1. grouper.anchors \cup ({c} \cap {a}) \in SUBSET Class
    BY <1>4
  <2> QED
    BY <1>2, <1>3, <2>1, EmbeddedTyped
<1>10. ModelRecorded'
  BY <1>5, <1>7, <1>8 DEF ModelRecorded
<1> QED
  BY <1>1, <1>7, <1>8, <1>9, <1>10 DEF AllRecorded, Recorded, Worded, FindingsReviewable

\* Only what nothing depends on is pruned.
LEMMA PruneKeeps ==
  ASSUME ReviewInv,
         \/ \E s \in System, c \in Class : PruneFinding(<<s, c>>)
         \/ \E c \in Class : PruneClass(c) \/ PruneGroup(c) \/ PruneText(c)
  PROVE  ReviewInv'
<1> USE DEF ReviewInv, Types
<1>1. UNCHANGED <<clock, trail, page, served, grouper>>
  BY DEF PruneFinding, PruneClass, PruneGroup, PruneText
<1>2. /\ findings \in Table(System \X Class, Finding) /\ classes \in Table(Class, ClassRow)
      /\ texts \in Table(Class, Text) /\ groups \in Table(Class, Group)
  OBVIOUS
<1>3. ASSUME NEW f \in System \X Class, PruneFinding(f) PROVE ReviewInv'
  <2>1. findings' = Without(findings, f) /\ UNCHANGED <<classes, texts, groups>>
    BY <1>3 DEF PruneFinding
  <2>2. /\ Without(findings, f) \in Table(System \X Class, Finding)
        /\ DOMAIN Without(findings, f) = DOMAIN findings \ {f}
    <3>1. findings \in Table(System \X Class, Finding)
      BY <1>2
    <3> HIDE DEF ReviewInv, Types
    <3> QED
      BY <3>1, RowDeleted
  <2> QED
    BY <1>1, <2>1, <2>2 DEF Worded, AllRecorded, Recorded, FindingsReviewable, ModelRecorded
<1>4. ASSUME NEW c \in Class, PruneClass(c) PROVE ReviewInv'
  <2>1. /\ classes' = Without(classes, c) /\ UNCHANGED <<findings, texts, groups>>
        /\ trail[c] = <<>> /\ \A s \in System : <<s, c>> \notin DOMAIN findings
    BY <1>4 DEF PruneClass, PrunableClasses
  <2>2. /\ Without(classes, c) \in Table(Class, ClassRow)
        /\ DOMAIN Without(classes, c) = DOMAIN classes \ {c}
        /\ \A x \in DOMAIN classes \ {c} : Without(classes, c)[x] = classes[x]
    <3>1. classes \in Table(Class, ClassRow)
      BY <1>2
    <3>2. \A x \in DOMAIN classes \ {c} : Without(classes, c)[x] = classes[x]
      BY DEF Without
    <3> HIDE DEF ReviewInv, Types
    <3>3. /\ Without(classes, c) \in Table(Class, ClassRow)
          /\ DOMAIN Without(classes, c) = DOMAIN classes \ {c}
      BY <3>1, RowDeleted
    <3> QED
      BY <3>2, <3>3
  <2>3. FindingsReviewable'
    <3>1. DOMAIN findings \subseteq System \X Class
      BY <1>2, TableIs
    <3>2. \A f \in DOMAIN findings : f[2] # c
      BY <2>1, <3>1
    <3> QED
      BY <2>1, <2>2, <3>2 DEF FindingsReviewable
  <2>4. ASSUME NEW d \in Class PROVE Recorded(d)'
    BY <1>1, <2>1, <2>2 DEF AllRecorded, Recorded
  <2> QED
    BY <1>1, <2>1, <2>2, <2>3, <2>4 DEF Worded, AllRecorded, ModelRecorded
<1>5. ASSUME NEW c \in Class, PruneGroup(c) PROVE ReviewInv'
  <2>1. groups' = Without(groups, c) /\ UNCHANGED <<findings, classes, texts>>
    BY <1>5 DEF PruneGroup
  <2>2. /\ Without(groups, c) \in Table(Class, Group)
        /\ DOMAIN Without(groups, c) = DOMAIN groups \ {c}
        /\ \A x \in DOMAIN groups \ {c} : Without(groups, c)[x] = groups[x]
    <3>1. groups \in Table(Class, Group)
      BY <1>2
    <3>2. \A x \in DOMAIN groups \ {c} : Without(groups, c)[x] = groups[x]
      BY DEF Without
    <3> HIDE DEF ReviewInv, Types
    <3>3. /\ Without(groups, c) \in Table(Class, Group)
          /\ DOMAIN Without(groups, c) = DOMAIN groups \ {c}
      BY <3>1, RowDeleted
    <3> QED
      BY <3>2, <3>3
  <2> QED
    BY <1>1, <2>1, <2>2 DEF Worded, AllRecorded, Recorded, FindingsReviewable, ModelRecorded
<1>6. ASSUME NEW c \in Class, PruneText(c) PROVE ReviewInv'
  <2>1. /\ texts' = Without(texts, c) /\ UNCHANGED <<findings, classes, groups>>
        /\ c \notin DOMAIN classes
    BY <1>6 DEF PruneText, Orphans
  <2>2. /\ Without(texts, c) \in Table(Class, Text)
        /\ DOMAIN Without(texts, c) = DOMAIN texts \ {c}
        /\ \A x \in DOMAIN texts \ {c} : Without(texts, c)[x] = texts[x]
    <3>1. texts \in Table(Class, Text)
      BY <1>2
    <3>2. \A x \in DOMAIN texts \ {c} : Without(texts, c)[x] = texts[x]
      BY DEF Without
    <3> HIDE DEF ReviewInv, Types
    <3>3. /\ Without(texts, c) \in Table(Class, Text)
          /\ DOMAIN Without(texts, c) = DOMAIN texts \ {c}
      BY <3>1, RowDeleted
    <3> QED
      BY <3>2, <3>3
  <2>3. ASSUME NEW d \in Class PROVE Recorded(d)'
    BY <1>1, <2>1, <2>2 DEF AllRecorded, Recorded
  <2> QED
    BY <1>1, <2>1, <2>2, <2>3 DEF Worded, AllRecorded, FindingsReviewable, ModelRecorded
<1> QED
  BY <1>3, <1>4, <1>5, <1>6

\* A page is rendered, the sidecar changes its model, the pruner goes on, the
\* process restarts, time passes.
LEMMA WorldKeeps ==
  ASSUME ReviewInv,
         \/ \E a \in Class : ShowGroup(a)
         \/ ServeAnother \/ PruneStarts \/ PruneGoesOn \/ PruneFails \/ Restart \/ Tick
  PROVE  ReviewInv'
<1>1. UNCHANGED <<store, trail>>
  BY DEF ShowGroup, ServeAnother, PruneStarts, PruneGoesOn, PruneFails, Restart, Tick
<1>2. clock' \in 0..MaxClock /\ served' \in 0..MaxModel
  BY ReviewAssumption
     DEF ShowGroup, ServeAnother, PruneStarts, PruneGoesOn, PruneFails, Restart, Tick,
         ReviewInv, Types
<1>3. page' = NoPage \/ page' \in [anchor : Class, members : SUBSET Class]
  <2>1. ASSUME NEW a \in Class, ShowGroup(a)
        PROVE  page' \in [anchor : Class, members : SUBSET Class]
    <3>1. DOMAIN classes \subseteq Class
      BY TableIs DEF ReviewInv, Types
    <3> QED
      BY <2>1, <3>1 DEF ShowGroup, Listed
  <2> QED
    BY <2>1
       DEF ServeAnother, PruneStarts, PruneGoesOn, PruneFails, Restart, Tick, ReviewInv, Types
<1>4. grouper' = NotGrouping \/ grouper' \in Grouping
  BY DEF ShowGroup, ServeAnother, PruneStarts, PruneGoesOn, PruneFails, Restart, Tick,
         ReviewInv, Types
<1> QED
  BY <1>1, <1>2, <1>3, <1>4, TablesUntouched

LEMMA ReviewInvInductive == ReviewInv /\ [Next]_vars => ReviewInv'
<1> SUFFICES ASSUME ReviewInv, [Next]_vars PROVE ReviewInv'
  OBVIOUS
<1>1. CASE Decide
  BY <1>1, DecideKeepsVisibilities, DecideClassKeeps DEF Decide
<1>2. CASE UNCHANGED vars
  BY <1>2, TablesUntouched DEF vars, ReviewInv, Types
<1> QED
  BY <1>1, <1>2, UpsertKeeps, SightingKeeps, GroupingKeeps, EmbedClassKeeps, PruneKeeps,
     WorldKeeps DEF Next

LEMMA ReviewInvAlways == Spec => []ReviewInv
BY ReviewInvInit, ReviewInvInductive, PTL DEF Spec

-----------------------------------------------------------------------------
(* The theorems. *)

\* Type correctness.
THEOREM ReviewTypeCorrect == Spec => []TypeOK
BY ReviewInvAlways, ReviewInvIsEnough, PTL

\* No decision is lost, and none is made without its record.
THEOREM DecisionsAlwaysKept == Spec => []DecisionsKept
BY ReviewInvAlways, ReviewInvIsEnough, PTL

\* A group form decides only what nobody decided yet.
THEOREM GroupAlwaysDecidesUndecided == Spec => []GroupDecidesUndecided
BY ReviewInvAlways, ReviewInvIsEnough, PTL

\* Every retained finding has its class.
THEOREM FindingsAlwaysReviewable == Spec => []FindingsReviewable
BY ReviewInvAlways, ReviewInvIsEnough, PTL

\* A class and its anchor were compared by vectors of one model.
THEOREM GroupsAlwaysOfOneModel == Spec => []GroupsOfOneModel
BY ReviewInvAlways, ReviewInvIsEnough, PTL

\* A wording stays as it is until an operator changes it.
THEOREM WordingsAlwaysStable == Spec => WordingStable
<1> DEFINE Stable(c) == /\ c \in DOMAIN texts'
                        /\ texts'[c].seed = texts[c].seed
                        /\ texts'[c].override # texts[c].override => trail'[c] # trail[c]
<1>1. ASSUME ReviewInv, [Next]_vars,
             NEW c \in DOMAIN classes \cap DOMAIN classes' \cap DOMAIN texts
      PROVE  Stable(c)
  <2>1. ASSUME NEW s \in System, NEW d \in Class, NEW w \in Wording,
                    NEW now \in RunNow, Upsert(s, d, w, now)
        PROVE  Stable(c)
    BY <2>1 DEF Upsert, Seeded, With
  <2>2. ASSUME NEW d \in Class, NEW form \in Form, DecideClass(d, form)
        PROVE  Stable(c)
    <3>1. texts' = [texts EXCEPT ![d].override = Override(form.wording, texts[d].seed)]
      BY <2>2 DEF DecideClass
    <3>2. trail'[d] # trail[d]
      BY <1>1, <2>2, DecideClassKeeps
    <3>3. texts \in [DOMAIN texts -> Text]
      BY <1>1, TableIs DEF ReviewInv, Types
    <3> QED
      BY <3>1, <3>2, <3>3 DEF Text
  <2>3. ASSUME NEW d \in Class, PruneText(d)
        PROVE  Stable(c)
    BY <2>3 DEF PruneText, Orphans, Without
  <2>4. CASE UNCHANGED texts
    BY <2>4
  <2> QED
    BY <1>1, <2>1, <2>2, <2>3, <2>4
       DEF Next, Decide, MarkStale, Refresh, ShowGroup, DecideGroup, DecideBulk,
           GroupingStarts, GroupingEnds, ServeAnother, PruneStarts, PruneGoesOn, PruneFails,
           EmbedClass, SkipClass, PruneClass, PruneGroup, PruneFinding, Restart, Tick, store,
           vars
<1>2. ReviewInv /\ [Next]_vars =>
        [\A c \in DOMAIN classes \cap DOMAIN classes' \cap DOMAIN texts : Stable(c)]_vars
  BY <1>1
<1> QED
  BY <1>2, ReviewInvAlways, PTL DEF Spec, WordingStable
=============================================================================
